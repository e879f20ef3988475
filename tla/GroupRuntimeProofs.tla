------------------------- MODULE GroupRuntimeProofs -------------------------
(***************************************************************************)
(* Theorems about GroupRuntime, for every number of operations, leases and *)
(* faults, every set of cookies and attempt ids, and both disciplines of   *)
(* the extension.                                                          *)
(***************************************************************************)
EXTENDS GroupRuntime, SequenceTheorems, TLAPS

-----------------------------------------------------------------------------
(* The typed pieces that the handlers build.                               *)

\* The phase operators return phases.
LEMMA PhaseTypes ==
    /\ PreCommit \subseteq OperationPhase
    /\ Durable \subseteq OperationPhase
    /\ Terminal \subseteq OperationPhase
    /\ \A p, s, v : RecoveredPhase(p, s, v) \in OperationPhase
  BY DEF OperationPhase, PreCommit, Durable, Terminal, RecoveredPhase, ClassifyVault

\* The empty values are well typed.
LEMMA ConstantTypes ==
    /\ NoVault \in VaultObject
    /\ NoSnapshot \in SnapshotBinding
    /\ NoOperation \in Operation
    /\ AbsentLease \in LeaseMetadata
    /\ NoPending \in PendingOperation
    /\ NoMessage \in Message
    /\ NoBoot \in Boot
    /\ NoJob \in Job
  <1>1. NoVault \in VaultObject
    BY DEF NoVault, VaultObject
  <1>2. NoSnapshot \in SnapshotBinding
    BY <1>1 DEF NoSnapshot, SnapshotBinding
  <1>3. NoOperation \in Operation
    BY <1>2 DEF NoOperation, Operation, OperationKind, Reasons, OperationPhase, PreCommit
  <1>4. AbsentLease \in LeaseMetadata
    BY DEF AbsentLease, LeaseMetadata
  <1>5. NoPending \in PendingOperation
    BY DEF NoPending, PendingOperation
  <1>6. NoMessage \in Message
    BY DEF NoMessage, Message, MessageTypes
  <1>7. NoBoot \in Boot
    BY DEF NoBoot, Boot
  <1>8. NoJob \in Job
    BY <1>2, <1>3, <1>4, <1>5, <1>6
    DEF NoJob, Job, JobSteps, OperationPhase, PreCommit
  <1> QED BY <1>1, <1>2, <1>3, <1>4, <1>5, <1>6, <1>7, <1>8

\* A job that ends with a lease write is well typed.
LEMMA LeaseJobType ==
    ASSUME NEW next \in LeaseMetadata, NEW ok \in PendingOperation,
           NEW err \in PendingOperation, NEW reply \in Message
    PROVE  /\ LeaseJob(next, ok, err, reply) \in Job
           /\ LeaseJob(next, ok, err, reply).at = "lease"
  BY ConstantTypes DEF LeaseJob, Job, JobSteps

\* A reply is well typed.
LEMMA MsgType ==
    ASSUME NEW type \in MessageTypes, NEW n \in Nat, NEW success \in BOOLEAN
    PROVE  Msg(type, n, success) \in Message
  BY DEF Msg, Message

\* The job that appends a new operation is well typed.
LEMMA BeginJobType ==
    ASSUME TypeOK, NEW n \in Nat, NEW kind \in OperationKind,
           NEW attempt \in Attempts \cup {NoAttempt}, NEW leaseId \in Nat,
           NEW reason \in Reasons, NEW next \in LeaseMetadata, NEW reply \in Message
    PROVE  /\ BeginJob(n, kind, attempt, leaseId, reason, next, reply) \in Job
           /\ BeginJob(n, kind, attempt, leaseId, reason, next, reply).new.attempt = attempt
  <1> DEFINE new == [kind |-> kind, attempt |-> attempt, lease |-> leaseId,
                     reason |-> reason, base |-> mlease.vseq,
                     phase |-> "NotCommitted", snapshot |-> NoSnapshot]
  <1>1. new \in Operation
    BY ConstantTypes DEF Operation, TypeOK, LeaseMetadata, OperationPhase, PreCommit
  <1>2. NewPending(n) \in PendingOperation
    BY DEF NewPending, PendingOperation
  <1> HIDE DEF new
  <1>3. [NoJob EXCEPT !.at = "begin", !.op = n, !.new = new, !.lease = next,
                      !.ok = NewPending(n), !.err = NoPending, !.reply = reply] \in Job
    BY <1>1, <1>2, ConstantTypes DEF Job, JobSteps
  <1> QED BY <1>1, <1>3, ConstantTypes DEF BeginJob, new, Job

\* Every entry of a journal is an operation record.
LEMMA OpsTyped ==
    ASSUME TypeOK
    PROVE  /\ Len(journal) \in Nat
           /\ \A n \in Ops : n \in Nat /\ journal[n] \in Operation
  BY DEF TypeOK, Ops

\* Changing one field of one journal record keeps the journal a sequence of
\* records of the same length, and an index out of range changes nothing.
LEMMA JournalExcept ==
    ASSUME journal \in Seq(Operation), NEW n
    PROVE  /\ \A p \in OperationPhase :
                 /\ [journal EXCEPT ![n].phase = p] \in Seq(Operation)
                 /\ Len([journal EXCEPT ![n].phase = p]) = Len(journal)
                 /\ n \notin Ops => [journal EXCEPT ![n].phase = p] = journal
           /\ \A b \in SnapshotBinding :
                 /\ [journal EXCEPT ![n].snapshot = b] \in Seq(Operation)
                 /\ Len([journal EXCEPT ![n].snapshot = b]) = Len(journal)
                 /\ n \notin Ops => [journal EXCEPT ![n].snapshot = b] = journal
  <1>1. CASE n \notin Ops
    <2>1. \A p : [journal EXCEPT ![n].phase = p] = journal
      BY <1>1 DEF Ops
    <2>2. \A b : [journal EXCEPT ![n].snapshot = b] = journal
      BY <1>1 DEF Ops
    <2> QED BY <2>1, <2>2
  <1>2. CASE n \in Ops
    <2>1. n \in 1 .. Len(journal) /\ journal[n] \in Operation
      BY <1>2 DEF Ops
    <2>2. ASSUME NEW p \in OperationPhase
          PROVE  /\ [journal EXCEPT ![n].phase = p] \in Seq(Operation)
                 /\ Len([journal EXCEPT ![n].phase = p]) = Len(journal)
      <3> DEFINE r == [journal[n] EXCEPT !.phase = p]
      <3>1. r \in Operation
        BY <2>1 DEF Operation
      <3>2. [journal EXCEPT ![n].phase = p] = [journal EXCEPT ![n] = r]
        OBVIOUS
      <3> HIDE DEF r
      <3> QED BY <2>1, <3>1, <3>2, ExceptSeq
    <2>3. ASSUME NEW b \in SnapshotBinding
          PROVE  /\ [journal EXCEPT ![n].snapshot = b] \in Seq(Operation)
                 /\ Len([journal EXCEPT ![n].snapshot = b]) = Len(journal)
      <3> DEFINE r == [journal[n] EXCEPT !.snapshot = b]
      <3>1. r \in Operation
        BY <2>1 DEF Operation
      <3>2. [journal EXCEPT ![n].snapshot = b] = [journal EXCEPT ![n] = r]
        OBVIOUS
      <3> HIDE DEF r
      <3> QED BY <2>1, <3>1, <3>2, ExceptSeq
    <2> QED BY <1>2, <2>2, <2>3
  <1> QED BY <1>1, <1>2

-----------------------------------------------------------------------------
(* What the durable writes and the ends of a handler do to the types.      *)

\* A write, successful or not, keeps the types of what it shares with others.
LEMMA WriteType ==
    ASSUME TypeOK, NEW file, WriteGoes(file) \/ WriteFails(file)
    PROVE  tmp' \in SUBSET Files /\ faults' \in Nat
  BY DEF TypeOK, WriteGoes, WriteFails, IOError

\* A lease write, successful or not, leaves a well typed lease file.
LEMMA LeaseWriteType ==
    ASSUME TypeOK, NEW next \in LeaseMetadata, LeaseWriteGoes(next) \/ LeaseWriteFails(next)
    PROVE  lease' \in LeaseMetadata /\ tmp' \in SUBSET Files /\ faults' \in Nat
  <1>1. lease' \in LeaseMetadata
    BY DEF TypeOK, LeaseWriteGoes, LeaseWriteFails
  <1> QED BY <1>1, WriteType DEF LeaseWriteGoes, LeaseWriteFails

\* A journal transition keeps the type of the journal.
LEMMA TransitionType ==
    ASSUME TypeOK, NEW n, NEW phase \in OperationPhase,
           TransitionGoes(n, phase) \/ TransitionFails(n, phase)
    PROVE  /\ journal' \in Seq(Operation) /\ Len(journal') = Len(journal)
           /\ tmp' \in SUBSET Files /\ faults' \in Nat
  <1>1. CASE UNCHANGED <<journal, tmp, faults>>
    BY <1>1 DEF TypeOK
  <1>2. CASE JournalWriteGoes([journal EXCEPT ![n].phase = phase])
    BY <1>2, WriteType, JournalExcept DEF TypeOK, JournalWriteGoes
  <1>3. CASE JournalWriteFails
    BY <1>3, WriteType DEF TypeOK, JournalWriteFails
  <1> QED BY <1>1, <1>2, <1>3 DEF TransitionGoes, TransitionFails

\* Answering a request keeps the types of the job and the reply.
LEMMA ReturnType ==
    ASSUME NEW pend \in PendingOperation, NEW message \in Message, Return(pend, message)
    PROVE  job' \in Job /\ pending' \in PendingOperation /\ out' \in Message
  BY ConstantTypes DEF Return

\* Failing a request keeps the types of the job and the reply.
LEMMA FailType ==
    ASSUME NEW pend \in PendingOperation, Fail(pend)
    PROVE  job' \in Job /\ pending' \in PendingOperation /\ out' \in Message
  BY ConstantTypes DEF Return, Fail

\* Going on to the next step of a job keeps its type.
LEMMA ContinueType ==
    ASSUME TypeOK, NEW step \in Job, Continue(step)
    PROVE  job' \in Job /\ pending' \in PendingOperation /\ out' \in Message
  BY ConstantTypes DEF Continue, TypeOK

-----------------------------------------------------------------------------
(* The type invariant.                                                     *)

\* Where startup_recover is: the operations it still has to look at and the
\* committed one it found are operations of the journal.
BootRefs == boot.todo \subseteq Ops /\ boot.committed \in Ops \cup {0}

\* The initial state is well typed.
LEMMA InitType == Init => TypeOK /\ BootRefs
  <1>1. <<>> \in Seq(Operation)
    OBVIOUS
  <1> QED BY <1>1, ConstantTypes DEF Init, TypeOK, BootRefs, NoBoot, Files

\* Crash, restart and the steps of opening a group keep the types.
LEMMA ProcessType ==
    ASSUME TypeOK, BootRefs, Crash \/ Process
    PROVE  TypeOK' /\ BootRefs'
  <1>1. CASE Crash
    <2>1. tmp' \in SUBSET Files
      BY <1>1 DEF Crash, Writing, Files, TypeOK
    <2> QED BY <1>1, <2>1, FailType, ConstantTypes DEF Crash, TypeOK, BootRefs, NoBoot
  <1>2. CASE Launch
    BY <1>2 DEF Launch, TypeOK, BootRefs, Ops, disk
  <1>3. ASSUME OpenFails, journal' \in Seq(Operation), lease' \in LeaseMetadata,
               tmp' \in SUBSET Files, faults' \in Nat
        PROVE  TypeOK' /\ BootRefs'
    BY <1>3, FailType, ConstantTypes DEF OpenFails, TypeOK, BootRefs, NoBoot
  <1>4. LoadedLease \in LeaseMetadata
    BY DEF LoadedLease, InitialLease, LeaseMetadata, GroupState, TypeOK
  <1>5. CASE Load
    <2>1. lease' \in LeaseMetadata /\ tmp' \in SUBSET Files /\ faults' \in Nat
      BY <1>4, <1>5, LeaseWriteType DEF Load, TypeOK
    <2>2. boot' \in Boot /\ BootRefs'
      BY <1>5 DEF Load, Boot, BootRefs, Unresolved, Ops, has_unresolved, TypeOK
    <2> QED BY <1>4, <1>5, <2>1, <2>2 DEF Load, TypeOK
  <1>6. CASE LoadFails
    <2>1. lease' \in LeaseMetadata /\ tmp' \in SUBSET Files /\ faults' \in Nat
      BY <1>4, <1>6, LeaseWriteType DEF LoadFails, TypeOK
    <2> QED BY <1>3, <1>6, <2>1 DEF LoadFails, TypeOK
  <1>7. \A n : StartupPhase(n) \in OperationPhase
    BY PhaseTypes DEF StartupPhase, OperationPhase, Terminal
  <1>8. ASSUME NEW n \in Ops, Recover(n)
        PROVE  TypeOK' /\ BootRefs'
    <2>1. /\ journal' \in Seq(Operation) /\ Len(journal') = Len(journal)
          /\ tmp' \in SUBSET Files /\ faults' \in Nat
      BY <1>7, <1>8, TransitionType DEF Recover
    <2>2. boot' \in Boot
      BY <1>8 DEF Recover, Boot, TypeOK, Ops
    <2>3. BootRefs'
      BY <1>8, <2>1 DEF Recover, BootRefs, Ops, TypeOK, Boot
    <2> QED BY <1>8, <2>1, <2>2, <2>3 DEF Recover, TypeOK
  <1>9. ASSUME NEW n \in Ops, RecoverFails(n)
        PROVE  TypeOK' /\ BootRefs'
    <2>1. /\ journal' \in Seq(Operation) /\ tmp' \in SUBSET Files /\ faults' \in Nat
      BY <1>7, <1>9, TransitionType DEF RecoverFails
    <2> QED BY <1>3, <1>9, <2>1 DEF RecoverFails, TypeOK
  <1>10. CASE Recovered
    BY <1>10 DEF Recovered, TypeOK, BootRefs, Ops, disk
  <1>11. RepairedLease \in LeaseMetadata
    <2>1. \A n \in Ops : journal[n].lease \in Nat /\ journal[n].snapshot.target.seq \in Nat
      BY OpsTyped DEF Operation, SnapshotBinding, VaultObject
    <2> QED BY <2>1 DEF RepairedLease, CompletedProjection, LeaseMetadata, GroupState,
                        TypeOK, BootRefs, Boot, Ops
  <1>12. CASE Repair
    <2>1. /\ lease' \in LeaseMetadata /\ tmp' \in SUBSET Files /\ faults' \in Nat
          /\ mlease' \in LeaseMetadata
      BY <1>11, <1>12, LeaseWriteType DEF Repair, TypeOK
    <2> QED BY <1>12, <2>1, ConstantTypes DEF Repair, TypeOK, BootRefs, NoBoot, Ops
  <1>13. CASE RepairFails
    <2>1. lease' \in LeaseMetadata /\ tmp' \in SUBSET Files /\ faults' \in Nat
      BY <1>11, <1>13, LeaseWriteType DEF RepairFails
    <2> QED BY <1>3, <1>13, <2>1 DEF RepairFails, TypeOK
  <1> QED BY <1>1, <1>2, <1>5, <1>6, <1>8, <1>9, <1>10, <1>12, <1>13 DEF Process

\* The handlers of the requests keep the types.
LEMMA HandleType ==
    ASSUME TypeOK, BootRefs, Handle
    PROVE  TypeOK' /\ BootRefs'
  <1> DEFINE Typed == job' \in Job /\ pending' \in PendingOperation /\ out' \in Message
  <1>1. ASSUME HandlerKeeps, Typed PROVE TypeOK' /\ BootRefs'
    BY <1>1 DEF HandlerKeeps, disk, TypeOK, BootRefs, Ops
  <1>2. ASSUME LeaseAllowed, Typed PROVE TypeOK' /\ BootRefs'
    BY <1>2 DEF LeaseAllowed, disk, TypeOK, BootRefs, Ops
  <1>3. mlease \in LeaseMetadata /\ pending \in PendingOperation /\ Len(journal) \in Nat
    BY OpsTyped DEF TypeOK
  <1>4. Msg("HandshakeAck", 0, TRUE) \in Message
    BY MsgType DEF MessageTypes
  <1>5. CASE Handshake6
    <2>1. Typed
      BY <1>3, <1>4, <1>5, ReturnType DEF Handshake6
    <2> QED BY <1>5, <2>1 DEF Handshake6, disk, TypeOK, BootRefs, Ops
  <1>6. CASE Handshake7
    <2>1. [mlease EXCEPT !.floor = 7, !.hw = Len(journal)] \in LeaseMetadata
      BY <1>3 DEF LeaseMetadata
    <2>2. Typed
      BY <1>3, <1>4, <1>6, <2>1, LeaseJobType, ContinueType, ReturnType DEF Handshake7
    <2> QED BY <1>6, <2>2 DEF Handshake7, disk, TypeOK, BootRefs, Ops
  <1>7. ASSUME LeaseAllowed PROVE lastLease' \in Nat
    BY <1>7 DEF LeaseAllowed, TypeOK
  <1>8. CASE GrantEnrollment7
    <2>1. [mlease EXCEPT !.id = lastLease'] \in LeaseMetadata
      BY <1>3, <1>7, <1>8 DEF GrantEnrollment7, LeaseMetadata
    <2>2. Msg("EnrollGrant", 0, TRUE) \in Message
      BY MsgType DEF MessageTypes
    <2>3. Typed
      BY <1>8, <2>1, <2>2, LeaseJobType, ContinueType, ConstantTypes DEF GrantEnrollment7
    <2> QED BY <1>2, <1>8, <2>3 DEF GrantEnrollment7
  <1>9. CASE BeginEnrollment6
    <2> DEFINE n == Len(journal) + 1
               l == [mlease EXCEPT !.state = "Evicting", !.id = lastLease', !.op = n]
    <2>0. n \in Nat
      BY <1>3
    <2>1. l \in LeaseMetadata
      <3> HIDE DEF n
      <3> QED BY <1>3, <1>7, <1>9, <2>0 DEF BeginEnrollment6, LeaseMetadata, GroupState
    <2>2. Msg("EnrollGrant", n, TRUE) \in Message
      BY <2>0, MsgType DEF MessageTypes
    <2>3. "Enrollment" \in OperationKind /\ "other" \in Reasons
      BY DEF OperationKind, Reasons
    <2>4. Typed
      <3>1. lastLease' \in Nat
        BY <1>7, <1>9 DEF BeginEnrollment6
      <3>2. BeginJob(n, "Enrollment", NoAttempt, lastLease', "other", l,
                     Msg("EnrollGrant", n, TRUE)) \in Job
        <4> HIDE DEF l, n
        <4> QED BY <2>0, <2>1, <2>2, <2>3, <3>1, BeginJobType
      <3> QED BY <1>9, <3>2, ContinueType DEF BeginEnrollment6
    <2> QED BY <1>2, <1>9, <2>4 DEF BeginEnrollment6
  <1>10. CASE BeginInject
    <2>1. [mlease EXCEPT !.state = "Leased", !.id = lastLease', !.op = 0, !.vseq = vault.seq]
             \in LeaseMetadata
      BY <1>3, <1>7, <1>10 DEF BeginInject, LeaseMetadata, GroupState, TypeOK, VaultObject
    <2>2. Msg("InjectGrant", 0, TRUE) \in Message
      BY MsgType DEF MessageTypes
    <2>3. Typed
      BY <1>10, <2>1, <2>2, LeaseJobType, ContinueType, ConstantTypes DEF BeginInject
    <2> QED BY <1>2, <1>10, <2>3 DEF BeginInject
  <1>11. CASE InjectFailed
    <2>1. [mlease EXCEPT !.state = "Degraded"] \in LeaseMetadata
      BY <1>3 DEF LeaseMetadata, GroupState
    <2>2. Msg("InjectResultHandled", 0, FALSE) \in Message
      BY MsgType DEF MessageTypes
    <2>3. Typed
      BY <1>3, <1>11, <2>1, <2>2, LeaseJobType, ContinueType, ReturnType DEF InjectFailed
    <2>4. faults' \in Nat
      <3>1. faults \in Nat
        BY DEF TypeOK
      <3>2. faults' = faults \/ faults' = faults + 1
        BY <1>11 DEF InjectFailed, IOError
      <3> QED BY <3>1, <3>2
    <2> QED BY <1>11, <2>3, <2>4 DEF InjectFailed, disk, TypeOK, BootRefs, Ops
  <1>12. CASE SessionInvalidate
    <2> DEFINE l == [mlease EXCEPT !.state = "Uninitialized", !.id = 0, !.op = 0, !.vseq = 0]
               j == LeaseJob(l, NoPending, NoPending, Msg("Invalidated", 0, TRUE))
    <2>1. l \in LeaseMetadata
      BY <1>3 DEF LeaseMetadata, GroupState
    <2>2. Msg("Invalidated", 0, TRUE) \in Message
      BY MsgType DEF MessageTypes
    <2>3. j \in Job
      BY <2>1, <2>2, LeaseJobType, ConstantTypes
    <2>4. [j EXCEPT !.at = "delete"] \in Job
      <3> HIDE DEF j
      <3> QED BY <2>3 DEF Job, JobSteps
    <2>5. Typed
      BY <1>12, <2>4, ContinueType DEF SessionInvalidate
    <2> QED BY <1>1, <1>12, <2>5 DEF SessionInvalidate
  <1>13. CASE RemovePrepare7
    <2>1. [pending EXCEPT !.counted = FALSE, !.full = FALSE] \in PendingOperation
      BY <1>3 DEF PendingOperation
    <2>2. Typed
      BY <1>13, <2>1, ReturnType, ConstantTypes DEF RemovePrepare7
    <2> QED BY <1>1, <1>13, <2>2 DEF RemovePrepare7
  <1>14. ASSUME NEW n \in 1 .. MaxOps, NEW reason \in Reasons, EvictBegin6(n, reason)
         PROVE  TypeOK' /\ BootRefs'
    <2> DEFINE kind == IF reason = "startup_reconciliation" /\ mlease.state # "Uninitialized"
                       THEN "Reconciliation" ELSE "Eviction"
               recreation == mlease.state = "Sealed" /\ reason = "site_cookie_recreated"
               id == IF recreation THEN 0 ELSE mlease.id
               l == [mlease EXCEPT !.state = "Evicting", !.op = n]
               request == BeginJob(n, kind, NoAttempt, id, reason, l,
                                   Msg("SnapshotRequired", n, TRUE))
               at == IF has_unresolved THEN "close" ELSE "begin"
    <2>1. l \in LeaseMetadata /\ id \in Nat /\ n \in Nat
      <3>1. n \in Nat
        BY BoundsAssumption
      <3> QED BY <1>3, <3>1 DEF LeaseMetadata, GroupState
    <2>2. Msg("SnapshotRequired", n, TRUE) \in Message
      BY <2>1, MsgType DEF MessageTypes
    <2>3. kind \in OperationKind
      BY DEF OperationKind
    <2>4. request \in Job
      <3> HIDE DEF l, kind, id
      <3> QED BY <2>1, <2>2, <2>3, BeginJobType
    <2>5. [request EXCEPT !.at = at] \in Job
      <3> HIDE DEF request
      <3> QED BY <2>4 DEF Job, JobSteps
    <2>6. Continue([request EXCEPT !.at = at])
      BY <1>14 DEF EvictBegin6
    <2>7. Typed
      <3> HIDE DEF request, at
      <3> QED BY <2>5, <2>6, ContinueType
    <2> QED BY <1>1, <1>14, <2>7 DEF EvictBegin6
  <1>15. ASSUME NEW a \in Attempts, NEW kind \in OperationKind, OperationBegin7(a, kind)
         PROVE  TypeOK' /\ BootRefs'
    <2> DEFINE n == Len(journal) + 1
               l == [mlease EXCEPT !.state = "Evicting", !.op = n, !.hw = n]
    <2>1. l \in LeaseMetadata /\ mlease.id \in Nat /\ n \in Nat
      <3>1. n \in Nat
        BY <1>3
      <3> HIDE DEF n
      <3> QED BY <1>3, <3>1 DEF LeaseMetadata, GroupState
    <2>2. Msg("SnapshotRequired", n, TRUE) \in Message
      BY <2>1, MsgType DEF MessageTypes
    <2>3. "other" \in Reasons
      BY DEF Reasons
    <2>4. BeginJob(n, kind, a, mlease.id, "other", l, Msg("SnapshotRequired", n, TRUE)) \in Job
      <3> HIDE DEF l, n
      <3> QED BY <2>1, <2>2, <2>3, BeginJobType
    <2>5. Typed
      BY <1>15, <2>4, ContinueType DEF OperationBegin7
    <2> QED BY <1>1, <1>15, <2>5 DEF OperationBegin7
  <1>16. ASSUME NEW n \in Ops, OperationReplay7(n)
         PROVE  TypeOK' /\ BootRefs'
    <2>1. \A type \in MessageTypes : Msg(type, n, TRUE) \in Message
      BY MsgType, OpsTyped
    <2>2. Typed
      BY <1>3, <1>16, <2>1, ReturnType DEF OperationReplay7, MessageTypes
    <2> QED BY <1>1, <1>16, <2>2 DEF OperationReplay7
  <1>17. ASSUME NEW n \in Ops, OperationStatus7(n)
         PROVE  TypeOK' /\ BootRefs'
    <2> DEFINE new == [op |-> n, confirmed |-> journal[n].phase \in Durable,
                       counted |-> journal[n].snapshot # NoSnapshot, full |-> FALSE]
    <2>1. Msg("Status", n, TRUE) \in Message
      BY MsgType, OpsTyped DEF MessageTypes
    <2>2. new \in PendingOperation
      BY OpsTyped DEF PendingOperation
    <2>3. Typed
      BY <1>3, <1>17, <2>1, <2>2, ReturnType DEF OperationStatus7
    <2> QED BY <1>1, <1>17, <2>3 DEF OperationStatus7
  <1>18. ASSUME NEW S \in SUBSET Cookies, Snapshot(S)
         PROVE  TypeOK' /\ BootRefs'
    <2> DEFINE n == pending.op
               taken == [pending EXCEPT !.full = TRUE]
               l == [mlease EXCEPT !.state = "Uninitialized", !.id = 0, !.op = 0]
               j == LeaseJob(l, NoPending, NoPending, Msg("EmptyScope", n, TRUE))
               b == PreparedBinding(n, S)
    <2>1. taken \in PendingOperation /\ n \in Nat
      BY <1>3 DEF PendingOperation
    <2>2. l \in LeaseMetadata
      BY <1>3 DEF LeaseMetadata, GroupState
    <2>3. Msg("EmptyScope", n, TRUE) \in Message
      BY <2>1, MsgType DEF MessageTypes
    <2>4. j \in Job
      BY <2>2, <2>3, LeaseJobType, ConstantTypes
    <2>5. [j EXCEPT !.at = "finish", !.op = n, !.phase = "Aborted"] \in Job
      <3> HIDE DEF j, n
      <3> QED BY <2>1, <2>4 DEF Job, JobSteps, OperationPhase, Terminal
    <2>6. b \in SnapshotBinding
      BY <2>1 DEF PreparedBinding, PreparedTarget, SnapshotBinding, VaultObject, TypeOK
    <2>7. [NoJob EXCEPT !.at = "bind", !.op = n, !.snapshot = b] \in Job
      <3> HIDE DEF b, n
      <3> QED BY <2>1, <2>6, ConstantTypes DEF Job, JobSteps
    <2>8. Typed
      <3> HIDE DEF taken
      <3> QED BY <1>18, <2>1, <2>5, <2>7, FailType, ConstantTypes DEF Snapshot, SnapshotTaken, taken
    <2> QED BY <1>1, <1>18, <2>8 DEF Snapshot
  <1>19. ASSUME NEW S \in SUBSET Cookies, RemovalSnapshot7(S)
         PROVE  TypeOK' /\ BootRefs'
    <2> DEFINE n == pending.op
               taken == [pending EXCEPT !.full = TRUE]
               l == [mlease EXCEPT !.state = "Degraded"]
               j == LeaseJob(l, NoPending, taken, Msg("Completed", n, FALSE))
    <2>1. taken \in PendingOperation /\ n \in Nat
      BY <1>3 DEF PendingOperation
    <2>2. l \in LeaseMetadata
      BY <1>3 DEF LeaseMetadata, GroupState
    <2>3. Msg("Completed", n, FALSE) \in Message /\ Msg("Authorized", n, TRUE) \in Message
      BY <2>1, MsgType DEF MessageTypes
    <2>4. j \in Job
      <3> HIDE DEF taken, l
      <3> QED BY <2>1, <2>2, <2>3, LeaseJobType, ConstantTypes
    <2>5. [j EXCEPT !.at = "finish", !.op = n, !.phase = "ReconciliationRequired"] \in Job
      <3> HIDE DEF j, n
      <3> QED BY <2>1, <2>4 DEF Job, JobSteps, OperationPhase, Terminal
    <2>6. Typed
      <3>1. CASE job' = [j EXCEPT !.at = "finish", !.op = n, !.phase = "ReconciliationRequired"]
                 /\ pending' = taken /\ out' = NoMessage
        BY <2>1, <2>5, <3>1, ConstantTypes
      <3>2. CASE Fail(taken)
        BY <2>1, <3>2, FailType
      <3>3. CASE Return(taken, Msg("Authorized", n, TRUE))
        BY <2>1, <2>3, <3>3, ReturnType
      <3> QED BY <1>19, <3>1, <3>2, <3>3 DEF RemovalSnapshot7, SnapshotTaken
    <2> QED BY <1>1, <1>19, <2>6 DEF RemovalSnapshot7
  <1>20. ASSUME NEW success \in BOOLEAN, NEW remaining \in 0 .. Cardinality(Cookies),
                EvictResult(success, remaining)
         PROVE  TypeOK' /\ BootRefs'
    <2> DEFINE n == pending.op
    <2>1. n \in Nat
      BY <1>3 DEF PendingOperation
    <2>2. PICK next \in LeaseMetadata, reply \in Message, phase \in OperationPhase :
             job' = [LeaseJob(next, NoPending, NoPending, reply)
                     EXCEPT !.at = "finish", !.op = n, !.phase = phase]
      <3> DEFINE enrollment == journal[n].kind = "Enrollment"
                 retained == /\ enrollment /\ success /\ pending.counted
                             /\ remaining = Cardinality(journal[n].snapshot.cookies)
                             /\ remaining > 0
                 removed == ~enrollment /\ success /\ remaining = 0
                 next == CASE retained -> [mlease EXCEPT !.state = "Leased", !.op = 0]
                           [] removed -> [mlease EXCEPT !.state = "Sealed", !.id = 0, !.op = 0]
                           [] OTHER -> [mlease EXCEPT !.state = "Degraded", !.op = 0]
                 reported == success /\ (IF enrollment THEN remaining > 0 ELSE remaining = 0)
                 reply == IF proto = 7 THEN Msg("Completed", n, reported) ELSE NoMessage
                 phase == IF retained \/ removed THEN "Completed" ELSE "ReconciliationRequired"
      <3>1. next \in LeaseMetadata
        <4> HIDE DEF retained, removed
        <4> QED BY <1>3 DEF LeaseMetadata, GroupState
      <3>2. reply \in Message
        <4>1. reported \in BOOLEAN
          OBVIOUS
        <4> HIDE DEF reported
        <4> QED BY <2>1, <4>1, MsgType, ConstantTypes DEF MessageTypes
      <3>3. phase \in OperationPhase
        BY DEF OperationPhase, Terminal
      <3>4. job' = [LeaseJob(next, NoPending, NoPending, reply)
                    EXCEPT !.at = "finish", !.op = n, !.phase = phase]
        BY <1>20 DEF EvictResult, ReportedSuccess
      <3> HIDE DEF next, reply, phase
      <3> QED BY <3>1, <3>2, <3>3, <3>4
    <2> DEFINE j == LeaseJob(next, NoPending, NoPending, reply)
    <2>3. j \in Job
      BY LeaseJobType, ConstantTypes
    <2>4. job' \in Job
      <3> HIDE DEF j
      <3>1. [j EXCEPT !.at = "finish", !.op = n, !.phase = phase] \in Job
        BY <2>1, <2>3 DEF Job, JobSteps
      <3> QED BY <2>2, <3>1 DEF j
    <2>5. Typed
      BY <1>20, <2>4, ConstantTypes DEF EvictResult
    <2> QED BY <1>1, <1>20, <2>5 DEF EvictResult
  <1> QED
    BY <1>5, <1>6, <1>8, <1>9, <1>10, <1>11, <1>12, <1>13, <1>14, <1>15, <1>16, <1>17,
       <1>18, <1>19, <1>20
    DEF Handle

\* The steps of a handler change the type of nothing.  A transition step of the
\* journal either continues the job or fails.
LEMMA TransitionStepType ==
    ASSUME TypeOK, BootRefs, UNCHANGED <<lease, vault, mlease>>, HandlerStep,
           NEW n, NEW phase \in OperationPhase,
           TransitionGoes(n, phase) \/ TransitionFails(n, phase),
           job' \in Job, pending' \in PendingOperation, out' \in Message
    PROVE  TypeOK' /\ BootRefs'
  <1>1. /\ journal' \in Seq(Operation) /\ Len(journal') = Len(journal)
        /\ tmp' \in SUBSET Files /\ faults' \in Nat
    BY TransitionType
  <1> QED BY <1>1 DEF HandlerStep, TypeOK, BootRefs, Ops

\* The write steps of a job keep the types.
LEMMA WriteStepType ==
    ASSUME TypeOK, BootRefs, Write
    PROVE  TypeOK' /\ BootRefs'
  <1> DEFINE Typed == job' \in Job /\ pending' \in PendingOperation /\ out' \in Message
  <1>1. /\ pending \in PendingOperation /\ job \in Job /\ mlease \in LeaseMetadata
        /\ job.lease \in LeaseMetadata /\ job.ok \in PendingOperation
        /\ job.err \in PendingOperation /\ job.reply \in Message
        /\ job.snapshot \in SnapshotBinding /\ job.new \in Operation
        /\ job.phase \in OperationPhase /\ job.op \in Nat
    BY DEF TypeOK, Job
  <1>2. \A step \in JobSteps : [job EXCEPT !.at = step] \in Job
    BY <1>1 DEF Job
  <1>3. ASSUME Fail(pending) PROVE Typed
    BY <1>1, <1>3, FailType
  <1>4. ASSUME NEW step \in JobSteps, Continue([job EXCEPT !.at = step]) PROVE Typed
    BY <1>2, <1>4, ContinueType
  <1>5. CommittedJob \in Job
    <2> DEFINE confirmed == [pending EXCEPT !.confirmed = TRUE, !.counted = TRUE]
               l == [mlease EXCEPT !.vseq = job.snapshot.target.seq, !.op = job.op]
               j == LeaseJob(l, confirmed, confirmed, Msg("Confirmed", job.op, TRUE))
    <2>1. confirmed \in PendingOperation
      BY <1>1 DEF PendingOperation
    <2>2. l \in LeaseMetadata
      BY <1>1 DEF LeaseMetadata, SnapshotBinding, VaultObject
    <2>3. Msg("Confirmed", job.op, TRUE) \in Message
      BY <1>1, MsgType DEF MessageTypes
    <2>4. j \in Job
      <3> HIDE DEF confirmed, l
      <3> QED BY <2>1, <2>2, <2>3, LeaseJobType
    <2>5. [j EXCEPT !.op = job.op] \in Job
      <3> HIDE DEF j
      <3> QED BY <1>1, <2>4 DEF Job
    <2> QED BY <2>5 DEF CommittedJob
  <1>6. CASE Begin
    <2>1. /\ journal' \in Seq(Operation) /\ Len(journal') >= Len(journal)
          /\ tmp' \in SUBSET Files /\ faults' \in Nat
      <3>1. CASE UNCHANGED <<journal, tmp, faults>>
        BY <3>1, OpsTyped DEF TypeOK
      <3>2. CASE JournalWriteGoes(Append(journal, job.new))
        <4>1. /\ Append(journal, job.new) \in Seq(Operation)
              /\ Len(Append(journal, job.new)) = Len(journal) + 1
          BY <1>1, AppendProperties DEF TypeOK
        <4> QED BY <3>2, <4>1, OpsTyped, WriteType DEF JournalWriteGoes
      <3>3. CASE JournalWriteFails
        BY <3>3, OpsTyped, WriteType DEF JournalWriteFails, TypeOK
      <3> QED BY <1>6, <3>1, <3>2, <3>3 DEF Begin
    <2>2. Typed
      BY <1>3, <1>4, <1>6 DEF Begin, JobSteps
    <2>3. Ops \subseteq Ops'
      BY <2>1, OpsTyped DEF Ops
    <2> QED BY <1>6, <2>1, <2>2, <2>3 DEF Begin, HandlerStep, TypeOK, BootRefs
  <1>7. CASE BindSnapshot
    <2>1. /\ journal' \in Seq(Operation) /\ Len(journal') = Len(journal)
          /\ tmp' \in SUBSET Files /\ faults' \in Nat
      <3>1. CASE UNCHANGED <<journal, tmp, faults>>
        BY <3>1 DEF TypeOK
      <3>2. CASE JournalWriteGoes([journal EXCEPT ![job.op].snapshot = job.snapshot])
        BY <1>1, <3>2, JournalExcept, WriteType DEF JournalWriteGoes, TypeOK
      <3>3. CASE JournalWriteFails
        BY <3>3, WriteType DEF JournalWriteFails, TypeOK
      <3> QED BY <1>7, <3>1, <3>2, <3>3 DEF BindSnapshot
    <2>2. Typed
      BY <1>3, <1>4, <1>7 DEF BindSnapshot, JobSteps
    <2> QED BY <1>7, <2>1, <2>2 DEF BindSnapshot, HandlerStep, TypeOK, BootRefs, Ops
  <1>8. {"DurabilityUnknown", "Committed", "NotCommitted", "BrowserRemovalPending", "Aborted",
         "ReconciliationRequired"} \subseteq OperationPhase
    BY DEF OperationPhase, PreCommit, Durable, Terminal
  <1>9. CASE MarkUnknown
    <2>1. Typed
      BY <1>3, <1>4, <1>9 DEF MarkUnknown, JobSteps
    <2> QED BY <1>8, <1>9, <2>1, TransitionStepType DEF MarkUnknown
  <1>10. CASE WriteVault
    <2>1. vault' \in VaultObject /\ tmp' \in SUBSET Files /\ faults' \in Nat
      <3>1. vault' = vault \/ vault' = job.snapshot.target
        BY <1>10 DEF WriteVault
      <3>2. UNCHANGED <<tmp, faults>> \/ WriteGoes("vault") \/ WriteFails("vault")
        BY <1>10 DEF WriteVault
      <3> QED BY <1>1, <3>1, <3>2, WriteType DEF TypeOK, SnapshotBinding
    <2>2. Typed
      BY <1>4, <1>10 DEF WriteVault, JobSteps
    <2> QED BY <1>10, <2>1, <2>2 DEF WriteVault, HandlerStep, TypeOK, BootRefs, Ops
  <1>11. CASE MarkCommitted
    <2>1. Typed
      BY <1>3, <1>5, <1>11, ContinueType DEF MarkCommitted
    <2> QED BY <1>8, <1>11, <2>1, TransitionStepType DEF MarkCommitted
  <1>12. CASE RevertCommit
    BY <1>3, <1>8, <1>12, TransitionStepType DEF RevertCommit
  <1>13. CASE ClassifyCommit
    <2> DEFINE o == journal[job.op]
               phase == RecoveredPhase(o.phase, o.snapshot, vault)
    <2>1. phase \in OperationPhase
      BY PhaseTypes
    <2>2. Typed
      BY <1>3, <1>5, <1>13, ContinueType DEF ClassifyCommit
    <2>3. TransitionGoes(job.op, phase) \/ TransitionFails(job.op, phase)
      BY <1>13 DEF ClassifyCommit
    <2>4. UNCHANGED <<lease, vault, mlease>> /\ HandlerStep
      BY <1>13 DEF ClassifyCommit
    <2> HIDE DEF phase
    <2> QED BY <2>1, <2>2, <2>3, <2>4, TransitionStepType
  <1>14. CASE MarkRemovalPending
    <2>1. Typed
      BY <1>1, <1>3, <1>14, ReturnType DEF MarkRemovalPending
    <2> QED BY <1>8, <1>14, <2>1, TransitionStepType DEF MarkRemovalPending
  <1>15. CASE Finish
    <2>1. Typed
      BY <1>3, <1>4, <1>15 DEF Finish, JobSteps
    <2> QED BY <1>1, <1>15, <2>1, TransitionStepType DEF Finish
  <1>16. CASE DeleteVault
    <2>1. vault' \in VaultObject
      BY <1>16, ConstantTypes DEF DeleteVault, TypeOK
    <2>2. faults' \in Nat
      BY <1>16 DEF DeleteVault, IOError, TypeOK
    <2>3. Typed
      BY <1>3, <1>4, <1>16 DEF DeleteVault, JobSteps
    <2> QED BY <1>16, <2>1, <2>2, <2>3 DEF DeleteVault, HandlerStep, TypeOK, BootRefs, Ops
  <1>17. CASE PersistLease
    <2>1. lease' \in LeaseMetadata /\ tmp' \in SUBSET Files /\ faults' \in Nat
      BY <1>1, <1>17, LeaseWriteType DEF PersistLease
    <2>2. proto' \in {0, 6, 7}
      BY <1>17 DEF PersistLease, TypeOK
    <2>3. Typed
      <3>1. ASSUME NEW step \in JobSteps, job' = [job EXCEPT !.at = step],
                   pending' = job.ok, out' = NoMessage
            PROVE  Typed
        BY <1>1, <1>2, <3>1, ConstantTypes
      <3>2. CASE Return(job.ok, job.reply)
        BY <1>1, <3>2, ReturnType
      <3>3. CASE Fail(job.err)
        BY <1>1, <3>3, FailType
      <3> QED BY <1>17, <3>1, <3>2, <3>3 DEF PersistLease, JobSteps
    <2> QED BY <1>1, <1>17, <2>1, <2>2, <2>3 DEF PersistLease, TypeOK, BootRefs, Ops
  <1>18. CASE RecordAudit
    <2>1. Typed
      BY <1>1, <1>3, <1>18, ReturnType DEF RecordAudit
    <2>2. faults' \in Nat
      BY <1>18 DEF RecordAudit, IOError, TypeOK
    <2> QED BY <1>18, <2>1, <2>2 DEF RecordAudit, HandlerStep, disk, TypeOK, BootRefs, Ops
  <1>19. ASSUME NEW n \in Ops, CloseUnresolved(n)
         PROVE  TypeOK' /\ BootRefs'
    <2>1. ClosePhase(n) \in OperationPhase
      BY <1>8, PhaseTypes DEF ClosePhase
    <2>2. Typed
      BY <1>3, <1>4, <1>19 DEF CloseUnresolved, JobSteps
    <2> QED BY <1>19, <2>1, <2>2, TransitionStepType DEF CloseUnresolved
  <1> QED
    BY <1>6, <1>7, <1>9, <1>10, <1>11, <1>12, <1>13, <1>14, <1>15, <1>16, <1>17, <1>18, <1>19
    DEF Write

\* TypeOK with BootRefs is inductive.
LEMMA TypeStep ==
    ASSUME TypeOK, BootRefs, [Next]_vars
    PROVE  TypeOK' /\ BootRefs'
  <1>1. CASE UNCHANGED vars
    BY <1>1 DEF vars, disk, memory, TypeOK, BootRefs, Ops
  <1> QED BY <1>1, ProcessType, HandleType, WriteStepType DEF Next

\* Every state of the host's group is well typed (TypeOK), in every execution.
THEOREM TypeCorrect == Spec => []TypeOK
  <1>1. Spec => [](TypeOK /\ BootRefs)
    BY InitType, TypeStep, PTL DEF Spec
  <1> QED BY <1>1, PTL

-----------------------------------------------------------------------------
(* The journal.  Every step leaves it alone, moves one record along the    *)
(* phase graph, binds a snapshot where there was none, or appends the      *)
(* record of the request that is being begun.                              *)

Moved(n, phase) ==
    /\ phase \in Successors(journal[n].phase)
    /\ journal' = [journal EXCEPT ![n].phase = phase]

Bound(n, binding) ==
    /\ journal[n].snapshot = NoSnapshot
    /\ journal' = [journal EXCEPT ![n].snapshot = binding]

Appended == Begin /\ journal' = Append(journal, job.new)

JournalStep ==
    \/ journal' = journal
    \/ \E n \in Ops, phase \in OperationPhase : Moved(n, phase)
    \/ \E n \in Ops, binding \in SnapshotBinding : Bound(n, binding)
    \/ Appended

\* A transition that the journal accepts moves one record along can_transition_to.
LEMMA TransitionIsStep ==
    ASSUME TypeOK, NEW n, NEW phase \in OperationPhase,
           TransitionGoes(n, phase) \/ TransitionFails(n, phase)
    PROVE  JournalStep
  <1>1. CASE journal' = journal
    BY <1>1 DEF JournalStep
  <1>2. CASE /\ phase \in Successors(journal[n].phase)
             /\ journal' = [journal EXCEPT ![n].phase = phase]
    <2>1. CASE n \in Ops
      BY <1>2, <2>1 DEF JournalStep, Moved
    <2>2. CASE n \notin Ops
      <3>1. journal' = journal
        BY <1>2, <2>2, JournalExcept DEF TypeOK
      <3> QED BY <3>1 DEF JournalStep
    <2> QED BY <2>1, <2>2
  <1> QED
    BY <1>1, <1>2 DEF TransitionGoes, TransitionFails, JournalWriteGoes, JournalWriteFails

\* Every step either leaves the journal, appends a record or makes one transition.
LEMMA JournalSteps ==
    ASSUME TypeOK, [Next]_vars
    PROVE  JournalStep
  <1>1. {"DurabilityUnknown", "Committed", "NotCommitted", "BrowserRemovalPending", "Aborted",
         "ReconciliationRequired"} \subseteq OperationPhase
    BY DEF OperationPhase, PreCommit, Durable, Terminal
  <1>2. ASSUME journal' = journal PROVE JournalStep
    BY <1>2 DEF JournalStep
  <1>3. CASE UNCHANGED vars
    BY <1>2, <1>3 DEF vars, disk
  <1>4. CASE Crash
    BY <1>2, <1>4 DEF Crash
  <1>5. CASE Process
    <2>1. ASSUME NEW n \in Ops, Recover(n) \/ RecoverFails(n) PROVE JournalStep
      <3>1. StartupPhase(n) \in OperationPhase
        BY <1>1, PhaseTypes DEF StartupPhase
      <3> QED BY <2>1, <3>1, TransitionIsStep DEF Recover, RecoverFails
    <2>2. CASE Launch \/ Load \/ LoadFails \/ Recovered \/ Repair \/ RepairFails
      BY <1>2, <2>2 DEF Launch, Load, LoadFails, Recovered, Repair, RepairFails, disk
    <2> QED BY <1>5, <2>1, <2>2 DEF Process
  <1>6. CASE Handle
    <2>1. ASSUME HandlerKeeps \/ LeaseAllowed PROVE JournalStep
      BY <1>2, <2>1 DEF HandlerKeeps, LeaseAllowed, disk
    <2>2. CASE Handshake6 \/ Handshake7 \/ InjectFailed
      BY <1>2, <2>2 DEF Handshake6, Handshake7, InjectFailed, disk
    <2>3. CASE \/ GrantEnrollment7 \/ BeginEnrollment6 \/ BeginInject
               \/ SessionInvalidate \/ RemovePrepare7
      BY <2>1, <2>3
      DEF GrantEnrollment7, BeginEnrollment6, BeginInject, SessionInvalidate, RemovePrepare7
    <2>4. ASSUME NEW n, NEW reason, EvictBegin6(n, reason) PROVE JournalStep
      BY <2>1, <2>4 DEF EvictBegin6
    <2>5. ASSUME NEW a, NEW kind, OperationBegin7(a, kind) PROVE JournalStep
      BY <2>1, <2>5 DEF OperationBegin7
    <2>6. ASSUME NEW n, OperationReplay7(n) \/ OperationStatus7(n) PROVE JournalStep
      BY <2>1, <2>6 DEF OperationReplay7, OperationStatus7
    <2>7. ASSUME NEW S, Snapshot(S) \/ RemovalSnapshot7(S) PROVE JournalStep
      BY <2>1, <2>7 DEF Snapshot, RemovalSnapshot7
    <2>8. ASSUME NEW success, NEW remaining, EvictResult(success, remaining) PROVE JournalStep
      BY <2>1, <2>8 DEF EvictResult
    <2> QED BY <1>6, <2>2, <2>3, <2>4, <2>5, <2>6, <2>7, <2>8 DEF Handle
  <1>7. CASE Write
    <2>1. CASE Begin
      BY <2>1 DEF Begin, JournalStep, Appended, JournalWriteGoes, JournalWriteFails
    <2>2. CASE BindSnapshot
      <3>1. job.snapshot \in SnapshotBinding
        BY DEF TypeOK, Job
      <3>2. CASE journal' = journal
        BY <1>2, <3>2
      <3>3. CASE /\ journal[job.op].snapshot = NoSnapshot
                 /\ journal' = [journal EXCEPT ![job.op].snapshot = job.snapshot]
        <4>1. CASE job.op \in Ops
          BY <3>1, <3>3, <4>1 DEF JournalStep, Bound
        <4>2. CASE job.op \notin Ops
          BY <1>2, <3>1, <3>3, <4>2, JournalExcept DEF TypeOK
        <4> QED BY <4>1, <4>2
      <3> QED BY <2>2, <3>2, <3>3 DEF BindSnapshot, JournalWriteGoes, JournalWriteFails
    <2>3. CASE MarkUnknown \/ MarkCommitted \/ RevertCommit \/ MarkRemovalPending
      BY <1>1, <2>3, TransitionIsStep
      DEF MarkUnknown, MarkCommitted, RevertCommit, MarkRemovalPending
    <2>4. CASE ClassifyCommit
      BY <2>4, PhaseTypes, TransitionIsStep DEF ClassifyCommit
    <2>5. CASE Finish
      <3>1. job.phase \in OperationPhase
        BY DEF TypeOK, Job
      <3> QED BY <2>5, <3>1, TransitionIsStep DEF Finish
    <2>6. CASE WriteVault \/ DeleteVault \/ PersistLease \/ RecordAudit
      BY <1>2, <2>6 DEF WriteVault, DeleteVault, PersistLease, RecordAudit, disk
    <2>7. ASSUME NEW n \in Ops, CloseUnresolved(n) PROVE JournalStep
      <3>1. ClosePhase(n) \in OperationPhase
        BY <1>1, PhaseTypes DEF ClosePhase
      <3> QED BY <2>7, <3>1, TransitionIsStep DEF CloseUnresolved
    <2> QED BY <1>7, <2>1, <2>2, <2>3, <2>4, <2>5, <2>6, <2>7 DEF Write
  <1> QED BY <1>3, <1>4, <1>5, <1>6, <1>7 DEF Next

\* What a journal step does to each record.
RecordForward(o, p) ==
    /\ SameRequest(o, p)
    /\ p.phase = o.phase \/ p.phase \in Successors(o.phase)
    /\ p.snapshot = o.snapshot \/ o.snapshot = NoSnapshot

\* Every step keeps the identity of each record and moves its phase forward.
LEMMA StepForward ==
    ASSUME TypeOK, JournalStep
    PROVE  /\ Ops \subseteq Ops'
           /\ \A n \in Ops : RecordForward(journal[n], journal'[n])
           /\ Ops' = Ops \/ (Appended /\ Ops' = Ops \cup {Len(journal) + 1}
                                      /\ journal'[Len(journal) + 1] = job.new)
  <1>1. CASE journal' = journal
    BY <1>1 DEF RecordForward, SameRequest, Ops
  <1>2. ASSUME NEW n \in Ops, NEW phase \in OperationPhase, Moved(n, phase)
        PROVE  /\ Ops' = Ops
               /\ \A m \in Ops : RecordForward(journal[m], journal'[m])
    <2>1. Len(journal') = Len(journal)
      BY <1>2, JournalExcept DEF Moved, TypeOK
    <2>2. \A m \in Ops : journal[m] \in Operation /\ m \in DOMAIN journal
      BY OpsTyped DEF TypeOK, Ops
    <2>3. \A m \in Ops : journal'[m] = IF m = n THEN [journal[n] EXCEPT !.phase = phase]
                                       ELSE journal[m]
      BY <1>2, <2>2 DEF Moved
    <2>4. RecordForward(journal[n], [journal[n] EXCEPT !.phase = phase])
      BY <1>2, <2>2 DEF Moved, RecordForward, SameRequest, Operation
    <2> QED BY <2>1, <2>3, <2>4 DEF RecordForward, SameRequest, Ops
  <1>3. ASSUME NEW n \in Ops, NEW binding \in SnapshotBinding, Bound(n, binding)
        PROVE  /\ Ops' = Ops
               /\ \A m \in Ops : RecordForward(journal[m], journal'[m])
    <2>1. Len(journal') = Len(journal)
      BY <1>3, JournalExcept DEF Bound, TypeOK
    <2>2. \A m \in Ops : journal[m] \in Operation /\ m \in DOMAIN journal
      BY OpsTyped DEF TypeOK, Ops
    <2>3. \A m \in Ops : journal'[m] = IF m = n THEN [journal[n] EXCEPT !.snapshot = binding]
                                       ELSE journal[m]
      BY <1>3, <2>2 DEF Bound
    <2>4. RecordForward(journal[n], [journal[n] EXCEPT !.snapshot = binding])
      BY <1>3, <2>2 DEF Bound, RecordForward, SameRequest, Operation
    <2> QED BY <2>1, <2>3, <2>4 DEF RecordForward, SameRequest, Ops
  <1>4. CASE Appended
    <2>1. job.new \in Operation /\ journal \in Seq(Operation) /\ Len(journal) \in Nat
      BY OpsTyped DEF TypeOK, Job
    <2>2. /\ Len(journal') = Len(journal) + 1
          /\ \A i \in 1 .. Len(journal) : journal'[i] = journal[i]
          /\ journal'[Len(journal) + 1] = job.new
      BY <1>4, <2>1, AppendProperties DEF Appended
    <2>3. Ops' = Ops \cup {Len(journal) + 1}
      BY <2>1, <2>2 DEF Ops
    <2>4. \A n \in Ops : RecordForward(journal[n], journal'[n])
      BY <2>2 DEF Ops, RecordForward, SameRequest
    <2> QED BY <1>4, <2>2, <2>3, <2>4
  <1> QED BY <1>1, <1>2, <1>3, <1>4 DEF JournalStep

\* The journal only moves forward (JournalForward): requests are immutable, a
\* bound snapshot is never replaced, phases follow can_transition_to.
THEOREM JournalMovesForward == Spec => JournalForward
  <1>1. ASSUME TypeOK, [Next]_vars
        PROVE  \A n \in Ops : n \in Ops' /\ RecordForward(journal[n], journal'[n])
    BY <1>1, JournalSteps, StepForward
  <1>2. TypeOK /\ [Next]_vars =>
          [\A n \in Ops :
              /\ n \in Ops'
              /\ LET o == journal[n]
                     p == journal'[n]
                 IN  /\ SameRequest(o, p)
                     /\ p.phase = o.phase \/ p.phase \in Successors(o.phase)
                     /\ p.snapshot = o.snapshot \/ o.snapshot = NoSnapshot]_journal
    BY <1>1 DEF RecordForward
  <1> QED BY <1>2, TypeCorrect, PTL DEF Spec, JournalForward

-----------------------------------------------------------------------------
(* At most one operation is unresolved, and an attempt id names one        *)
(* operation.  Both need to know that a request which was admitted is      *)
(* still admissible when its record is written, a durable write or more    *)
(* later: BeginReady.                                                      *)

BeginReady ==
    /\ job.at = "begin" => Unresolved = {}
    /\ job.at \in {"begin", "close"} =>
          job.new.attempt = NoAttempt \/ NewAttempt(job.new.attempt)

\* The empty job stands at idle.
LEMMA NoJobIdle == NoJob.at = "idle"
  BY DEF NoJob

\* Without an append nothing becomes unresolved and no attempt id is taken.
LEMMA Shrinks ==
    ASSUME TypeOK, JournalStep, ~Appended
    PROVE  /\ Unresolved' \subseteq Unresolved
           /\ \A a : NewAttempt(a) => NewAttempt(a)'
  <1>1. Ops' = Ops /\ \A n \in Ops : RecordForward(journal[n], journal'[n])
    BY StepForward
  <1>2. \A phase \in Terminal : Successors(phase) = {}
    BY DEF Terminal, Successors
  <1>3. \A n \in Ops : journal[n].phase \in Terminal => journal'[n].phase \in Terminal
    BY <1>1, <1>2 DEF RecordForward, SameRequest
  <1>4. \A n \in Ops : journal'[n].attempt = journal[n].attempt
    BY <1>1 DEF RecordForward, SameRequest
  <1> QED BY <1>1, <1>3, <1>4 DEF Unresolved, NewAttempt

\* What a step makes of the running handler, as far as BeginReady is concerned.
JobStep ==
    \/ job' = job
    \/ job'.at \notin {"begin", "close"}
    \/ /\ job.at = "close" /\ job'.new = job.new
       /\ job'.at = "begin" => Unresolved' = {}
    \/ /\ journal' = journal
       /\ job'.at = "begin" => Unresolved = {}
       /\ job'.new.attempt = NoAttempt \/ NewAttempt(job'.new.attempt)

\* A handler appends to the journal only through the begin job.
LEMMA HandlerSteps ==
    ASSUME TypeOK, [Next]_vars
    PROVE  JobStep
  <1>1. ASSUME job' = job PROVE JobStep
    BY <1>1 DEF JobStep
  <1>2. ASSUME NEW pend, NEW message, Return(pend, message) PROVE JobStep
    BY <1>2, NoJobIdle DEF Return, JobStep
  <1>3. ASSUME NEW pend, Fail(pend) PROVE JobStep
    BY <1>2, <1>3 DEF Fail
  <1>4. ASSUME NEW next, NEW ok, NEW err, NEW reply
        PROVE  /\ LeaseJob(next, ok, err, reply).at = "lease"
               /\ \A at, op, phase :
                    [LeaseJob(next, ok, err, reply)
                     EXCEPT !.at = at, !.op = op, !.phase = phase].at = at
               /\ \A at : [LeaseJob(next, ok, err, reply) EXCEPT !.at = at].at = at
               /\ \A op : [LeaseJob(next, ok, err, reply) EXCEPT !.op = op].at = "lease"
    BY DEF LeaseJob, NoJob
  <1>5. ASSUME NEW next, NEW ok, NEW err, NEW reply, Continue(LeaseJob(next, ok, err, reply))
        PROVE  JobStep
    BY <1>4, <1>5 DEF Continue, JobStep
  <1>6. ASSUME NEW step \in JobSteps \ {"begin", "close"}, job' = [job EXCEPT !.at = step]
        PROVE  JobStep
    BY <1>6 DEF TypeOK, Job, JobStep
  <1>7. ASSUME NEW step \in JobSteps \ {"begin", "close"}, Continue([job EXCEPT !.at = step])
        PROVE  JobStep
    BY <1>6, <1>7 DEF Continue
  <1>8. CASE UNCHANGED vars
    BY <1>1, <1>8 DEF vars, memory
  <1>9. CASE Crash
    BY <1>3, <1>9 DEF Crash
  <1>10. CASE Process
    <2>1. ASSUME OpenFails PROVE JobStep
      BY <1>3, <2>1 DEF OpenFails
    <2>2. CASE Launch \/ Load \/ Recovered \/ Repair
      BY <1>1, <2>2 DEF Launch, Load, Recovered, Repair
    <2>3. CASE LoadFails \/ RepairFails
      BY <2>1, <2>3 DEF LoadFails, RepairFails
    <2>4. ASSUME NEW n \in Ops, Recover(n) PROVE JobStep
      BY <1>1, <2>4 DEF Recover
    <2>5. ASSUME NEW n \in Ops, RecoverFails(n) PROVE JobStep
      BY <2>1, <2>5 DEF RecoverFails
    <2> QED BY <1>10, <2>2, <2>3, <2>4, <2>5 DEF Process
  <1>11. CASE Handle
    <2>1. CASE Handshake6
      BY <1>2, <2>1 DEF Handshake6
    <2>2. CASE Handshake7
      BY <1>2, <1>5, <2>2 DEF Handshake7
    <2>3. CASE GrantEnrollment7 \/ BeginInject
      BY <1>5, <2>3 DEF GrantEnrollment7, BeginInject
    <2>4. CASE InjectFailed
      BY <1>2, <1>5, <2>4 DEF InjectFailed
    <2>5. CASE SessionInvalidate
      BY <1>4, <2>5 DEF SessionInvalidate, Continue, JobStep
    <2>6. CASE RemovePrepare7
      BY <1>2, <2>6 DEF RemovePrepare7
    <2>8. CASE BeginEnrollment6
      <3>1. journal' = journal /\ Unresolved = {}
        BY <2>8 DEF BeginEnrollment6, LeaseAllowed, NothingPending, has_unresolved, disk
      <3>2. job'.new.attempt = NoAttempt
        BY <2>8 DEF BeginEnrollment6, Continue, BeginJob, NoJob
      <3> QED BY <3>1, <3>2 DEF JobStep
    <2>9. ASSUME NEW n, NEW reason, EvictBegin6(n, reason) PROVE JobStep
      <3>1. journal' = journal
        BY <2>9 DEF EvictBegin6, HandlerKeeps, disk
      <3>2. job'.new.attempt = NoAttempt
        BY <2>9 DEF EvictBegin6, Continue, BeginJob, NoJob
      <3>3. job'.at = IF has_unresolved THEN "close" ELSE "begin"
        BY <2>9 DEF EvictBegin6, Continue, BeginJob, NoJob
      <3> QED BY <3>1, <3>2, <3>3 DEF JobStep, has_unresolved
    <2>10. ASSUME NEW a, NEW kind, OperationBegin7(a, kind) PROVE JobStep
      <3>1. journal' = journal /\ Unresolved = {} /\ NewAttempt(a)
        BY <2>10 DEF OperationBegin7, NothingPending, has_unresolved, HandlerKeeps, disk
      <3>2. job'.new.attempt = a
        BY <2>10 DEF OperationBegin7, Continue, BeginJob, NoJob
      <3> QED BY <3>1, <3>2 DEF JobStep
    <2>11. ASSUME NEW n, OperationReplay7(n) \/ OperationStatus7(n) PROVE JobStep
      BY <1>2, <2>11 DEF OperationReplay7, OperationStatus7
    <2>12. ASSUME NEW S, Snapshot(S) PROVE JobStep
      <3>1. CASE job'.at \in {"finish", "bind"}
        BY <3>1 DEF JobStep
      <3>2. CASE Fail([pending EXCEPT !.full = TRUE])
        BY <1>3, <3>2
      <3> QED BY <2>12, <3>1, <3>2 DEF Snapshot, SnapshotTaken, LeaseJob, NoJob
    <2>13. ASSUME NEW S, RemovalSnapshot7(S) PROVE JobStep
      <3>1. CASE job'.at = "finish"
        BY <3>1 DEF JobStep
      <3>2. CASE Fail([pending EXCEPT !.full = TRUE])
        BY <1>3, <3>2
      <3>3. CASE Return([pending EXCEPT !.full = TRUE], Msg("Authorized", pending.op, TRUE))
        BY <1>2, <3>3
      <3> QED BY <2>13, <3>1, <3>2, <3>3 DEF RemovalSnapshot7, SnapshotTaken, LeaseJob, NoJob
    <2>14. ASSUME NEW success, NEW remaining, EvictResult(success, remaining) PROVE JobStep
      BY <1>4, <2>14 DEF EvictResult, JobStep
    <2> QED
      BY <1>11, <2>1, <2>2, <2>3, <2>4, <2>5, <2>6, <2>8, <2>9, <2>10, <2>11, <2>12, <2>13,
         <2>14
      DEF Handle
  <1>12. CASE Write
    <2>1. CASE Begin \/ BindSnapshot \/ MarkUnknown \/ WriteVault \/ Finish \/ DeleteVault
      BY <1>3, <1>7, <2>1
      DEF Begin, BindSnapshot, MarkUnknown, WriteVault, Finish, DeleteVault, JobSteps
    <2>2. ASSUME Continue(CommittedJob) PROVE JobStep
      BY <2>2 DEF Continue, CommittedJob, LeaseJob, NoJob, JobStep
    <2>3. CASE MarkCommitted \/ RevertCommit \/ ClassifyCommit
      BY <1>3, <2>2, <2>3 DEF MarkCommitted, RevertCommit, ClassifyCommit
    <2>4. CASE MarkRemovalPending \/ RecordAudit
      BY <1>2, <1>3, <2>4 DEF MarkRemovalPending, RecordAudit
    <2>5. CASE PersistLease
      BY <1>2, <1>3, <1>6, <2>5 DEF PersistLease, JobSteps
    <2>6. ASSUME NEW n \in Ops, CloseUnresolved(n) PROVE JobStep
      <3>1. CASE Fail(pending)
        BY <1>3, <3>1
      <3>2. CASE Continue([job EXCEPT !.at = IF Unresolved' = {} THEN "begin" ELSE "close"])
        <4>1. job'.new = job.new /\ (job'.at = "begin" => Unresolved' = {})
          BY <3>2 DEF Continue, TypeOK, Job
        <4> QED BY <2>6, <4>1 DEF JobStep, CloseUnresolved
      <3> QED BY <2>6, <3>1, <3>2 DEF CloseUnresolved
    <2> QED BY <1>12, <2>1, <2>3, <2>4, <2>5, <2>6 DEF Write
  <1> QED BY <1>8, <1>9, <1>10, <1>11, <1>12 DEF Next

\* A begin job keeps the facts that its guards established until its write.
LEMMA BeginReadyStep ==
    ASSUME TypeOK, BeginReady, [Next]_vars
    PROVE  BeginReady'
  <1>1. JournalStep /\ JobStep
    BY JournalSteps, HandlerSteps
  <1>2. CASE Appended
    <2>1. job'.at \notin {"begin", "close"}
      BY <1>2, NoJobIdle DEF Appended, Begin, Continue, Fail, Return, TypeOK, Job
    <2> QED BY <2>1 DEF BeginReady
  <1>3. CASE ~Appended
    <2>1. /\ Unresolved' \subseteq Unresolved
          /\ \A a : NewAttempt(a) => NewAttempt(a)'
      BY <1>1, <1>3, Shrinks
    <2>2. CASE job' = job
      BY <2>1, <2>2 DEF BeginReady
    <2>3. CASE job'.at \notin {"begin", "close"}
      BY <2>3 DEF BeginReady
    <2>4. CASE /\ job.at = "close" /\ job'.new = job.new
               /\ job'.at = "begin" => Unresolved' = {}
      BY <2>1, <2>4 DEF BeginReady
    <2>5. CASE /\ journal' = journal
               /\ job'.at = "begin" => Unresolved = {}
               /\ job'.new.attempt = NoAttempt \/ NewAttempt(job'.new.attempt)
      BY <2>1, <2>5 DEF BeginReady
    <2> QED BY <1>1, <2>2, <2>3, <2>4, <2>5 DEF JobStep
  <1> QED BY <1>2, <1>3

IInv == TypeOK /\ BootRefs /\ BeginReady /\ AtMostOneUnresolved /\ OneOperationPerAttempt

\* The inductive invariant holds initially.
LEMMA IInvInit == Init => IInv
  <1>1. Init => Ops = {} /\ job.at = "idle"
    BY NoJobIdle DEF Init, Ops
  <1> QED BY <1>1, InitType DEF IInv, BeginReady, AtMostOneUnresolved, OneOperationPerAttempt,
                               Unresolved

\* The inductive invariant is kept by every step.
LEMMA IInvStep == IInv /\ [Next]_vars => IInv'
  <1> SUFFICES ASSUME IInv, [Next]_vars PROVE IInv'
    OBVIOUS
  <1> USE DEF IInv
  <1>1. TypeOK' /\ BootRefs' /\ BeginReady'
    BY TypeStep, BeginReadyStep
  <1>2. JournalStep
    BY JournalSteps
  <1>3. CASE ~Appended
    <2>1. AtMostOneUnresolved'
      BY <1>2, <1>3, Shrinks DEF AtMostOneUnresolved
    <2>2. Ops' = Ops /\ \A n \in Ops : journal'[n].attempt = journal[n].attempt
      BY <1>2, <1>3, StepForward DEF RecordForward, SameRequest
    <2>3. OneOperationPerAttempt'
      BY <2>2 DEF OneOperationPerAttempt
    <2> QED BY <1>1, <2>1, <2>3
  <1>4. CASE Appended
    <2> DEFINE new == Len(journal) + 1
    <2>1. /\ Ops' \subseteq Ops \cup {new}
          /\ \A n \in Ops : RecordForward(journal[n], journal'[n])
          /\ new \in Ops' => (journal'[new] = job.new \/ new \in Ops)
      BY <1>2, StepForward
    <2>2. new \notin Ops
      BY OpsTyped DEF Ops
    <2>3. /\ Unresolved = {}
          /\ job.new.attempt = NoAttempt \/ NewAttempt(job.new.attempt)
      BY <1>4 DEF Appended, Begin, BeginReady
    <2> HIDE DEF new
    <2>4. AtMostOneUnresolved'
      <3>1. \A phase \in Terminal : Successors(phase) = {}
        BY DEF Terminal, Successors
      <3>2. \A n \in Ops : journal'[n].phase \in Terminal
        BY <2>1, <2>3, <3>1 DEF Unresolved, RecordForward, SameRequest
      <3>3. Unresolved' \subseteq {new}
        BY <2>1, <3>2 DEF Unresolved
      <3> QED BY <3>3 DEF AtMostOneUnresolved
    <2>5. OneOperationPerAttempt'
      <3>1. \A n \in Ops : journal'[n].attempt = journal[n].attempt
        BY <2>1 DEF RecordForward, SameRequest
      <3>2. new \in Ops' => \A n \in Ops : \/ journal'[new].attempt = NoAttempt
                                           \/ journal'[n].attempt # journal'[new].attempt
        BY <2>1, <2>2, <2>3, <3>1 DEF NewAttempt
      <3> QED BY <2>1, <3>1, <3>2 DEF OneOperationPerAttempt
    <2> QED BY <1>1, <2>4, <2>5
  <1> QED BY <1>3, <1>4

\* At most one operation of a group is unresolved (AtMostOneUnresolved), however
\* writes fail and the process dies and restarts.
THEOREM OneUnresolved == Spec => []AtMostOneUnresolved
  <1>1. Spec => []IInv
    BY IInvInit, IInvStep, PTL DEF Spec
  <1>2. IInv => AtMostOneUnresolved
    BY DEF IInv
  <1> QED BY <1>1, <1>2, PTL

\* An attempt id of the extension names at most one operation
\* (OneOperationPerAttempt), for every number of repetitions of operation.begin.
THEOREM AttemptsIdempotent == Spec => []OneOperationPerAttempt
  <1>1. Spec => []IInv
    BY IInvInit, IInvStep, PTL DEF Spec
  <1>2. IInv => OneOperationPerAttempt
    BY DEF IInv
  <1> QED BY <1>1, <1>2, PTL

-----------------------------------------------------------------------------
(* The vault and the journal.  An operation whose binding is recorded and  *)
(* whose commit is not decided is Undecided.  The argument is that the     *)
(* handler that bound it keeps it in memory, marked as full, so that       *)
(* nothing else writes or deletes the vault before startup recovery or the *)
(* commit itself has decided it.                                           *)

Undecided == {n \in Ops : journal[n].phase \in PreCommit /\ journal[n].snapshot # NoSnapshot}

Committing == {"unknown", "vault", "commit", "revert", "classify"}

\* A process that is not up runs no handler.
RestInv == host # "up" => job = NoJob /\ pending = NoPending /\ out = NoMessage

\* startup_recover decides every operation before the group is served.
StartInv ==
    /\ host = "recovering" =>
          \A n \in Unresolved : n \in boot.todo \/ journal[n].phase \in Durable
    /\ host = "repairing" => \A n \in Unresolved : journal[n].phase \in Durable

\* What the memory holds while an operation is undecided.
Guarded(n) ==
    /\ pending.op = n /\ pending.full = TRUE /\ pending.confirmed = FALSE
    /\ job.at \in Committing \cup {"idle", "lease"}
    /\ job.at = "lease" =>
          /\ job.ok = pending /\ job.err = pending
          /\ job.reply.type \in {"HandshakeAck", "InjectResultHandled"}

UndecidedInv ==
    \A n \in Undecided :
        /\ vault \in {journal[n].snapshot.previous, journal[n].snapshot.target}
        /\ journal[n].snapshot.target # NoVault
        /\ host = "up" => Guarded(n)

\* What the steps of commit_snapshot may assume.
CommitInv ==
    /\ job.at = "bind" =>
          /\ job.snapshot.previous = vault /\ job.op \in Ops
          /\ pending.op = job.op /\ pending.full = TRUE /\ pending.confirmed = FALSE
    /\ job.at \in Committing => job.op \in Undecided /\ journal[job.op].snapshot = job.snapshot
    /\ job.at \in Committing \cup {"bind"} =>
          /\ job.snapshot.target # NoVault
          /\ job.snapshot.cookies = {} => job.snapshot.target = job.snapshot.previous
    /\ job.at \in {"commit", "classify"} => vault = job.snapshot.target

\* What the other handlers may assume between their writes.
HandlerInv ==
    /\ job.at \in {"begin", "close"} =>
          /\ pending = NoPending /\ job.err = NoPending /\ job.ok.op = job.op
          /\ job.op \in Ops \cup {Len(journal) + 1}
          /\ job.new.snapshot = NoSnapshot /\ job.new.phase = "NotCommitted"
          /\ job.op \in Ops => job.new.attempt = NoAttempt
    /\ job.at = "delete" => pending = NoPending /\ job.ok = NoPending /\ job.err = NoPending
    /\ job.at = "delete" /\ OrderlyClient => Unresolved = {}
    /\ job.at = "finish" => job.phase \in Terminal
    /\ job.reply.type # "Authorized"

\* The pending operations that memory holds, now or after the lease write.
Refers(p) == p.op \in Ops \cup {0}
RefersInv ==
    /\ Refers(pending)
    /\ job.at \in {"finish", "lease"} => Refers(job.ok) /\ Refers(job.err)

\* The object of a committed operation is in the vault, or was invalidated.
KeptInv == DurableObjectKept /\ (OrderlyClient => DurableObjectInVault)

\* With an orderly client, a removal that memory may authorize is of the object in the vault.
Restorable(p) ==
    /\ p.op \in Ops
    /\ journal[p.op].attempt # NoAttempt /\ journal[p.op].snapshot # NoSnapshot
    /\ journal[p.op].phase \notin PreCommit
    => vault = journal[p.op].snapshot.target

RestoreInv ==
    OrderlyClient =>
       /\ Restorable(pending)
       /\ job.at \in {"finish", "lease"} => Restorable(job.ok) /\ Restorable(job.err)
       /\ out.type = "Authorized" => vault = journal[out.op].snapshot.target

VInv ==
    /\ RestInv /\ StartInv /\ UndecidedInv /\ CommitInv /\ HandlerInv /\ RefersInv
    /\ KeptInv /\ RestoreInv

-----------------------------------------------------------------------------
(* Records of the journal and jobs, as the steps below change them.        *)

\* Only the phase of operation n changed.
PhaseOnly(n, phase) ==
    /\ Ops' = Ops /\ Len(journal') = Len(journal)
    /\ \A m \in Ops \ {n} : journal'[m] = journal[m]
    /\ journal'[n].snapshot = journal[n].snapshot
    /\ journal'[n].attempt = journal[n].attempt
    /\ journal'[n].phase = phase

\* What a transition does to the journal, and when the phase graph allows it.
LEMMA TransitionEffect ==
    ASSUME TypeOK, NEW n \in Ops, NEW phase \in OperationPhase
    PROVE  /\ TransitionGoes(n, phase) =>
                 /\ PhaseOnly(n, phase)
                 /\ journal[n].phase = phase \/ phase \in Successors(journal[n].phase)
           /\ TransitionFails(n, phase) => journal' = journal
  <1>1. ASSUME TransitionFails(n, phase) PROVE journal' = journal
    BY <1>1 DEF TransitionFails, JournalWriteFails
  <1>2. journal[n] \in Operation /\ n \in DOMAIN journal /\ journal \in Seq(Operation)
    BY OpsTyped DEF TypeOK, Ops
  <1>3. CASE journal[n].phase = phase /\ journal' = journal
    BY <1>3 DEF PhaseOnly, Ops
  <1>4. CASE /\ phase \in Successors(journal[n].phase)
             /\ journal' = [journal EXCEPT ![n].phase = phase]
    <2>1. Len(journal') = Len(journal)
      BY <1>2, <1>4, JournalExcept
    <2>2. journal'[n] = [journal[n] EXCEPT !.phase = phase]
      BY <1>2, <1>4
    <2>3. \A m \in Ops \ {n} : journal'[m] = journal[m]
      BY <1>2, <1>4
    <2>4. /\ journal'[n].snapshot = journal[n].snapshot
          /\ journal'[n].attempt = journal[n].attempt
          /\ journal'[n].phase = phase
      BY <1>2, <2>2 DEF Operation
    <2> QED BY <1>1, <1>4, <2>1, <2>3, <2>4 DEF PhaseOnly, Ops
  <1> QED BY <1>1, <1>3, <1>4 DEF TransitionGoes, JournalWriteGoes

\* The fields of a job that ends with a lease write.
LEMMA LeaseJobFields ==
    ASSUME NEW next, NEW ok, NEW err, NEW reply
    PROVE  /\ LeaseJob(next, ok, err, reply).at = "lease"
           /\ LeaseJob(next, ok, err, reply).ok = ok
           /\ LeaseJob(next, ok, err, reply).err = err
           /\ LeaseJob(next, ok, err, reply).reply = reply
           /\ \A at, op, phase :
                LET j == [LeaseJob(next, ok, err, reply)
                          EXCEPT !.at = at, !.op = op, !.phase = phase]
                IN  /\ j.at = at /\ j.op = op /\ j.phase = phase
                    /\ j.ok = ok /\ j.err = err /\ j.reply = reply
  BY DEF LeaseJob, NoJob

\* The fields of the empty job, message and pending operation.
LEMMA EmptyFields ==
    /\ NoJob.at = "idle" /\ NoJob.reply = NoMessage /\ NoMessage.type = "None"
    /\ NoPending.op = 0 /\ NoPending.full = FALSE /\ NoPending.confirmed = FALSE
    /\ \A type, n, success : Msg(type, n, success).type = type /\ Msg(type, n, success).op = n
  BY DEF NoJob, NoMessage, NoPending, Msg

\* The next step of the same job.
LEMMA NextStep ==
    ASSUME TypeOK, NEW at, job' = [job EXCEPT !.at = at]
    PROVE  /\ job'.at = at /\ job'.op = job.op /\ job'.phase = job.phase /\ job'.new = job.new
           /\ job'.snapshot = job.snapshot /\ job'.ok = job.ok /\ job'.err = job.err
           /\ job'.reply = job.reply
  BY DEF TypeOK, Job

\* A transition while nothing is undecided, to a terminal phase or within the durable
\* ones, leaves what the vault must hold.
LEMMA DecidedMove ==
    ASSUME NEW n \in Ops, NEW phase, PhaseOnly(n, phase), vault' = vault, Undecided = {},
           \/ phase \in Terminal
           \/ phase \in Durable /\ journal[n].phase \in Durable
    PROVE  /\ Undecided' = {} /\ Unresolved' \subseteq Unresolved
           /\ KeptInv => KeptInv'
           /\ \A p : (Refers(p) => Refers(p)') /\ (Restorable(p) => Restorable(p)')
  <1>1. /\ PreCommit \cap Durable = {} /\ PreCommit \cap Terminal = {} 
        /\ Durable \cap Terminal = {}
    BY DEF PreCommit, Durable, Terminal
  <1>2. /\ Ops' = Ops /\ journal'[n].phase = phase
        /\ \A m \in Ops : /\ journal'[m].snapshot = journal[m].snapshot
                          /\ journal'[m].attempt = journal[m].attempt
                          /\ m # n => journal'[m].phase = journal[m].phase
    BY DEF PhaseOnly
  <1>3. Undecided' = {}
    BY <1>1, <1>2 DEF Undecided
  <1>4. Unresolved' \subseteq Unresolved
    BY <1>1, <1>2 DEF Unresolved
  <1>5. \A m \in Ops : journal'[m].phase \in Durable => journal[m].phase \in Durable
    BY <1>1, <1>2
  <1>6. KeptInv => KeptInv'
    BY <1>2, <1>5 DEF KeptInv, DurableObjectKept, DurableObjectInVault
  <1>7. ASSUME NEW p, Restorable(p) PROVE Restorable(p)'
    <2>1. SUFFICES ASSUME p.op \in Ops, journal[p.op].snapshot # NoSnapshot,
                          journal[p.op].attempt # NoAttempt
                   PROVE  vault = journal[p.op].snapshot.target
      BY <1>2 DEF Restorable
    <2>2. journal[p.op].phase \notin PreCommit
      BY <2>1 DEF Undecided
    <2> QED BY <1>7, <2>1, <2>2 DEF Restorable
  <1>8. \A p : Refers(p) => Refers(p)'
    BY <1>2 DEF Refers
  <1> QED BY <1>3, <1>4, <1>6, <1>7, <1>8

\* What only reads journal and vault is unchanged with them.
LEMMA Frame ==
    ASSUME journal' = journal, vault' = vault
    PROVE  /\ Ops' = Ops /\ Unresolved' = Unresolved /\ Undecided' = Undecided
           /\ KeptInv => KeptInv'
           /\ \A p : (Refers(p) => Refers(p)') /\ (Restorable(p) => Restorable(p)')
  BY DEF Ops, Unresolved, Undecided, KeptInv, DurableObjectKept, DurableObjectInVault, Refers,
         Restorable

\* The process ends: only journal and vault are left.
LEMMA Ended ==
    ASSUME VInv, journal' = journal, vault' = vault, host' = "down", Fail(NoPending)
    PROVE  VInv'
  <1>1. job' = NoJob /\ pending' = NoPending /\ out' = NoMessage
    BY DEF Fail, Return
  <1>2. RestInv' /\ StartInv' /\ CommitInv' /\ HandlerInv'
    BY <1>1, EmptyFields DEF RestInv, StartInv, CommitInv, HandlerInv, Committing
  <1>3. UndecidedInv'
    BY Frame DEF VInv, UndecidedInv
  <1>4. Refers(NoPending)' /\ Restorable(NoPending)'
    <2>1. 0 \notin Ops'
      BY DEF Ops
    <2> QED BY <2>1, EmptyFields DEF Refers, Restorable
  <1>5. RefersInv' /\ RestoreInv'
    BY <1>1, <1>4, EmptyFields DEF RefersInv, RestoreInv
  <1> QED BY <1>2, <1>3, <1>5, Frame DEF VInv

\* The process goes on starting: nothing in memory but the start itself.
LEMMA Opening ==
    ASSUME VInv, journal' = journal, vault' = vault, host # "up", StartInv',
           UNCHANGED <<job, pending, out>>,
           host' = "up" => Undecided = {}
    PROVE  VInv'
  <1>1. job = NoJob /\ pending = NoPending /\ out = NoMessage
    BY DEF VInv, RestInv
  <1>2. RestInv' /\ CommitInv' /\ HandlerInv'
    BY <1>1, EmptyFields DEF RestInv, CommitInv, HandlerInv, Committing
  <1>3. UndecidedInv'
    BY Frame DEF VInv, UndecidedInv
  <1>4. RefersInv' /\ RestoreInv'
    BY <1>1, Frame, EmptyFields DEF RefersInv, RestoreInv, VInv
  <1> QED BY <1>2, <1>3, <1>4, Frame DEF VInv

\* While the process is up, the parts about starting say nothing.
LEMMA Serving ==
    ASSUME host' = "up", UndecidedInv', CommitInv', HandlerInv', RefersInv', KeptInv', RestoreInv'
    PROVE  VInv'
  BY DEF VInv, RestInv, StartInv

-----------------------------------------------------------------------------
(* Process life.                                                           *)

\* What startup_recover moves an operation to.
LEMMA StartupPhases ==
    ASSUME NEW n \in Ops
    PROVE  /\ StartupPhase(n) \in OperationPhase
           /\ StartupPhase(n) \in PreCommit =>
                 StartupPhase(n) = "NotCommitted" /\ n \in Undecided
           /\ StartupPhase(n) \in Durable => vault = journal[n].snapshot.target
  <1>1. "Aborted" \in OperationPhase /\ "Aborted" \notin PreCommit \cup Durable
    BY DEF OperationPhase, Terminal, PreCommit, Durable
  <1> DEFINE r == RecoveredPhase(journal[n].phase, journal[n].snapshot, vault)
  <1>2. /\ r \in OperationPhase
        /\ r \in PreCommit => r = "NotCommitted" /\ journal[n].phase \in PreCommit
        /\ r \in Durable => vault = journal[n].snapshot.target
    BY PhaseTypes DEF RecoveredPhase, ClassifyVault, ClassifyObject, PreCommit, Durable
  <1>3. \/ StartupPhase(n) = r /\ journal[n].snapshot # NoSnapshot
        \/ StartupPhase(n) = "Aborted"
    BY DEF StartupPhase
  <1> HIDE DEF r
  <1> QED BY <1>1, <1>2, <1>3 DEF Undecided

\* Recovering one operation decides it or leaves it on the list.
LEMMA RecoverStep ==
    ASSUME IInv, VInv, NEW n \in Ops, Recover(n)
    PROVE  VInv'
  <1> DEFINE phase == StartupPhase(n)
  <1>1. /\ host = "recovering" /\ host' = host /\ vault' = vault
        /\ job' = job /\ pending' = pending /\ out' = out
        /\ TransitionGoes(n, phase)
        /\ boot' = [boot EXCEPT !.todo = IF phase = "NotCommitted" THEN @ ELSE @ \ {n},
                                !.committed = IF phase \in Durable THEN n ELSE @]
    BY DEF Recover
  <1>2. /\ phase \in OperationPhase
        /\ phase \in PreCommit => phase = "NotCommitted" /\ n \in Undecided
        /\ phase \in Durable => vault = journal[n].snapshot.target
    BY StartupPhases
  <1> HIDE DEF phase
  <1>3. PhaseOnly(n, phase)
    BY <1>1, <1>2, TransitionEffect DEF IInv
  <1>4. /\ Ops' = Ops /\ journal'[n].phase = phase
        /\ \A m \in Ops : /\ journal'[m].snapshot = journal[m].snapshot
                          /\ journal'[m].attempt = journal[m].attempt
                          /\ m # n => journal'[m].phase = journal[m].phase
    BY <1>3 DEF PhaseOnly
  <1>5. job = NoJob /\ pending = NoPending /\ out = NoMessage
    BY <1>1 DEF VInv, RestInv
  <1>6. RestInv' /\ CommitInv' /\ HandlerInv'
    BY <1>1, <1>5, EmptyFields DEF RestInv, CommitInv, HandlerInv, Committing
  <1>7. StartInv'
    <2>1. SUFFICES ASSUME NEW m \in Unresolved'
                   PROVE  m \in boot'.todo \/ journal'[m].phase \in Durable
      BY <1>1 DEF StartInv
    <2>2. boot'.todo = IF phase = "NotCommitted" THEN boot.todo ELSE boot.todo \ {n}
      BY <1>1 DEF IInv, TypeOK, Boot
    <2>3. CASE m = n
      <3>1. phase \in PreCommit \cup Durable
        BY <1>2, <1>4, <2>1, <2>3 DEF Unresolved, OperationPhase
      <3>2. phase = "NotCommitted" => n \in boot.todo
        BY DEF Recover
      <3> QED BY <1>2, <1>4, <2>2, <2>3, <3>1, <3>2
    <2>4. CASE m # n
      <3>1. m \in Unresolved /\ journal'[m].phase = journal[m].phase
        BY <1>4, <2>1, <2>4 DEF Unresolved
      <3> QED BY <1>1, <2>2, <2>4, <3>1 DEF VInv, StartInv
    <2> QED BY <2>3, <2>4
  <1>8. UndecidedInv'
    <2>1. ASSUME NEW m \in Undecided' PROVE m \in Undecided
      <3>1. CASE m = n
        BY <1>2, <1>4, <2>1, <3>1 DEF Undecided
      <3>2. CASE m # n
        BY <1>4, <2>1, <3>2 DEF Undecided
      <3> QED BY <3>1, <3>2
    <2>2. \A m \in Undecided : m \in Ops
      BY DEF Undecided
    <2> QED BY <1>1, <1>4, <2>1, <2>2 DEF VInv, UndecidedInv
  <1>9. KeptInv'
    <2>1. \A m \in Ops : m # n /\ journal'[m].phase \in Durable => journal[m].phase \in Durable
      BY <1>4
    <2> QED BY <1>1, <1>2, <1>4, <2>1 DEF VInv, KeptInv, DurableObjectKept, DurableObjectInVault
  <1>10. RefersInv' /\ RestoreInv'
    <2>1. 0 \notin Ops'
      BY DEF Ops
    <2> QED BY <1>1, <1>5, <2>1, EmptyFields DEF RefersInv, RestoreInv, Refers, Restorable
  <1> QED BY <1>6, <1>7, <1>8, <1>9, <1>10 DEF VInv

\* Crash, restart and the steps of opening a group.
LEMMA ProcessKeeps ==
    ASSUME IInv, VInv, Crash \/ Process
    PROVE  VInv'
  <1>1. CASE Crash
    BY <1>1, Ended DEF Crash
  <1>2. CASE LoadFails \/ RepairFails
    BY <1>2, Ended DEF LoadFails, RepairFails, OpenFails
  <1>3. ASSUME NEW n \in Ops, RecoverFails(n) PROVE VInv'
    <2>1. journal' = journal
      BY <1>3, StartupPhases, TransitionEffect DEF RecoverFails, IInv
    <2> QED BY <1>3, <2>1, Ended DEF RecoverFails, OpenFails
  <1>4. CASE Launch
    BY <1>4, Opening DEF Launch, disk, StartInv
  <1>5. CASE Load
    <2>1. /\ journal' = journal /\ vault' = vault /\ host = "loading" /\ host' = "recovering"
          /\ UNCHANGED <<job, pending, out>> /\ boot'.todo = Unresolved
      BY <1>5 DEF Load
    <2>2. StartInv'
      BY <2>1, Frame DEF StartInv
    <2> QED BY <2>1, <2>2, Opening
  <1>6. CASE Recovered
    <2>1. /\ journal' = journal /\ vault' = vault /\ host = "recovering" /\ host' = "repairing"
          /\ UNCHANGED <<job, pending, out>> /\ boot.todo = {}
      BY <1>6 DEF Recovered, disk
    <2>2. StartInv'
      BY <2>1, Frame DEF VInv, StartInv
    <2> QED BY <2>1, <2>2, Opening
  <1>7. CASE Repair
    <2>1. /\ journal' = journal /\ vault' = vault /\ host = "repairing" /\ host' = "up"
          /\ UNCHANGED <<job, pending, out>>
      BY <1>7 DEF Repair
    <2>2. Undecided = {}
      <3>1. \A n \in Undecided : n \in Unresolved /\ journal[n].phase \notin Durable
        BY DEF Undecided, Unresolved, PreCommit, Terminal, Durable
      <3> QED BY <2>1, <3>1 DEF VInv, StartInv
    <2>3. StartInv'
      BY <2>1 DEF StartInv
    <2> QED BY <2>1, <2>2, <2>3, Opening
  <1> QED BY <1>1, <1>2, <1>3, <1>4, <1>5, <1>6, <1>7, RecoverStep DEF Process

-----------------------------------------------------------------------------
(* Handlers: they start from an idle process and leave journal and vault.  *)

\* A handler that answers without a write.
LEMMA Answered ==
    ASSUME VInv, host' = "up", journal' = journal, vault' = vault,
           NEW pend, NEW message, Return(pend, message), Refers(pend),
           OrderlyClient => Restorable(pend),
           Undecided = {} \/ (pend = pending /\ host = "up"),
           OrderlyClient /\ message.type = "Authorized" => vault = journal[message.op].snapshot.target
    PROVE  VInv'
  <1>1. job' = NoJob /\ pending' = pend /\ out' = message
    BY DEF Return
  <1>2. CommitInv' /\ HandlerInv'
    BY <1>1, EmptyFields DEF CommitInv, HandlerInv, Committing
  <1>3. UndecidedInv'
    BY <1>1, Frame, EmptyFields DEF VInv, UndecidedInv, Guarded
  <1>4. RefersInv' /\ RestoreInv'
    BY <1>1, Frame, EmptyFields DEF RefersInv, RestoreInv
  <1> QED BY <1>2, <1>3, <1>4, Frame, Serving DEF VInv

\* A handler that goes on with a write, while nothing is undecided.
LEMMA Started ==
    ASSUME VInv, host' = "up", journal' = journal, vault' = vault, Undecided = {},
           CommitInv', HandlerInv', out' = NoMessage,
           NEW pend, pending' = pend, Refers(pend), OrderlyClient => Restorable(pend),
           NEW ok, NEW err, job'.ok = ok, job'.err = err,
           job'.at \in {"finish", "lease"} =>
              /\ Refers(ok) /\ Refers(err)
              /\ OrderlyClient => Restorable(ok) /\ Restorable(err)
    PROVE  VInv'
  <1>1. UndecidedInv'
    BY Frame DEF UndecidedInv
  <1>2. RefersInv' /\ RestoreInv'
    BY Frame, EmptyFields DEF RefersInv, RestoreInv
  <1> QED BY <1>1, <1>2, Frame, Serving DEF VInv

\* A handler that goes on with a lease write and keeps the pending operation.
LEMMA Leasing ==
    ASSUME VInv, host' = "up", host = "up", journal' = journal, vault' = vault,
           NEW next, NEW reply, Continue(LeaseJob(next, pending, pending, reply)),
           reply.type \in {"HandshakeAck", "InjectResultHandled"}
    PROVE  VInv'
  <1>1. /\ job'.at = "lease" /\ job'.ok = pending /\ job'.err = pending /\ job'.reply = reply
        /\ pending' = pending /\ out' = NoMessage
    BY LeaseJobFields DEF Continue
  <1>2. CommitInv' /\ HandlerInv'
    BY <1>1 DEF CommitInv, HandlerInv, Committing
  <1>3. UndecidedInv'
    BY <1>1, Frame DEF VInv, UndecidedInv, Guarded
  <1>4. RefersInv' /\ RestoreInv'
    BY <1>1, Frame, EmptyFields DEF RefersInv, RestoreInv, VInv
  <1> QED BY <1>2, <1>3, <1>4, Frame, Serving DEF VInv

\* A pending operation that is not full, or is confirmed, or is none, is not undecided.
LEMMA NothingUndecided ==
    ASSUME IInv, VInv, host = "up",
           \/ pending.full # TRUE \/ pending.confirmed # FALSE \/ pending = NoPending
           \/ Unresolved = {} \/ job.at \notin Committing \cup {"idle", "lease"}
    PROVE  Undecided = {}
  <1>1. \A n \in Undecided : n \in Unresolved /\ n # 0 /\ Guarded(n)
    BY DEF VInv, UndecidedInv, Undecided, Unresolved, Terminal, PreCommit, Ops
  <1> QED BY <1>1, EmptyFields DEF Guarded

\* The empty pending operation refers to nothing.
LEMMA EmptyRefers == Refers(NoPending) /\ Restorable(NoPending)
  BY EmptyFields DEF Refers, Restorable, Ops

\* Handshakes, leases and their failures.
LEMMA LeaseHandlers ==
    ASSUME IInv, VInv,
           \/ Handshake6 \/ Handshake7 \/ GrantEnrollment7 \/ BeginInject \/ InjectFailed
           \/ SessionInvalidate
    PROVE  VInv'
  <1>1. Refers(pending) /\ (OrderlyClient => Restorable(pending))
    BY DEF VInv, RefersInv, RestoreInv
  <1>2. ASSUME NEW type, NEW n, NEW success, type # "Authorized",
               host = "up", host' = "up", journal' = journal, vault' = vault,
               Return(pending, Msg(type, n, success))
        PROVE  VInv'
    BY <1>1, <1>2, Answered, EmptyFields
  <1>3. CASE Handshake6
    BY <1>2, <1>3 DEF Handshake6, Idle, disk
  <1>4. CASE Handshake7
    <2>1. host = "up" /\ host' = "up" /\ journal' = journal /\ vault' = vault
      BY <1>4 DEF Handshake7, Idle, disk
    <2> DEFINE ack == Msg("HandshakeAck", 0, TRUE)
               next == [mlease EXCEPT !.floor = 7, !.hw = Len(journal)]
    <2>2. CASE Continue(LeaseJob(next, pending, pending, ack))
      <3>1. ack.type \in {"HandshakeAck", "InjectResultHandled"}
        BY DEF Msg
      <3> HIDE DEF ack, next
      <3> QED BY <2>1, <2>2, <3>1, Leasing
    <2>3. CASE Return(pending, ack)
      BY <1>2, <2>1, <2>3
    <2> QED BY <1>4, <2>2, <2>3 DEF Handshake7
  <1>5. CASE InjectFailed
    <2>1. host = "up" /\ host' = "up" /\ journal' = journal /\ vault' = vault
      BY <1>5 DEF InjectFailed, Ready, Idle, disk
    <2> DEFINE reply == Msg("InjectResultHandled", 0, FALSE)
               next == [mlease EXCEPT !.state = "Degraded"]
    <2>2. CASE Continue(LeaseJob(next, pending, pending, reply))
      <3>1. reply.type \in {"HandshakeAck", "InjectResultHandled"}
        BY DEF Msg
      <3> HIDE DEF reply, next
      <3> QED BY <2>1, <2>2, <3>1, Leasing
    <2>3. CASE Return(pending, reply)
      BY <1>2, <2>1, <2>3
    <2> QED BY <1>5, <2>2, <2>3 DEF InjectFailed
  <1>6. ASSUME NEW next, NEW type, type # "Authorized", LeaseAllowed,
               Continue(LeaseJob(next, NoPending, NoPending, Msg(type, 0, TRUE)))
        PROVE  VInv'
    <2>1. /\ host = "up" /\ host' = "up" /\ journal' = journal /\ vault' = vault
          /\ Unresolved = {}
      BY <1>6 DEF LeaseAllowed, NothingPending, has_unresolved, Ready, Idle, disk
    <2>2. /\ job'.at = "lease" /\ job'.ok = NoPending /\ job'.err = NoPending
          /\ job'.reply.type = type /\ pending' = pending /\ out' = NoMessage
      BY <1>6 DEF Continue, LeaseJob, NoJob, Msg
    <2>3. CommitInv' /\ HandlerInv'
      BY <1>6, <2>2 DEF CommitInv, HandlerInv, Committing
    <2> QED BY <1>1, <2>1, <2>2, <2>3, NothingUndecided, EmptyRefers, Started
  <1>7. CASE GrantEnrollment7
    BY <1>6, <1>7 DEF GrantEnrollment7
  <1>8. CASE BeginInject
    BY <1>6, <1>8 DEF BeginInject
  <1>9. CASE SessionInvalidate
    <2>1. /\ host = "up" /\ host' = "up" /\ journal' = journal /\ vault' = vault
          /\ pending = NoPending /\ (OrderlyClient => Unresolved = {})
      BY <1>9 DEF SessionInvalidate, Ready, Idle, HandlerKeeps, disk, has_unresolved
    <2>2. /\ job'.at = "delete" /\ job'.ok = NoPending /\ job'.err = NoPending
          /\ job'.reply.type = "Invalidated" /\ pending' = pending /\ out' = NoMessage
      BY <1>9 DEF SessionInvalidate, Continue, LeaseJob, NoJob, Msg
    <2>3. CommitInv' /\ HandlerInv'
      BY <2>1, <2>2, Frame DEF CommitInv, HandlerInv, Committing
    <2> QED BY <1>1, <2>1, <2>2, <2>3, NothingUndecided, EmptyRefers, Started
  <1> QED BY <1>3, <1>4, <1>5, <1>7, <1>8, <1>9

\* Beginning an operation, of either protocol.
LEMMA BeginHandlers ==
    ASSUME IInv, VInv,
           \/ BeginEnrollment6
           \/ \E n \in 1 .. MaxOps, reason \in Reasons : EvictBegin6(n, reason)
           \/ \E a \in Attempts, kind \in OperationKind : OperationBegin7(a, kind)
    PROVE  VInv'
  <1>1. Refers(pending) /\ (OrderlyClient => Restorable(pending))
    BY DEF VInv, RefersInv, RestoreInv
  <1>2. ASSUME host = "up", host' = "up", journal' = journal, vault' = vault,
               pending = NoPending, pending' = pending, out' = NoMessage,
               job'.at \in {"begin", "close"}, job'.op \in Ops \cup {Len(journal) + 1},
               job'.ok.op = job'.op, job'.err = NoPending,
               job'.op \in Ops => job'.new.attempt = NoAttempt,
               job'.new.snapshot = NoSnapshot, job'.new.phase = "NotCommitted",
               job'.reply.type # "Authorized"
        PROVE  VInv'
    <2>1. CommitInv' /\ HandlerInv'
      BY <1>2, Frame DEF CommitInv, HandlerInv, Committing
    <2> QED BY <1>1, <1>2, <2>1, NothingUndecided, Started
  <1>3. Len(journal) + 1 \notin Ops
    BY OpsTyped DEF Ops, IInv
  <1>4. CASE BeginEnrollment6
    <2>1. /\ host = "up" /\ host' = "up" /\ journal' = journal /\ vault' = vault
          /\ pending = NoPending
      BY <1>4 DEF BeginEnrollment6, LeaseAllowed, NothingPending, Ready, Idle, disk
    <2>2. /\ job'.at = "begin" /\ job'.op = Len(journal) + 1 /\ job'.ok.op = job'.op
          /\ job'.err = NoPending /\ job'.new.snapshot = NoSnapshot
          /\ job'.new.phase = "NotCommitted" /\ job'.reply.type = "EnrollGrant"
          /\ pending' = pending /\ out' = NoMessage
      BY <1>4 DEF BeginEnrollment6, Continue, BeginJob, NoJob, Msg, NewPending
    <2> QED BY <1>2, <1>3, <2>1, <2>2
  <1>5. ASSUME NEW n \in 1 .. MaxOps, NEW reason \in Reasons, EvictBegin6(n, reason) PROVE VInv'
    <2>1. /\ host = "up" /\ host' = "up" /\ journal' = journal /\ vault' = vault
          /\ pending = NoPending /\ n \in 1 .. Len(journal) + 1
      BY <1>5 DEF EvictBegin6, HandlerKeeps, Ready, Idle, disk
    <2>2. n \in Ops \cup {Len(journal) + 1}
      BY <2>1, OpsTyped DEF Ops, IInv
    <2>3. /\ job'.at \in {"begin", "close"} /\ job'.op = n /\ job'.ok.op = job'.op
          /\ job'.err = NoPending /\ job'.new.snapshot = NoSnapshot
          /\ job'.new.attempt = NoAttempt
          /\ job'.new.phase = "NotCommitted" /\ job'.reply.type = "SnapshotRequired"
          /\ pending' = pending /\ out' = NoMessage
      BY <1>5 DEF EvictBegin6, Continue, BeginJob, NoJob, Msg, NewPending
    <2> QED BY <1>2, <2>1, <2>2, <2>3
  <1>6. ASSUME NEW a \in Attempts, NEW kind \in OperationKind, OperationBegin7(a, kind)
        PROVE  VInv'
    <2>1. /\ host = "up" /\ host' = "up" /\ journal' = journal /\ vault' = vault
          /\ pending = NoPending
      BY <1>6 DEF OperationBegin7, NothingPending, HandlerKeeps, Ready, Idle, disk
    <2>2. /\ job'.at = "begin" /\ job'.op = Len(journal) + 1 /\ job'.ok.op = job'.op
          /\ job'.err = NoPending /\ job'.new.snapshot = NoSnapshot
          /\ job'.new.phase = "NotCommitted" /\ job'.reply.type = "SnapshotRequired"
          /\ pending' = pending /\ out' = NoMessage
      BY <1>6 DEF OperationBegin7, Continue, BeginJob, NoJob, Msg, NewPending
    <2> QED BY <1>2, <1>3, <2>1, <2>2
  <1> QED BY <1>4, <1>5, <1>6

\* Status queries and repeated begins.
LEMMA QueryHandlers ==
    ASSUME IInv, VInv, NEW n \in Ops, OperationReplay7(n) \/ OperationStatus7(n)
    PROVE  VInv'
  <1>1. Refers(pending) /\ (OrderlyClient => Restorable(pending))
    BY DEF VInv, RefersInv, RestoreInv
  <1>2. host = "up" /\ host' = "up" /\ journal' = journal /\ vault' = vault
    BY DEF OperationReplay7, OperationStatus7, Ready, Idle, HandlerKeeps, disk
  <1>3. ASSUME NEW message, message.type # "Authorized", Return(pending, message) PROVE VInv'
    BY <1>1, <1>2, <1>3, Answered
  <1>4. CASE OperationReplay7(n)
    <2>1. PICK message : Return(pending, message) /\ message.type \in {"SnapshotRequired", "Status"}
      BY <1>4 DEF OperationReplay7, Msg
    <2> QED BY <1>3, <2>1
  <1>5. CASE OperationStatus7(n)
    <2> DEFINE new == [op |-> n, confirmed |-> journal[n].phase \in Durable,
                       counted |-> journal[n].snapshot # NoSnapshot, full |-> FALSE]
               message == Msg("Status", n, TRUE)
    <2>1. message.type # "Authorized"
      BY DEF Msg
    <2>2. CASE Return(pending, message)
      BY <1>3, <2>1, <2>2
    <2>3. CASE pending = NoPending /\ journal[n].phase \notin Terminal /\ Return(new, message)
      <3>1. new.op = n
        OBVIOUS
      <3>2. Refers(new)
        BY <3>1 DEF Refers
      <3>3. OrderlyClient => Restorable(new)
        <4>1. journal[n].phase \in PreCommit \cup Durable
          BY <2>3, OpsTyped DEF IInv, Operation, OperationPhase
        <4> QED BY <3>1, <4>1 DEF VInv, KeptInv, DurableObjectInVault, Restorable
      <3>4. Undecided = {}
        BY <1>2, <2>3, NothingUndecided
      <3> HIDE DEF new, message
      <3> QED BY <1>2, <2>1, <2>3, <3>2, <3>3, <3>4, Answered
    <2> QED BY <1>5, <2>2, <2>3 DEF OperationStatus7
  <1> QED BY <1>4, <1>5

\* Only the flags of a pending operation changed.
LEMMA SameRefers ==
    ASSUME NEW p, NEW q, p.op = q.op
    PROVE  /\ Refers(p) => Refers(q)
           /\ Restorable(p) => Restorable(q)
  BY DEF Refers, Restorable

\* Snapshots, the removal precheck and the result of the removal.
LEMMA SnapshotHandler ==
    ASSUME IInv, VInv, NEW S \in SUBSET Cookies, Snapshot(S)
    PROVE  VInv'
  <1> DEFINE n == pending.op
             taken == [pending EXCEPT !.full = TRUE]
  <1>1. Refers(pending) /\ (OrderlyClient => Restorable(pending))
    BY DEF VInv, RefersInv, RestoreInv
  <1>2. /\ host = "up" /\ host' = "up" /\ journal' = journal /\ vault' = vault
        /\ ~pending.confirmed /\ ~pending.full /\ n # 0
    BY DEF Snapshot, Addressed, Ready, Idle, HandlerKeeps, disk
  <1>3. taken.op = n /\ taken.full = TRUE /\ taken.confirmed = FALSE
    BY <1>2 DEF IInv, TypeOK, PendingOperation
  <1>4. Refers(taken) /\ (OrderlyClient => Restorable(taken)) /\ n \in Ops
    BY <1>1, <1>2, <1>3, SameRefers DEF Refers
  <1>5. Undecided = {}
    BY <1>2, NothingUndecided
  <1>6. CASE /\ job'.at = "finish" /\ job'.phase = "Aborted" /\ job'.ok = NoPending
             /\ job'.err = NoPending /\ job'.reply.type = "EmptyScope"
             /\ pending' = NoPending /\ out' = NoMessage
    <2>1. CommitInv' /\ HandlerInv'
      BY <1>6 DEF CommitInv, HandlerInv, Committing, Terminal
    <2> QED BY <1>2, <1>5, <1>6, <2>1, EmptyRefers, Started
  <1>7. CASE Fail(taken)
    <2> HIDE DEF taken, n
    <2> QED BY <1>2, <1>4, <1>5, <1>7, Answered, EmptyFields DEF Fail
  <1>8. CASE /\ job'.at = "bind" /\ job'.op = n /\ job'.snapshot = PreparedBinding(n, S)
             /\ job'.reply = NoMessage /\ pending' = taken /\ out' = NoMessage
             /\ S # {} \/ VaultExists
    <2>1. /\ job'.snapshot.previous = vault /\ job'.snapshot.cookies = S
          /\ job'.snapshot.target = PreparedTarget(n, S, vault)
      BY <1>8 DEF PreparedBinding
    <2>2. /\ PreparedTarget(n, S, vault) # NoVault
          /\ S = {} => PreparedTarget(n, S, vault) = vault
      BY <1>8 DEF PreparedTarget, VaultExists, NoVault
    <2>3. CommitInv'
      <3> HIDE DEF taken, n
      <3>1. n \in Ops'
        BY <1>2, <1>4 DEF Ops
      <3> QED BY <1>2, <1>3, <1>8, <2>1, <2>2, <3>1 DEF CommitInv, Committing
    <2>4. HandlerInv'
      BY <1>8, EmptyFields DEF HandlerInv
    <2> HIDE DEF taken, n
    <2> QED BY <1>2, <1>4, <1>5, <1>8, <2>3, <2>4, Started
  <1> DEFINE empty == journal[n].kind = "Enrollment" /\ S = {}
             nothing == S = {} /\ ~VaultExists
  <1>9. CASE empty
    <2>1. /\ job' = [LeaseJob([mlease EXCEPT !.state = "Uninitialized", !.id = 0, !.op = 0],
                              NoPending, NoPending, Msg("EmptyScope", n, TRUE))
                     EXCEPT !.at = "finish", !.op = n, !.phase = "Aborted"]
          /\ pending' = NoPending /\ out' = NoMessage
      BY <1>9 DEF Snapshot
    <2>2. /\ job'.at = "finish" /\ job'.phase = "Aborted" /\ job'.ok = NoPending
          /\ job'.err = NoPending /\ job'.reply.type = "EmptyScope"
      BY <2>1 DEF LeaseJob, NoJob, Msg
    <2> QED BY <1>6, <2>1, <2>2
  <1>10. CASE ~empty /\ nothing
    BY <1>7, <1>10 DEF Snapshot, SnapshotTaken
  <1>11. CASE ~empty /\ ~nothing
    <2>1. /\ job' = [NoJob EXCEPT !.at = "bind", !.op = n, !.snapshot = PreparedBinding(n, S)]
          /\ pending' = taken /\ out' = NoMessage
      BY <1>11 DEF Snapshot, SnapshotTaken
    <2>2. /\ job'.at = "bind" /\ job'.op = n /\ job'.snapshot = PreparedBinding(n, S)
          /\ job'.reply = NoMessage
      BY <2>1 DEF NoJob
    <2> QED BY <1>8, <1>11, <2>1, <2>2
  <1> QED BY <1>9, <1>10, <1>11

\* Preparing the removal, and its precheck.
LEMMA RemovalHandlers ==
    ASSUME IInv, VInv,
           \/ RemovePrepare7
           \/ \E S \in SUBSET Cookies : RemovalSnapshot7(S)
    PROVE  VInv'
  <1> DEFINE n == pending.op
  <1>1. Refers(pending) /\ (OrderlyClient => Restorable(pending))
    BY DEF VInv, RefersInv, RestoreInv
  <1>2. CASE RemovePrepare7
    <2> DEFINE p == [pending EXCEPT !.counted = FALSE, !.full = FALSE]
    <2>1. /\ host = "up" /\ host' = "up" /\ journal' = journal /\ vault' = vault
          /\ pending.confirmed /\ Return(p, NoMessage)
      BY <1>2 DEF RemovePrepare7, RemovalConfirmed, Addressed, Ready, Idle, HandlerKeeps, disk
    <2>2. p.op = pending.op
      BY DEF IInv, TypeOK, PendingOperation
    <2>3. Undecided = {}
      BY <2>1, NothingUndecided
    <2> HIDE DEF p
    <2> QED BY <1>1, <2>1, <2>2, <2>3, SameRefers, Answered, EmptyFields
  <1>3. ASSUME NEW S \in SUBSET Cookies, RemovalSnapshot7(S) PROVE VInv'
    <2> DEFINE taken == [pending EXCEPT !.full = TRUE]
    <2>1. /\ host = "up" /\ host' = "up" /\ journal' = journal /\ vault' = vault
          /\ ~pending.full /\ n # 0 /\ journal[n].attempt # NoAttempt
      BY <1>3 DEF RemovalSnapshot7, Addressed, Ready, Idle, HandlerKeeps, disk
    <2>2. taken.op = n
      BY DEF IInv, TypeOK, PendingOperation
    <2>3. Refers(taken) /\ (OrderlyClient => Restorable(taken)) /\ n \in Ops
      BY <1>1, <2>1, <2>2, SameRefers DEF Refers
    <2>4. Undecided = {}
      BY <2>1, NothingUndecided
    <2>5. CASE Fail(taken)
      <3> HIDE DEF taken, n
      <3> QED BY <2>1, <2>3, <2>4, <2>5, Answered, EmptyFields DEF Fail
    <2>6. CASE journal[n].snapshot # NoSnapshot /\ Return(taken, Msg("Authorized", n, TRUE))
      <3>1. journal[n].phase \notin PreCommit
        BY <2>3, <2>4, <2>6 DEF Undecided
      <3>2. OrderlyClient => vault = journal[n].snapshot.target
        BY <1>1, <2>1, <2>3, <2>6, <3>1 DEF Restorable
      <3>3. Msg("Authorized", n, TRUE).op = n
        BY DEF Msg
      <3> HIDE DEF taken, n
      <3> QED BY <2>1, <2>3, <2>4, <2>6, <3>2, <3>3, Answered
    <2>7. CASE /\ job'.at = "finish" /\ job'.phase = "ReconciliationRequired"
               /\ job'.ok = NoPending /\ job'.err = taken /\ job'.reply.type = "Completed"
               /\ pending' = taken /\ out' = NoMessage
      <3>1. CommitInv' /\ HandlerInv'
        BY <2>7 DEF CommitInv, HandlerInv, Committing, Terminal
      <3> HIDE DEF taken, n
      <3> QED BY <2>1, <2>3, <2>4, <2>7, <3>1, EmptyRefers, Started
    <2>8. CASE journal[n].snapshot = NoSnapshot
      BY <1>3, <2>5, <2>8 DEF RemovalSnapshot7, SnapshotTaken
    <2>9. CASE journal[n].snapshot # NoSnapshot /\ SnapshotMatches(n, S)
      BY <1>3, <2>6, <2>9 DEF RemovalSnapshot7, SnapshotTaken
    <2>10. CASE journal[n].snapshot # NoSnapshot /\ ~SnapshotMatches(n, S)
      <3>1. /\ job' = [LeaseJob([mlease EXCEPT !.state = "Degraded"], NoPending, taken,
                                Msg("Completed", n, FALSE))
                       EXCEPT !.at = "finish", !.op = n, !.phase = "ReconciliationRequired"]
            /\ pending' = taken /\ out' = NoMessage
        BY <1>3, <2>10 DEF RemovalSnapshot7, SnapshotTaken
      <3> QED BY <2>7, <3>1 DEF LeaseJob, NoJob, Msg
    <2> QED BY <2>8, <2>9, <2>10
  <1> QED BY <1>2, <1>3

\* The result of the removal.
LEMMA ResultHandler ==
    ASSUME IInv, VInv, NEW success, NEW remaining, EvictResult(success, remaining)
    PROVE  VInv'
  <1>1. /\ host = "up" /\ host' = "up" /\ journal' = journal /\ vault' = vault
        /\ pending.confirmed /\ pending' = NoPending /\ out' = NoMessage
    BY DEF EvictResult, Addressed, Ready, Idle, HandlerKeeps, disk
  <1>2. /\ job'.at = "finish" /\ job'.phase \in {"Completed", "ReconciliationRequired"}
        /\ job'.ok = NoPending /\ job'.err = NoPending /\ job'.reply.type \in {"Completed", "None"}
    BY DEF EvictResult, LeaseJob, NoJob, Msg, NoMessage
  <1>3. CommitInv' /\ HandlerInv'
    BY <1>2 DEF CommitInv, HandlerInv, Committing, Terminal
  <1> QED BY <1>1, <1>2, <1>3, NothingUndecided, EmptyRefers, Started

\* Every handler keeps the invariant.
LEMMA HandleKeeps ==
    ASSUME IInv, VInv, Handle
    PROVE  VInv'
  BY LeaseHandlers, BeginHandlers, QueryHandlers, SnapshotHandler, RemovalHandlers, ResultHandler
  DEF Handle

-----------------------------------------------------------------------------
(* Durable writes.                                                         *)

\* A write that fails: the handler returns and keeps the pending operation.
LEMMA WriteFailed ==
    ASSUME VInv, host = "up", host' = "up", journal' = journal, vault' = vault, Fail(pending)
    PROVE  VInv'
  <1>1. Refers(pending) /\ (OrderlyClient => Restorable(pending))
    BY DEF VInv, RefersInv, RestoreInv
  <1> QED BY <1>1, Answered, EmptyFields DEF Fail

\* Only a process that is up has a job.
LEMMA JobUp == ASSUME VInv, job.at # "idle" PROVE host = "up"
  BY EmptyFields DEF VInv, RestInv

\* Appending the record of an operation, or finding it.
LEMMA BeginKeeps == ASSUME IInv, VInv, Begin PROVE VInv'
  <1>1. /\ job.at = "begin" /\ host = "up" /\ host' = "up" /\ vault' = vault
    BY JobUp DEF Begin, HandlerStep
  <1>2. /\ Unresolved = {} /\ pending = NoPending /\ job.err = NoPending /\ job.ok.op = job.op
        /\ job.op \in Ops \cup {Len(journal) + 1}
        /\ job.new.snapshot = NoSnapshot /\ job.new.phase = "NotCommitted"
        /\ job.op \in Ops => job.new.attempt = NoAttempt
    BY <1>1 DEF IInv, BeginReady, VInv, HandlerInv
  <1>3. Undecided = {}
    BY <1>1, <1>2, NothingUndecided
  <1>4. CASE Fail(pending) /\ journal' = journal
    BY <1>1, <1>4, WriteFailed
  <1>5. ASSUME Continue([job EXCEPT !.at = "lease"])
        PROVE  /\ job'.at = "lease" /\ job'.ok = job.ok /\ job'.err = NoPending
               /\ pending' = NoPending /\ out' = NoMessage
               /\ CommitInv' /\ HandlerInv'
    <2>1. /\ job'.at = "lease" /\ job'.ok = job.ok /\ job'.err = NoPending
          /\ job'.reply = job.reply
          /\ pending' = NoPending /\ out' = NoMessage
      BY <1>2, <1>5, NextStep DEF Continue, IInv
    <2> QED BY <2>1 DEF CommitInv, HandlerInv, Committing, VInv
  <1>6. CASE /\ job.op \in Ops /\ SameRequest(journal[job.op], job.new) /\ journal' = journal
             /\ Continue([job EXCEPT !.at = "lease"])
    <2>1. journal[job.op].attempt = NoAttempt
      BY <1>2, <1>6 DEF SameRequest
    <2>2. Refers(job.ok) /\ Restorable(job.ok)
      BY <1>2, <1>6, <2>1 DEF Refers, Restorable
    <2> QED BY <1>1, <1>3, <1>5, <1>6, <2>2, EmptyRefers, Started
  <1>7. CASE /\ job.op \notin Ops /\ journal' = Append(journal, job.new)
             /\ Continue([job EXCEPT !.at = "lease"])
    <2> DEFINE new == Len(journal) + 1
    <2>1. /\ Ops' = Ops \cup {new} /\ journal'[new] = job.new
          /\ \A m \in Ops : journal'[m] = journal[m]
      <3>1. job.new \in Operation /\ journal \in Seq(Operation) /\ Len(journal) \in Nat
        BY OpsTyped DEF IInv, TypeOK, Job
      <3>2. /\ Len(journal') = Len(journal) + 1
            /\ \A i \in 1 .. Len(journal) : journal'[i] = journal[i]
            /\ journal'[Len(journal) + 1] = job.new
        BY <1>7, <3>1, AppendProperties
      <3> QED BY <3>1, <3>2 DEF Ops
    <2>2. job.ok.op = new /\ job'.ok = job.ok
      BY <1>2, <1>5, <1>7
    <2> HIDE DEF new
    <2>3. \A m \in Ops : journal[m].phase \in Terminal
      BY <1>2 DEF Unresolved
    <2>4. Undecided' = {}
      BY <1>2, <1>3, <2>1 DEF Undecided
    <2>5. KeptInv'
      <3>1. \A m \in Ops' : journal'[m].phase \notin Durable
        BY <1>2, <2>1, <2>3 DEF Terminal, Durable
      <3> QED BY <3>1 DEF KeptInv, DurableObjectKept, DurableObjectInVault
    <2>6. UndecidedInv'
      BY <2>4 DEF UndecidedInv
    <2>7. (Refers(NoPending) /\ Restorable(NoPending))'
      BY EmptyFields DEF Refers, Restorable, Ops
    <2>8. Refers(job.ok)' /\ Restorable(job.ok)'
      BY <1>2, <2>1, <2>2 DEF Refers, Restorable
    <2>9. RefersInv' /\ RestoreInv'
      BY <1>5, <1>7, <2>2, <2>7, <2>8, EmptyFields DEF RefersInv, RestoreInv
    <2> QED BY <1>1, <1>5, <1>7, <2>5, <2>6, <2>9, Serving
  <1> QED BY <1>4, <1>6, <1>7 DEF Begin, JournalWriteGoes, JournalWriteFails

\* Moving a decided operation on, and returning or going on without undecided ones.
LEMMA DecidedStep ==
    ASSUME IInv, VInv, host' = "up", vault' = vault, Undecided = {},
           NEW n \in Ops, NEW phase, PhaseOnly(n, phase),
           \/ phase \in Terminal
           \/ phase \in Durable /\ journal[n].phase \in Durable,
           CommitInv', HandlerInv', pending' = pending, out'.type # "Authorized",
           job'.at \in {"finish", "lease"} =>
              job.at \in {"finish", "lease"} /\ job'.ok = job.ok /\ job'.err = job.err
    PROVE  VInv'
  <1>1. /\ Undecided' = {} /\ KeptInv'
        /\ \A p : (Refers(p) => Refers(p)') /\ (Restorable(p) => Restorable(p)')
    BY DecidedMove DEF VInv
  <1>2. UndecidedInv'
    BY <1>1 DEF UndecidedInv
  <1>3. RefersInv' /\ RestoreInv'
    BY <1>1 DEF VInv, RefersInv, RestoreInv
  <1> QED BY <1>1, <1>2, <1>3, Serving

\* Closing what an earlier client left: nothing of it is undecided.
LEMMA CloseKeeps == ASSUME IInv, VInv, NEW n \in Ops, CloseUnresolved(n) PROVE VInv'
  <1>1. job.at = "close" /\ host = "up" /\ host' = "up" /\ vault' = vault
    BY JobUp DEF CloseUnresolved, HandlerStep
  <1>2. Undecided = {}
    BY <1>1, NothingUndecided DEF Committing
  <1>3. ClosePhase(n) \in {"Aborted", "ReconciliationRequired"}
    <2>1. ~(journal[n].snapshot # NoSnapshot /\ journal[n].phase \in PreCommit)
      BY <1>2 DEF Undecided
    <2> QED BY <2>1 DEF ClosePhase
  <1>4. ClosePhase(n) \in Terminal /\ ClosePhase(n) \in OperationPhase
    BY <1>3 DEF Terminal, OperationPhase
  <1>5. CASE TransitionFails(n, ClosePhase(n)) /\ Fail(pending)
    BY <1>1, <1>4, <1>5, TransitionEffect, WriteFailed DEF IInv
  <1>6. CASE /\ TransitionGoes(n, ClosePhase(n))
             /\ Continue([job EXCEPT !.at = IF Unresolved' = {} THEN "begin" ELSE "close"])
    <2>1. PhaseOnly(n, ClosePhase(n))
      BY <1>4, <1>6, TransitionEffect DEF IInv
    <2>2. /\ job'.at \in {"begin", "close"} /\ job'.op = job.op /\ job'.new = job.new
          /\ job'.ok = job.ok /\ job'.err = job.err /\ job'.reply = job.reply
          /\ pending' = pending /\ out' = NoMessage
      BY <1>6, NextStep DEF Continue, IInv
    <2>3. CommitInv' /\ HandlerInv'
      BY <1>1, <2>1, <2>2 DEF CommitInv, HandlerInv, Committing, VInv, PhaseOnly
    <2> QED BY <1>1, <1>2, <1>4, <2>1, <2>2, <2>3, DecidedStep, EmptyFields
  <1> QED BY <1>5, <1>6 DEF CloseUnresolved

\* The terminal transition of an operation.
LEMMA FinishKeeps == ASSUME IInv, VInv, Finish PROVE VInv'
  <1>1. job.at = "finish" /\ host = "up" /\ host' = "up" /\ vault' = vault
    BY JobUp DEF Finish, HandlerStep
  <1>2. Undecided = {}
    BY <1>1, NothingUndecided DEF Committing
  <1>3. job.phase \in Terminal /\ job.phase \in OperationPhase
    BY <1>1 DEF VInv, HandlerInv, IInv, TypeOK, Job
  <1>4. ASSUME Continue([job EXCEPT !.at = "lease"])
        PROVE  /\ job'.at = "lease" /\ job'.ok = job.ok /\ job'.err = job.err
               /\ pending' = pending /\ out' = NoMessage /\ CommitInv' /\ HandlerInv'
    <2>1. /\ job'.at = "lease" /\ job'.ok = job.ok /\ job'.err = job.err
          /\ job'.reply = job.reply /\ pending' = pending /\ out' = NoMessage
      BY <1>4, NextStep DEF Continue, IInv
    <2> QED BY <2>1 DEF CommitInv, HandlerInv, Committing, VInv
  <1>5. CASE job.op \in Ops
    <2>1. CASE TransitionFails(job.op, job.phase) /\ Fail(pending)
      BY <1>1, <1>3, <1>5, <2>1, TransitionEffect, WriteFailed DEF IInv
    <2>2. CASE TransitionGoes(job.op, job.phase) /\ Continue([job EXCEPT !.at = "lease"])
      <3>1. PhaseOnly(job.op, job.phase)
        BY <1>3, <1>5, <2>2, TransitionEffect DEF IInv
      <3> QED BY <1>1, <1>2, <1>3, <1>4, <1>5, <2>2, <3>1, DecidedStep, EmptyFields
    <2> QED BY <2>1, <2>2 DEF Finish
  <1>6. CASE job.op \notin Ops
    <2>1. journal' = journal
      BY <1>3, <1>6, JournalExcept
      DEF Finish, TransitionGoes, TransitionFails, JournalWriteGoes, JournalWriteFails, IInv, TypeOK
    <2>2. CASE Fail(pending)
      BY <1>1, <2>1, <2>2, WriteFailed
    <2>3. CASE Continue([job EXCEPT !.at = "lease"])
      <3>1. /\ Refers(pending) /\ Refers(job.ok) /\ Refers(job.err)
            /\ OrderlyClient => Restorable(pending) /\ Restorable(job.ok) /\ Restorable(job.err)
        BY <1>1 DEF VInv, RefersInv, RestoreInv
      <3> QED BY <1>1, <1>2, <1>4, <2>1, <2>3, <3>1, Started
    <2> QED BY <2>2, <2>3 DEF Finish
  <1> QED BY <1>5, <1>6

\* The removal becomes pending: a committed operation stays durable.
LEMMA RemovalPendingKeeps == ASSUME IInv, VInv, MarkRemovalPending PROVE VInv'
  <1> DEFINE phase == "BrowserRemovalPending"
  <1>1. job.at = "removal" /\ host = "up" /\ host' = "up" /\ vault' = vault
    BY JobUp DEF MarkRemovalPending, HandlerStep
  <1>2. Undecided = {}
    BY <1>1, NothingUndecided DEF Committing
  <1>3. phase \in Durable /\ phase \in OperationPhase
    BY DEF Durable, OperationPhase
  <1>4. Refers(pending) /\ (OrderlyClient => Restorable(pending)) /\ job.reply.type # "Authorized"
    BY DEF VInv, RefersInv, RestoreInv, HandlerInv
  <1>5. ASSUME journal' = journal PROVE VInv'
    <2>1. CASE Fail(pending)
      BY <1>1, <1>5, <2>1, WriteFailed
    <2>2. CASE Return(pending, job.reply)
      BY <1>1, <1>2, <1>4, <1>5, <2>2, Answered
    <2> QED BY <2>1, <2>2 DEF MarkRemovalPending
  <1>6. CASE job.op \in Ops /\ TransitionGoes(job.op, phase) /\ Return(pending, job.reply)
    <2>1. /\ PhaseOnly(job.op, phase)
          /\ journal[job.op].phase = phase \/ phase \in Successors(journal[job.op].phase)
      BY <1>3, <1>6, TransitionEffect DEF IInv
    <2>2. journal[job.op].phase \in Durable
      BY <1>3, <2>1 DEF Successors, Durable
    <2>3. job' = NoJob /\ pending' = pending /\ out' = job.reply
      BY <1>6 DEF Return
    <2>4. CommitInv' /\ HandlerInv'
      BY <2>3, EmptyFields DEF CommitInv, HandlerInv, Committing
    <2> HIDE DEF phase
    <2> QED BY <1>1, <1>2, <1>3, <1>4, <1>6, <2>1, <2>2, <2>3, <2>4, DecidedStep, EmptyFields
  <1>7. CASE job.op \in Ops /\ TransitionFails(job.op, phase)
    BY <1>3, <1>5, <1>7, TransitionEffect DEF IInv
  <1>8. CASE job.op \notin Ops
    <2>1. journal' = journal
      BY <1>3, <1>8, JournalExcept
      DEF MarkRemovalPending, TransitionGoes, TransitionFails, JournalWriteGoes, JournalWriteFails,
          IInv, TypeOK
    <2> QED BY <1>5, <2>1
  <1> QED BY <1>6, <1>7, <1>8 DEF MarkRemovalPending

\* Recording the binding makes the operation undecided; the pending operation is full.
LEMMA BindKeeps == ASSUME IInv, VInv, BindSnapshot PROVE VInv'
  <1> DEFINE n == job.op
             b == job.snapshot
  <1>1. job.at = "bind" /\ host = "up" /\ host' = "up" /\ vault' = vault
    BY JobUp DEF BindSnapshot, HandlerStep
  <1>2. Undecided = {}
    BY <1>1, NothingUndecided DEF Committing
  <1>3. /\ n \in Ops /\ b.previous = vault /\ b.target # NoVault
        /\ b.cookies = {} => b.target = b.previous
        /\ pending.op = n /\ pending.full = TRUE /\ pending.confirmed = FALSE
    BY <1>1 DEF VInv, CommitInv
  <1>4. b # NoSnapshot
    BY <1>3 DEF NoSnapshot
  <1>5. CASE journal' = journal /\ Fail(pending)
    BY <1>1, <1>5, WriteFailed
  <1>6. CASE /\ journal[n].phase \in PreCommit /\ journal[n].snapshot = NoSnapshot
             /\ journal' = [journal EXCEPT ![n].snapshot = b]
             /\ Continue([job EXCEPT !.at = "unknown"])
    <2>1. journal[n] \in Operation /\ n \in DOMAIN journal /\ journal \in Seq(Operation)
          /\ b \in SnapshotBinding
      BY <1>3, OpsTyped DEF IInv, TypeOK, Ops, Job
    <2>2. Ops' = Ops
      BY <1>6, <2>1, JournalExcept DEF Ops
    <2>3. journal'[n] = [journal[n] EXCEPT !.snapshot = b] /\ \A m \in Ops \ {n} : journal'[m] = journal[m]
      BY <1>6, <2>1
    <2>4. journal'[n].snapshot = b /\ journal'[n].phase = journal[n].phase
      BY <2>1, <2>3 DEF Operation
    <2>5. /\ job'.at = "unknown" /\ job'.op = n /\ job'.snapshot = b /\ job'.reply = job.reply
          /\ pending' = pending /\ out' = NoMessage
      BY <1>6, NextStep DEF Continue, IInv
    <2> HIDE DEF n, b
    <2>6. Undecided' = {n}
      BY <1>2, <1>3, <1>4, <1>6, <2>2, <2>3, <2>4 DEF Undecided
    <2>7. UndecidedInv'
      <3>1. ASSUME NEW m \in Undecided' PROVE Guarded(m)'
        BY <1>3, <2>5, <2>6 DEF Guarded, Committing
      <3> QED BY <1>1, <1>3, <2>4, <2>6, <3>1 DEF UndecidedInv
    <2>8. CommitInv' /\ HandlerInv'
      BY <1>3, <2>4, <2>5, <2>6 DEF CommitInv, HandlerInv, Committing, VInv
    <2>9. KeptInv'
      <3>1. \A m \in Ops : journal'[m].phase \in Durable => m # n
        BY <1>6, <2>4 DEF PreCommit, Durable
      <3> QED BY <1>1, <2>2, <2>3, <3>1 DEF VInv, KeptInv, DurableObjectKept, DurableObjectInVault
    <2>10. RefersInv' /\ RestoreInv'
      <3>1. Refers(pending)' /\ Restorable(pending)'
        BY <1>3, <1>6, <2>2, <2>4, <2>5 DEF Refers, Restorable
      <3> QED BY <2>5, <3>1, EmptyFields DEF RefersInv, RestoreInv
    <2> QED BY <1>1, <2>7, <2>8, <2>9, <2>10, Serving
  <1>7. ~(journal[n].phase \in PreCommit /\ journal[n].snapshot = b)
    BY <1>2, <1>3, <1>4 DEF Undecided
  <1> QED BY <1>5, <1>6, <1>7 DEF BindSnapshot, JournalWriteGoes, JournalWriteFails

\* In a step of commit_snapshot the operation is the undecided one, and memory guards it.
LEMMA CommittingFacts ==
    ASSUME IInv, VInv, job.at \in Committing
    PROVE  /\ host = "up" /\ job.op \in Ops /\ Undecided = {job.op} /\ Unresolved = {job.op}
           /\ journal[job.op].snapshot = job.snapshot
           /\ journal[job.op].phase \in PreCommit
           /\ job.snapshot # NoSnapshot /\ job.snapshot.target # NoVault
           /\ job.snapshot.cookies = {} => job.snapshot.target = job.snapshot.previous
           /\ vault \in {job.snapshot.previous, job.snapshot.target}
           /\ pending.op = job.op /\ pending.full = TRUE /\ pending.confirmed = FALSE
           /\ \A n \in Ops : n # job.op => journal[n].phase \in Terminal
  <1>1. host = "up"
    BY JobUp DEF Committing
  <1>2. job.op \in Undecided /\ journal[job.op].snapshot = job.snapshot
    BY DEF VInv, CommitInv
  <1>3. \A n \in Undecided : n \in Unresolved
    BY DEF Undecided, Unresolved, PreCommit, Terminal
  <1>4. Undecided = {job.op} /\ Unresolved = {job.op}
    BY <1>2, <1>3 DEF IInv, AtMostOneUnresolved
  <1>5. \A n \in Ops : n # job.op => journal[n].phase \in Terminal
    BY <1>4 DEF Unresolved
  <1>6. Guarded(job.op) /\ vault \in {job.snapshot.previous, job.snapshot.target}
    BY <1>1, <1>2 DEF VInv, UndecidedInv
  <1>7. /\ job.op \in Ops /\ journal[job.op].phase \in PreCommit /\ job.snapshot # NoSnapshot
    BY <1>2 DEF Undecided
  <1>8. /\ job.snapshot.target # NoVault
        /\ job.snapshot.cookies = {} => job.snapshot.target = job.snapshot.previous
    BY DEF VInv, CommitInv
  <1> QED BY <1>1, <1>2, <1>4, <1>5, <1>6, <1>7, <1>8 DEF Guarded

\* The operation stays undecided: the journal says that the outcome is unknown, or that
\* nothing was committed.
LEMMA StaysUndecided ==
    ASSUME IInv, VInv, job.at \in Committing, host' = "up", vault' = vault,
           NEW phase \in PreCommit, PhaseOnly(job.op, phase),
           pending' = pending, out' = NoMessage,
           \/ job' = NoJob
           \/ job' = [job EXCEPT !.at = "vault"]
    PROVE  VInv'
  <1> DEFINE n == job.op
  <1>1. /\ n \in Ops /\ Undecided = {n} /\ journal[n].snapshot = job.snapshot
        /\ job.snapshot # NoSnapshot /\ job.snapshot.target # NoVault
        /\ job.snapshot.cookies = {} => job.snapshot.target = job.snapshot.previous
        /\ vault \in {job.snapshot.previous, job.snapshot.target}
        /\ pending.op = n /\ pending.full = TRUE /\ pending.confirmed = FALSE
        /\ \A m \in Ops : m # n => journal[m].phase \in Terminal
    BY CommittingFacts
  <1>2. /\ Ops' = Ops /\ journal'[n].snapshot = job.snapshot /\ journal'[n].phase = phase
        /\ \A m \in Ops \ {n} : journal'[m] = journal[m]
    BY <1>1 DEF PhaseOnly
  <1>3. job'.at \in {"idle", "vault"} /\ job'.reply.type # "Authorized"
        /\ (job'.at = "vault" => job'.op = n /\ job'.snapshot = job.snapshot)
    BY NextStep, EmptyFields DEF IInv, VInv, HandlerInv
  <1> HIDE DEF n
  <1>4. Undecided' = {n}
    BY <1>1, <1>2 DEF Undecided
  <1>5. UndecidedInv'
    <2>1. ASSUME NEW m \in Undecided' PROVE Guarded(m)'
      BY <1>1, <1>3, <1>4 DEF Guarded, Committing
    <2> QED BY <1>1, <1>2, <1>4, <2>1 DEF UndecidedInv
  <1>6. CommitInv' /\ HandlerInv'
    BY <1>1, <1>2, <1>3, <1>4 DEF CommitInv, HandlerInv, Committing
  <1>7. KeptInv'
    <2>1. \A m \in Ops : journal'[m].phase \notin Durable
      BY <1>1, <1>2 DEF PreCommit, Durable, Terminal
    <2> QED BY <1>2, <2>1 DEF KeptInv, DurableObjectKept, DurableObjectInVault
  <1>8. RefersInv' /\ RestoreInv'
    <2>1. Refers(pending)' /\ Restorable(pending)'
      BY <1>1, <1>2 DEF Refers, Restorable
    <2> QED BY <1>3, <2>1, EmptyFields DEF RefersInv, RestoreInv
  <1> QED BY <1>5, <1>6, <1>7, <1>8, Serving

\* The vault holds the target and the journal says so.
LEMMA Commits ==
    ASSUME IInv, VInv, job.at \in {"commit", "classify"}, host' = "up", vault' = vault,
           PhaseOnly(job.op, "Committed"), Continue(CommittedJob)
    PROVE  VInv'
  <1> DEFINE n == job.op
  <1>1. /\ n \in Ops /\ journal[n].snapshot = job.snapshot /\ Undecided = {n}
        /\ pending.op = n /\ \A m \in Ops : m # n => journal[m].phase \in Terminal
    BY CommittingFacts DEF Committing
  <1>2. vault = job.snapshot.target
    BY DEF VInv, CommitInv
  <1>3. /\ Ops' = Ops /\ journal'[n].snapshot = job.snapshot /\ journal'[n].phase = "Committed"
        /\ \A m \in Ops \ {n} : journal'[m] = journal[m]
    BY <1>1 DEF PhaseOnly
  <1>4. /\ job'.at = "lease" /\ job'.ok.op = n /\ job'.err.op = n /\ job'.reply.type = "Confirmed"
        /\ pending' = pending /\ out' = NoMessage
    BY <1>1 DEF Continue, CommittedJob, LeaseJob, NoJob, Msg, IInv, TypeOK, PendingOperation
  <1> HIDE DEF n
  <1>5. Undecided' = {}
    BY <1>1, <1>3 DEF Undecided, PreCommit, Terminal
  <1>6. UndecidedInv'
    BY <1>5 DEF UndecidedInv
  <1>7. CommitInv' /\ HandlerInv'
    BY <1>4 DEF CommitInv, HandlerInv, Committing
  <1>8. KeptInv'
    <2>1. \A m \in Ops : m # n => journal'[m].phase \notin Durable
      BY <1>1, <1>3 DEF Durable, Terminal
    <2> QED BY <1>2, <1>3, <2>1 DEF KeptInv, DurableObjectKept, DurableObjectInVault
  <1>9. RefersInv' /\ RestoreInv'
    <2>1. \A p : p.op = n => Refers(p)' /\ Restorable(p)'
      BY <1>1, <1>2, <1>3 DEF Refers, Restorable
    <2> QED BY <1>1, <1>4, <2>1, EmptyFields DEF RefersInv, RestoreInv
  <1> QED BY <1>6, <1>7, <1>8, <1>9, Serving

\* The steps of commit_snapshot after the binding.
LEMMA CommitKeeps ==
    ASSUME IInv, VInv, MarkUnknown \/ MarkCommitted \/ RevertCommit \/ ClassifyCommit
    PROVE  VInv'
  <1> DEFINE n == job.op
  <1>1. job.at \in Committing /\ host' = host /\ vault' = vault
    BY DEF MarkUnknown, MarkCommitted, RevertCommit, ClassifyCommit, HandlerStep, Committing
  <1>2. host = "up" /\ n \in Ops /\ journal[n].snapshot = job.snapshot /\ journal[n].phase \in PreCommit
    BY <1>1, CommittingFacts
  <1>3. /\ {"DurabilityUnknown", "NotCommitted"} \subseteq PreCommit
        /\ {"DurabilityUnknown", "NotCommitted", "Committed"} \subseteq OperationPhase
    BY DEF PreCommit, Durable, OperationPhase
  <1>4. ASSUME NEW phase \in OperationPhase, TransitionFails(n, phase), Fail(pending) PROVE VInv'
    BY <1>1, <1>2, <1>4, TransitionEffect, WriteFailed DEF IInv
  <1>5. ASSUME NEW phase \in OperationPhase, TransitionGoes(n, phase) PROVE PhaseOnly(n, phase)
    BY <1>2, <1>5, TransitionEffect DEF IInv
  <1>6. CASE MarkUnknown
    <2>1. CASE TransitionFails(n, "DurabilityUnknown") /\ Fail(pending)
      BY <1>3, <1>4, <2>1
    <2>2. CASE TransitionGoes(n, "DurabilityUnknown") /\ Continue([job EXCEPT !.at = "vault"])
      BY <1>1, <1>2, <1>3, <1>5, <2>2, StaysUndecided DEF Continue
    <2> QED BY <1>6, <2>1, <2>2 DEF MarkUnknown
  <1>7. CASE RevertCommit
    <2>1. Fail(pending)
      BY <1>7 DEF RevertCommit
    <2>2. CASE TransitionFails(n, "NotCommitted")
      BY <1>3, <1>4, <2>1, <2>2
    <2>3. CASE TransitionGoes(n, "NotCommitted")
      BY <1>1, <1>2, <1>3, <1>5, <2>1, <2>3, StaysUndecided DEF Fail, Return
    <2> QED BY <1>7, <2>2, <2>3 DEF RevertCommit
  <1>8. CASE MarkCommitted
    <2>1. CASE TransitionFails(n, "Committed") /\ Fail(pending)
      BY <1>3, <1>4, <2>1
    <2>2. CASE TransitionGoes(n, "Committed") /\ Continue(CommittedJob)
      <3>1. job.at = "commit"
        BY <1>8 DEF MarkCommitted
      <3> QED BY <1>1, <1>2, <1>3, <1>5, <2>2, <3>1, Commits
    <2> QED BY <1>8, <2>1, <2>2 DEF MarkCommitted
  <1>9. CASE ClassifyCommit
    <2>1. job.at = "classify"
      BY <1>9 DEF ClassifyCommit
    <2>2. vault = journal[n].snapshot.target /\ vault # NoVault
      BY <1>1, <1>2, <2>1, CommittingFacts DEF VInv, CommitInv
    <2>3. RecoveredPhase(journal[n].phase, journal[n].snapshot, vault) = "Committed"
      <3>1. ClassifyVault(journal[n].phase, journal[n].snapshot, vault) = "Committed"
        BY <2>2 DEF ClassifyVault, ClassifyObject
      <3>2. journal[n].phase \notin Durable
        BY <1>2 DEF PreCommit, Durable
      <3> QED BY <3>1, <3>2 DEF RecoveredPhase
    <2>4. CASE TransitionFails(n, "Committed") /\ Fail(pending)
      BY <1>3, <1>4, <2>4
    <2>5. CASE TransitionGoes(n, "Committed") /\ Continue(CommittedJob)
      BY <1>1, <1>2, <1>3, <1>5, <2>1, <2>5, Commits
    <2> QED BY <1>9, <2>3, <2>4, <2>5 DEF ClassifyCommit, Durable
  <1> QED BY <1>6, <1>7, <1>8, <1>9

\* The vault is written: the old or the target object is in place.
LEMMA VaultWriteKeeps == ASSUME IInv, VInv, WriteVault PROVE VInv'
  <1> DEFINE n == job.op
             b == job.snapshot
  <1>1. job.at = "vault" /\ host' = host /\ journal' = journal
    BY DEF WriteVault, HandlerStep
  <1>2. /\ host = "up" /\ n \in Ops /\ Undecided = {n} /\ journal[n].snapshot = b
        /\ journal[n].phase \in PreCommit /\ b.target # NoVault
        /\ b.cookies = {} => b.target = b.previous
        /\ vault \in {b.previous, b.target}
        /\ pending.op = n /\ pending.full = TRUE /\ pending.confirmed = FALSE
        /\ \A m \in Ops : m # n => journal[m].phase \in Terminal
    BY <1>1, CommittingFacts DEF Committing
  <1>3. PICK next \in {"commit", "revert", "classify"} :
           /\ Continue([job EXCEPT !.at = next])
           /\ vault' \in {vault, b.target}
           /\ next # "revert" => vault' = b.target
    <2>1. CASE vault' = vault /\ b.cookies = {} /\ Continue([job EXCEPT !.at = "commit"])
      BY <1>2, <2>1
    <2>2. CASE vault' = b.target /\ Continue([job EXCEPT !.at = "commit"])
      BY <2>2
    <2>3. CASE vault' = vault /\ Continue([job EXCEPT !.at = "revert"])
      BY <2>3
    <2>4. CASE vault' = b.target /\ Continue([job EXCEPT !.at = "classify"])
      BY <2>4
    <2> QED BY <2>1, <2>2, <2>3, <2>4 DEF WriteVault
  <1>4. /\ job'.at = next /\ job'.op = n /\ job'.snapshot = b /\ job'.reply = job.reply
        /\ pending' = pending /\ out' = NoMessage
    BY <1>3, NextStep DEF Continue, IInv
  <1> HIDE DEF n, b
  <1>5. Ops' = Ops /\ Undecided' = {n}
    BY <1>1, <1>2 DEF Ops, Undecided
  <1>6. UndecidedInv'
    <2>1. ASSUME NEW m \in Undecided' PROVE Guarded(m)'
      BY <1>2, <1>3, <1>4, <1>5, <2>1 DEF Guarded, Committing
    <2> QED BY <1>1, <1>2, <1>3, <1>5, <2>1 DEF UndecidedInv
  <1>7. CommitInv' /\ HandlerInv'
    BY <1>1, <1>2, <1>3, <1>4, <1>5 DEF CommitInv, HandlerInv, Committing, VInv
  <1>8. KeptInv'
    <2>1. \A m \in Ops : journal[m].phase \notin Durable
      BY <1>2 DEF PreCommit, Durable, Terminal
    <2> QED BY <1>1, <1>5, <2>1 DEF KeptInv, DurableObjectKept, DurableObjectInVault
  <1>9. RefersInv' /\ RestoreInv'
    <2>1. Refers(pending)' /\ Restorable(pending)'
      BY <1>1, <1>2, <1>4, <1>5 DEF Refers, Restorable
    <2> QED BY <1>3, <1>4, <2>1, EmptyFields DEF RefersInv, RestoreInv
  <1> QED BY <1>1, <1>2, <1>6, <1>7, <1>8, <1>9, Serving

\* The vault of an invalidated session is deleted: nothing is undecided, and an orderly
\* client asks for it only when nothing is unresolved.
LEMMA DeleteKeeps == ASSUME IInv, VInv, DeleteVault PROVE VInv'
  <1>1. job.at = "delete" /\ host = "up" /\ host' = "up" /\ journal' = journal
    BY JobUp DEF DeleteVault, HandlerStep
  <1>2. Undecided = {}
    BY <1>1, NothingUndecided DEF Committing
  <1>3. /\ pending = NoPending /\ job.ok = NoPending /\ job.err = NoPending
        /\ OrderlyClient => Unresolved = {}
    BY <1>1 DEF VInv, HandlerInv
  <1>4. CASE vault' = vault /\ Fail(pending)
    BY <1>1, <1>4, WriteFailed
  <1>5. CASE vault' = NoVault /\ Continue([job EXCEPT !.at = "lease"])
    <2>1. /\ job'.at = "lease" /\ job'.ok = NoPending /\ job'.err = NoPending
          /\ job'.reply = job.reply /\ pending' = NoPending /\ out' = NoMessage
      BY <1>3, <1>5, NextStep DEF Continue, IInv
    <2>2. Ops' = Ops /\ Undecided' = {}
      BY <1>1, <1>2 DEF Ops, Undecided
    <2>3. UndecidedInv'
      BY <2>2 DEF UndecidedInv
    <2>4. CommitInv' /\ HandlerInv'
      BY <2>1 DEF CommitInv, HandlerInv, Committing, VInv
    <2>5. KeptInv'
      <3>1. OrderlyClient => \A m \in Ops : journal[m].phase \notin Durable
        BY <1>3 DEF Unresolved, Durable, Terminal
      <3> QED BY <1>1, <1>5, <2>2, <3>1 DEF KeptInv, DurableObjectKept, DurableObjectInVault
    <2>6. (Refers(NoPending) /\ Restorable(NoPending))'
      BY EmptyFields DEF Refers, Restorable, Ops
    <2>7. RefersInv' /\ RestoreInv'
      BY <2>1, <2>6, EmptyFields DEF RefersInv, RestoreInv
    <2> QED BY <1>1, <2>3, <2>4, <2>5, <2>7, Serving
  <1> QED BY <1>4, <1>5 DEF DeleteVault

\* The lease write and the audit append.
LEMMA ClosingKeeps == ASSUME IInv, VInv, PersistLease \/ RecordAudit PROVE VInv'
  <1>1. /\ job.at \in {"lease", "audit"} /\ host = "up" /\ host' = "up"
        /\ journal' = journal /\ vault' = vault
    BY JobUp DEF PersistLease, RecordAudit, HandlerStep, disk
  <1>2. job.reply.type # "Authorized" /\ Refers(pending) /\ (OrderlyClient => Restorable(pending))
    BY DEF VInv, HandlerInv, RefersInv, RestoreInv
  <1>3. CASE RecordAudit
    <2>1. Undecided = {}
      BY <1>1, <1>3, NothingUndecided DEF RecordAudit, Committing
    <2>2. CASE Fail(pending)
      BY <1>1, <2>2, WriteFailed
    <2>3. CASE Return(pending, job.reply)
      BY <1>1, <1>2, <2>1, <2>3, Answered
    <2> QED BY <1>3, <2>2, <2>3 DEF RecordAudit
  <1>4. CASE PersistLease
    <2>1. job.at = "lease"
      BY <1>4 DEF PersistLease
    <2>2. /\ Refers(job.ok) /\ Refers(job.err)
          /\ OrderlyClient => Restorable(job.ok) /\ Restorable(job.err)
      BY <2>1 DEF VInv, RefersInv, RestoreInv
    <2>3. \/ Undecided = {}
          \/ /\ job.ok = pending /\ job.err = pending
             /\ job.reply.type \in {"HandshakeAck", "InjectResultHandled"}
      BY <1>1, <2>1 DEF VInv, UndecidedInv, Guarded
    <2>4. CASE Fail(job.err)
      BY <1>1, <2>2, <2>3, <2>4, Answered, EmptyFields DEF Fail
    <2>5. CASE Return(job.ok, job.reply)
      BY <1>1, <1>2, <2>2, <2>3, <2>5, Answered
    <2>6. ASSUME NEW next \in {"removal", "audit"}, job' = [job EXCEPT !.at = next],
                 pending' = job.ok, out' = NoMessage,
                 job.reply.type \in {"Confirmed", "InjectGrant", "Invalidated"}
          PROVE  VInv'
      <3>1. job'.at = next /\ job'.reply = job.reply /\ job'.ok = job.ok /\ job'.err = job.err
        BY <2>6, NextStep DEF IInv
      <3>2. CommitInv' /\ HandlerInv'
        BY <1>2, <3>1 DEF CommitInv, HandlerInv, Committing
      <3>3. Undecided = {}
        BY <2>3, <2>6
      <3> QED BY <1>1, <2>2, <2>6, <3>1, <3>2, <3>3, Started
    <2> QED BY <1>4, <2>4, <2>5, <2>6 DEF PersistLease
  <1> QED BY <1>3, <1>4

\* The invariant of vault and journal holds initially and is kept by every step.
LEMMA VInvInit == Init => VInv
  <1> SUFFICES ASSUME Init PROVE VInv
    OBVIOUS
  <1>1. /\ Ops = {} /\ host = "down" /\ job = NoJob /\ pending = NoPending /\ out = NoMessage
    BY DEF Init, Ops
  <1>2. RestInv /\ StartInv /\ CommitInv /\ HandlerInv
    BY <1>1, EmptyFields DEF RestInv, StartInv, CommitInv, HandlerInv, Committing
  <1>3. UndecidedInv /\ KeptInv
    BY <1>1 DEF UndecidedInv, Undecided, KeptInv, DurableObjectKept, DurableObjectInVault
  <1>4. RefersInv /\ RestoreInv
    BY <1>1, EmptyRefers, EmptyFields DEF RefersInv, RestoreInv
  <1> QED BY <1>2, <1>3, <1>4 DEF VInv

\* The invariant is kept by every step.
LEMMA VInvStep == IInv /\ VInv /\ [Next]_vars => VInv'
  <1> SUFFICES ASSUME IInv, VInv, [Next]_vars PROVE VInv'
    OBVIOUS
  <1>1. CASE UNCHANGED vars
    BY <1>1 DEF vars, disk, memory, VInv, RestInv, StartInv, UndecidedInv, Guarded, CommitInv,
                HandlerInv, RefersInv, Refers, KeptInv, DurableObjectKept, DurableObjectInVault,
                RestoreInv, Restorable, Undecided, Unresolved, Ops
  <1>2. CASE Write
    BY <1>2, BeginKeeps, BindKeeps, CommitKeeps, VaultWriteKeeps, RemovalPendingKeeps, FinishKeeps,
       DeleteKeeps, ClosingKeeps, CloseKeeps
    DEF Write
  <1> QED BY <1>1, <1>2, ProcessKeeps, HandleKeeps DEF Next

\* Both invariants hold in every reachable state.
LEMMA VaultInvariant == Spec => [](IInv /\ VInv)
  BY IInvInit, IInvStep, VInvInit, VInvStep, PTL DEF Spec

\* An interrupted commit can be decided from the object on disk (CommitClassifiable), with
\* any client and any number of failing writes: recover_vault_phase never has to give up.
THEOREM CommitsDecidable == Spec => []CommitClassifiable
  <1>1. IInv /\ VInv => CommitClassifiable
    <2> SUFFICES ASSUME VInv, NEW n \in Ops, journal[n].phase \in PreCommit,
                        journal[n].snapshot # NoSnapshot
                 PROVE  ClassifyVault(journal[n].phase, journal[n].snapshot, vault)
                           # "ReconciliationRequired"
      BY DEF CommitClassifiable
    <2>1. n \in Undecided
      BY DEF Undecided
    <2>2. /\ vault \in {journal[n].snapshot.previous, journal[n].snapshot.target}
          /\ journal[n].snapshot.target # NoVault
      BY <2>1 DEF VInv, UndecidedInv
    <2>3. CASE vault = NoVault
      BY <2>2, <2>3 DEF ClassifyVault, ClassifyObject
    <2>4. CASE vault # NoVault
      BY <2>2, <2>4 DEF ClassifyVault, ClassifyObject
    <2> QED BY <2>3, <2>4
  <1> QED BY <1>1, VaultInvariant, PTL

\* The object a waiting operation committed is never replaced by another one
\* (DurableObjectKept), with any client and any number of failing writes.
THEOREM CommittedObjectKept == Spec => []DurableObjectKept
  <1>1. VInv => DurableObjectKept
    BY DEF VInv, KeptInv
  <1> QED BY <1>1, VaultInvariant, PTL

\* With an orderly client the vault holds the object of the operation that waits for the
\* browser (DurableObjectInVault), with any number of failing writes.
THEOREM CommittedObjectInVault ==
    ASSUME OrderlyClient = TRUE
    PROVE  Spec => []DurableObjectInVault
  <1>1. VInv => DurableObjectInVault
    BY DEF VInv, KeptInv
  <1> QED BY <1>1, VaultInvariant, PTL

\* With an orderly client a removal is authorized only while the vault holds the object of
\* the authorized operation (AuthorizedObjectInVault), with any number of failing writes.
THEOREM RemovalHasObject ==
    ASSUME OrderlyClient = TRUE
    PROVE  Spec => []AuthorizedObjectInVault
  <1>1. VInv => AuthorizedObjectInVault
    BY DEF VInv, RestoreInv, AuthorizedObjectInVault
  <1> QED BY <1>1, VaultInvariant, PTL

-----------------------------------------------------------------------------
(* The lease projection.  Without I/O errors a lease write fails only in   *)
(* the way of a temporary file that a crash left behind, once and as the   *)
(* first lease write of the process; ProjectionInv says what the metadata  *)
(* tells of the vault and of the journal then, in memory and in the file.  *)

Active(l) == l.state \in {"Sealed", "Leased"}

\* The vault is the one that the metadata tells of.
Fits(l) == VaultExists /\ l.vseq = vault.seq

\* The pending operation of the metadata has completed.
Completes(l) == l.op \in Ops /\ journal[l.op].phase = "Completed"

Waiting == {n \in Ops : journal[n].phase \in Durable}

BeginReplies == {"SnapshotRequired", "EnrollGrant"}
Beginning == job.at = "lease" /\ job.reply.type \in BeginReplies
Confirming == job.at = "lease" /\ job.reply.type = "Confirmed"
Invalidating == job.at = "lease" /\ job.reply.type = "Invalidated"

\* A confirmed pending operation has committed.
Confirmed(p) == p.confirmed = TRUE => p.op \in Waiting

\* What the steps before the lease write know of the metadata to write.
LeaseJobInv ==
    /\ job.at \in {"begin", "close"} =>
          /\ job.lease.state = "Evicting" /\ job.lease.op = job.op
          /\ job.lease.vseq = mlease.vseq
          /\ job.reply.type \in BeginReplies /\ job.ok.confirmed = FALSE
          /\ job.op \in Ops => journal[job.op].phase # "Completed"
    /\ job.at = "delete" =>
          /\ job.lease.state = "Uninitialized" /\ job.lease.op = 0
          /\ job.reply.type = "Invalidated"
    /\ job.at = "finish" =>
          /\ job.op \in Ops
          /\ job.lease.state # "Absent" /\ job.lease.vseq = mlease.vseq
          /\ job.ok = NoPending /\ job.err \in {NoPending, pending}
          /\ job.reply.type \notin {"Confirmed", "Invalidated"} \cup BeginReplies
          /\ Active(job.lease) => job.phase = "Completed" /\ Fits(job.lease)
          /\ IF job.phase = "Completed" THEN job.lease.op = 0 /\ job.op \in Waiting
             ELSE ~Completes(job.lease)
    /\ job.at = "lease" =>
          /\ job.lease.state # "Absent"
          /\ ~Completes(job.lease)
          /\ Active(job.lease) => Unresolved = {} /\ Fits(job.lease)
          /\ \A n \in Waiting : job.lease.vseq = journal[n].snapshot.target.seq

\* A confirmed operation has committed; it is the pending one until its result is written.
ConfirmedInv ==
    /\ job.at # "lease" => Confirmed(pending)
    /\ job.at = "lease" => Confirmed(job.ok) /\ ("lease" \in tmp => Confirmed(job.err))

\* What the metadata in memory tells, once the group is served.
MemoryInv ==
    host = "up" =>
       /\ mlease.state # "Absent"
       /\ Completes(mlease) => job.at = "lease"
       /\ Active(mlease) => Unresolved = {} \/ Beginning
       /\ Active(mlease) => Fits(mlease) \/ Invalidating
       /\ \A n \in Waiting : Confirming \/ mlease.vseq = journal[n].snapshot.target.seq

\* What startup has loaded and found.
LoadedInv ==
    /\ host \in {"recovering", "repairing"} =>
          /\ mlease = lease
          /\ Unresolved # {} => boot.need
          /\ Active(lease) => VaultExists
          /\ boot.committed \in Waiting \cup {0}
    /\ host = "recovering" => Waiting \subseteq boot.todo \cup {boot.committed}
    /\ host = "repairing" => Waiting \subseteq {boot.committed}

\* Metadata that shows the group as protected and awaits no repair tells of the vault, or of
\* the one that an undecided commit would replace.
BaseInv ==
    Active(lease) /\ VaultExists /\ ~Completes(lease) /\ Waiting = {} =>
       /\ Undecided = {} => lease.vseq = vault.seq
       /\ \A n \in Undecided : lease.vseq = journal[n].snapshot.previous.seq

\* What the metadata file tells.
FileInv ==
    /\ BaseInv
    /\ host \notin {"down", "loading"} \/ VaultExists => lease.state # "Absent"
    /\ Completes(lease) =>
          /\ Unresolved = {} /\ vault = journal[lease.op].snapshot.target /\ VaultExists
          /\ host = "up" => job.at = "lease" /\ job.lease.op = 0 /\ "lease" \notin tmp
    /\ host = "up" =>
          /\ "lease" \in tmp => lease = mlease /\ (Unresolved = {} \/ Beginning)
          /\ Active(lease) => Waiting = {} \/ Confirming
          /\ Active(lease) /\ ~VaultExists => Unresolved = {} \/ Beginning

\* A committed operation has an object.
ObjectInv == \A n \in Waiting : journal[n].snapshot.target # NoVault

ProjectionInv ==
    LeaseJobInv /\ ConfirmedInv /\ MemoryInv /\ LoadedInv /\ FileInv /\ ObjectInv

\* No write fails by an I/O error, no session is invalidated while an operation is
\* unresolved, and no id of a completed operation is used again.
Calm == MaxFaults = 0 /\ OrderlyClient = TRUE /\ FreshIds = TRUE

\* Without I/O errors a write fails only by a temporary file that is in its way.
LEMMA FailsByTemporary ==
    ASSUME Calm, IInv
    PROVE  /\ ~IOError
           /\ \A file : WriteFails(file) => file \in tmp /\ tmp' = tmp \ {file}
  BY DEF Calm, IInv, TypeOK, IOError, WriteFails

\* What only reads the journal and the vault is unchanged with them.
LEMMA SameProjection ==
    ASSUME journal' = journal
    PROVE  /\ Ops' = Ops /\ Unresolved' = Unresolved /\ Undecided' = Undecided
           /\ Waiting' = Waiting
  BY DEF Ops, Unresolved, Undecided, Waiting

\* A committed operation is unresolved and decided.
LEMMA WaitingUnresolved ==
    /\ Waiting \subseteq Unresolved /\ Undecided \subseteq Unresolved
    /\ Waiting \cap Undecided = {}
    /\ Waiting \subseteq Ops /\ Undecided \subseteq Ops /\ Unresolved \subseteq Ops
  BY DEF Waiting, Unresolved, Undecided, Durable, PreCommit, Terminal

\* What the metadata tells outside of a lease write.
LEMMA AtWork ==
    ASSUME ProjectionInv, host = "up", job.at # "lease"
    PROVE  /\ mlease.state # "Absent" /\ lease.state # "Absent"
           /\ ~Completes(mlease) /\ ~Completes(lease)
           /\ Active(mlease) => Unresolved = {} /\ Fits(mlease)
           /\ \A n \in Waiting : mlease.vseq = journal[n].snapshot.target.seq
           /\ "lease" \in tmp => lease = mlease /\ Unresolved = {}
           /\ Active(lease) => Waiting = {} /\ (~VaultExists => Unresolved = {})
           /\ Confirmed(pending)
  BY DEF ProjectionInv, MemoryInv, FileInv, ConfirmedInv, Beginning, Confirming, Invalidating

\* A step that leaves the vault and the metadata, and resolves or keeps the operations.
LEMMA JobProjects ==
    ASSUME ProjectionInv, host = "up", host' = "up", job.at # "lease",
           UNCHANGED <<lease, vault, mlease>>, tmp' \subseteq tmp,
           Ops' = Ops, Unresolved' \subseteq Unresolved, Waiting' \subseteq Waiting,
           \A m \in Waiting' : journal'[m].snapshot = journal[m].snapshot,
           \A m \in Ops : journal'[m].phase = "Completed" => journal[m].phase = "Completed",
           BaseInv', LeaseJobInv', ConfirmedInv'
    PROVE  ProjectionInv'
  <1>1. ~Completes(mlease)' /\ ~Completes(lease)'
    BY AtWork DEF Completes
  <1>2. MemoryInv'
    BY <1>1, AtWork DEF MemoryInv, Active, Fits, VaultExists
  <1>3. FileInv'
    BY <1>1, AtWork DEF FileInv, Active, VaultExists
  <1>4. LoadedInv' /\ ObjectInv'
    BY DEF ProjectionInv, LoadedInv, ObjectInv
  <1> QED BY <1>2, <1>3, <1>4 DEF ProjectionInv

\* A step that leaves the journal as well: only its job and a temporary file are new.
LEMMA HandlerProjects ==
    ASSUME ProjectionInv, host = "up", host' = "up", job.at # "lease",
           UNCHANGED <<journal, lease, vault, mlease>>, tmp' \subseteq tmp,
           LeaseJobInv', ConfirmedInv'
    PROVE  ProjectionInv'
  <1>1. BaseInv'
    BY SameProjection DEF ProjectionInv, FileInv, BaseInv, Active, VaultExists, Completes
  <1> QED BY <1>1, SameProjection, JobProjects

\* A handler that answers without a write.
LEMMA AnswerProjects ==
    ASSUME ProjectionInv, host = "up", host' = "up", job.at # "lease",
           UNCHANGED <<journal, lease, vault, mlease>>, tmp' \subseteq tmp,
           NEW pend, NEW message, Return(pend, message), Confirmed(pend)
    PROVE  ProjectionInv'
  <1>1. job'.at = "idle" /\ pending' = pend /\ journal' = journal
    BY EmptyFields DEF Return
  <1>2. LeaseJobInv'
    BY <1>1 DEF LeaseJobInv
  <1>3. ConfirmedInv'
    BY <1>1, SameProjection DEF ConfirmedInv, Confirmed
  <1> QED BY <1>2, <1>3, HandlerProjects

\* A handler that goes on with the lease write.
LEMMA LeasingProjects ==
    ASSUME ProjectionInv, host = "up", host' = "up", job.at # "lease",
           UNCHANGED <<journal, lease, vault, mlease>>, tmp' \subseteq tmp,
           NEW next, NEW ok, NEW err, job'.at = "lease", job'.lease = next, job'.ok = ok,
           job'.err = err, next.state # "Absent", ~Completes(next),
           Active(next) => Unresolved = {} /\ Fits(next),
           \A n \in Waiting : next.vseq = journal[n].snapshot.target.seq,
           Confirmed(ok), Confirmed(err)
    PROVE  ProjectionInv'
  <1>2. LeaseJobInv'
    BY SameProjection DEF LeaseJobInv, Active, Completes, Fits, VaultExists
  <1>3. ConfirmedInv'
    BY SameProjection DEF ConfirmedInv, Confirmed
  <1> QED BY <1>2, <1>3, HandlerProjects

\* A handler that goes on with another write.
LEMMA StartingProjects ==
    ASSUME ProjectionInv, host = "up", host' = "up", job.at # "lease",
           UNCHANGED <<journal, lease, vault, mlease>>, tmp' \subseteq tmp,
           job'.at # "lease", LeaseJobInv', NEW pend, pending' = pend, Confirmed(pend)
    PROVE  ProjectionInv'
  <1>1. ConfirmedInv'
    BY SameProjection DEF ConfirmedInv, Confirmed
  <1> QED BY <1>1, HandlerProjects

\* The frame of a handler: it starts from an idle process and leaves the disk and the metadata.
HandlerFrame == Idle /\ host' = host /\ UNCHANGED <<disk, mlease>>

\* A handler works outside of a lease write.
LEMMA AtIdle ==
    ASSUME HandlerFrame
    PROVE  /\ host = "up" /\ host' = "up" /\ job.at # "lease"
           /\ UNCHANGED <<journal, lease, vault, mlease>> /\ tmp' \subseteq tmp
  BY DEF HandlerFrame, Idle, disk

-----------------------------------------------------------------------------
(* Handlers and the projection.                                            *)

\* Replacing fields of the metadata keeps the others.
LEMMA LeaseFields ==
    ASSUME IInv
    PROVE  /\ mlease \in LeaseMetadata
           /\ DOMAIN mlease = {"state", "id", "op", "vseq", "floor", "hw"}
  BY DEF IInv, TypeOK, LeaseMetadata

\* Handshakes, leases and their failures.
LEMMA LeaseHandlersProject ==
    ASSUME Calm, IInv, VInv, ProjectionInv,
           \/ Handshake6 \/ Handshake7 \/ GrantEnrollment7 \/ BeginInject \/ InjectFailed
           \/ SessionInvalidate
    PROVE  ProjectionInv'
  <1>1. HandlerFrame
    BY DEF HandlerFrame, Handshake6, Handshake7, GrantEnrollment7, BeginInject, InjectFailed, LeaseAllowed,
           SessionInvalidate, HandlerKeeps, Ready
  <1>2. Confirmed(NoPending)
    BY EmptyFields DEF Confirmed
  <1>3. ASSUME NEW message, Return(pending, message) PROVE ProjectionInv'
    BY <1>1, <1>3, AtIdle, AtWork, AnswerProjects
  <1>4. CASE Handshake6
    BY <1>3, <1>4 DEF Handshake6
  <1>5. CASE Handshake7
    <2> DEFINE next == [mlease EXCEPT !.floor = 7, !.hw = Len(journal)]
               ack == Msg("HandshakeAck", 0, TRUE)
    <2>1. CASE Continue(LeaseJob(next, pending, pending, ack))
      <3>1. job'.at = "lease" /\ job'.lease = next /\ job'.ok = pending /\ job'.err = pending
        BY <2>1 DEF Continue, LeaseJob, NoJob
      <3>2. next.state = mlease.state /\ next.op = mlease.op /\ next.vseq = mlease.vseq
        BY LeaseFields
      <3> HIDE DEF next
      <3>3. ~Completes(next) /\ (Active(next) => Active(mlease)) /\ (Fits(mlease) => Fits(next))
        BY <1>1, <3>2, AtIdle, AtWork DEF Completes, Active, Fits
      <3> QED BY <1>1, <3>1, <3>2, <3>3, AtIdle, AtWork, LeasingProjects
    <2> QED BY <1>3, <1>5, <2>1 DEF Handshake7
  <1>6. CASE InjectFailed
    <2> DEFINE next == [mlease EXCEPT !.state = "Degraded"]
               reply == Msg("InjectResultHandled", 0, FALSE)
    <2>1. CASE Continue(LeaseJob(next, pending, pending, reply))
      <3>1. job'.at = "lease" /\ job'.lease = next /\ job'.ok = pending /\ job'.err = pending
        BY <2>1 DEF Continue, LeaseJob, NoJob
      <3>2. next.state = "Degraded" /\ next.op = mlease.op /\ next.vseq = mlease.vseq
        BY LeaseFields
      <3> HIDE DEF next
      <3>3. ~Completes(next) /\ ~Active(next)
        BY <1>1, <3>2, AtIdle, AtWork DEF Completes, Active
      <3> QED BY <1>1, <3>1, <3>2, <3>3, AtIdle, AtWork, LeasingProjects
    <2> QED BY <1>3, <1>6, <2>1 DEF InjectFailed
  <1>7. ASSUME NEW next, NEW reply, Unresolved = {}, next.state # "Absent", ~Completes(next),
               Active(next) => Fits(next), Continue(LeaseJob(next, NoPending, NoPending, reply))
        PROVE  ProjectionInv'
    <2>1. job'.at = "lease" /\ job'.lease = next /\ job'.ok = NoPending /\ job'.err = NoPending
      BY <1>7 DEF Continue, LeaseJob, NoJob
    <2>2. Waiting = {}
      BY <1>7, WaitingUnresolved
    <2> QED BY <1>1, <1>2, <1>7, <2>1, <2>2, AtIdle, LeasingProjects
  <1>8. 0 \notin Ops
    BY DEF Ops
  <1>9. CASE GrantEnrollment7
    <2> DEFINE next == [mlease EXCEPT !.id = lastLease']
    <2>1. /\ Unresolved = {}
          /\ Continue(LeaseJob(next, NoPending, NoPending, Msg("EnrollGrant", 0, TRUE)))
      BY <1>9 DEF GrantEnrollment7, LeaseAllowed, NothingPending, has_unresolved
    <2>2. next.state = mlease.state /\ next.op = mlease.op /\ next.vseq = mlease.vseq
      BY LeaseFields
    <2> HIDE DEF next
    <2>3. ~Completes(next) /\ (Active(next) => Active(mlease)) /\ (Fits(mlease) => Fits(next))
      BY <1>1, <2>2, AtIdle, AtWork DEF Completes, Active, Fits
    <2> QED BY <1>1, <1>7, <2>1, <2>2, <2>3, AtIdle, AtWork
  <1>10. CASE BeginInject
    <2> DEFINE next == [mlease EXCEPT !.state = "Leased", !.id = lastLease', !.op = 0,
                                      !.vseq = vault.seq]
    <2>1. /\ Unresolved = {} /\ VaultExists
          /\ Continue(LeaseJob(next, NoPending, NoPending, Msg("InjectGrant", 0, TRUE)))
      BY <1>10 DEF BeginInject, LeaseAllowed, NothingPending, has_unresolved
    <2>2. next.state = "Leased" /\ next.op = 0 /\ next.vseq = vault.seq
      BY LeaseFields
    <2> HIDE DEF next
    <2>3. ~Completes(next) /\ Fits(next)
      BY <1>8, <2>1, <2>2 DEF Completes, Fits
    <2> QED BY <1>7, <2>1, <2>2, <2>3
  <1>11. CASE SessionInvalidate
    <2> DEFINE next == [mlease EXCEPT !.state = "Uninitialized", !.id = 0, !.op = 0, !.vseq = 0]
    <2>1. /\ job'.at = "delete" /\ job'.lease = next /\ job'.reply.type = "Invalidated"
          /\ pending' = pending
      BY <1>11 DEF SessionInvalidate, Continue, LeaseJob, NoJob, Msg
    <2>2. next.state = "Uninitialized" /\ next.op = 0
      BY LeaseFields
    <2> HIDE DEF next
    <2>3. LeaseJobInv'
      BY <2>1, <2>2 DEF LeaseJobInv
    <2> QED BY <1>1, <2>1, <2>3, AtIdle, AtWork, StartingProjects
  <1> QED BY <1>4, <1>5, <1>6, <1>9, <1>10, <1>11

\* Beginning an operation, of either protocol.
LEMMA BeginHandlersProject ==
    ASSUME Calm, IInv, VInv, ProjectionInv,
           \/ BeginEnrollment6
           \/ \E n \in 1 .. MaxOps, reason \in Reasons : EvictBegin6(n, reason)
           \/ \E a \in Attempts, kind \in OperationKind : OperationBegin7(a, kind)
    PROVE  ProjectionInv'
  <1>1. HandlerFrame
    BY DEF HandlerFrame, BeginEnrollment6, EvictBegin6, OperationBegin7, LeaseAllowed, HandlerKeeps, Ready
  <1>2. ASSUME job'.at \in {"begin", "close"}, job'.lease.state = "Evicting",
               job'.lease.op = job'.op, job'.lease.vseq = mlease.vseq,
               job'.reply.type \in BeginReplies, job'.ok.confirmed = FALSE, pending' = pending,
               NEW n, job'.op = n, n \in Ops => journal[n].phase # "Completed"
        PROVE  ProjectionInv'
    <2>1. mlease' = mlease /\ journal' = journal
      BY <1>1 DEF HandlerFrame, disk
    <2>2. Ops' = Ops
      BY <2>1, SameProjection
    <2>3. LeaseJobInv'
      BY <1>2, <2>1, <2>2 DEF LeaseJobInv
    <2> QED BY <1>1, <1>2, <2>3, AtIdle, AtWork, StartingProjects
  <1>3. Len(journal) + 1 \notin Ops
    BY OpsTyped DEF Ops, IInv
  <1>4. CASE BeginEnrollment6
    <2> DEFINE n == Len(journal) + 1
               next == [mlease EXCEPT !.state = "Evicting", !.id = lastLease', !.op = n]
    <2>1. Continue(BeginJob(n, "Enrollment", NoAttempt, lastLease', "other", next,
                            Msg("EnrollGrant", n, TRUE)))
      BY <1>4 DEF BeginEnrollment6
    <2>2. next.state = "Evicting" /\ next.op = n /\ next.vseq = mlease.vseq
      BY LeaseFields
    <2> HIDE DEF next, n
    <2>3. /\ job'.at = "begin" /\ job'.op = n /\ job'.lease = next /\ job'.ok.confirmed = FALSE
          /\ job'.reply.type = "EnrollGrant" /\ pending' = pending
      BY <2>1 DEF Continue, BeginJob, NoJob, Msg, NewPending
    <2> QED BY <1>2, <1>3, <2>2, <2>3 DEF BeginReplies, n
  <1>5. ASSUME NEW n \in 1 .. MaxOps, NEW reason \in Reasons, EvictBegin6(n, reason)
        PROVE  ProjectionInv'
    <2> DEFINE next == [mlease EXCEPT !.state = "Evicting", !.op = n]
    <2>1. n \in Ops => journal[n].phase # "Completed"
      BY <1>5 DEF EvictBegin6, Calm
    <2>2. next.state = "Evicting" /\ next.op = n /\ next.vseq = mlease.vseq
      BY LeaseFields
    <2>3. /\ job'.at \in {"begin", "close"} /\ job'.op = n /\ job'.lease = next
          /\ job'.ok.confirmed = FALSE
          /\ job'.reply.type = "SnapshotRequired" /\ pending' = pending
      BY <1>5 DEF EvictBegin6, Continue, BeginJob, NoJob, Msg, NewPending
    <2> HIDE DEF next
    <2> QED BY <1>2, <2>1, <2>2, <2>3 DEF BeginReplies
  <1>6. ASSUME NEW a \in Attempts, NEW kind \in OperationKind, OperationBegin7(a, kind)
        PROVE  ProjectionInv'
    <2> DEFINE n == Len(journal) + 1
               next == [mlease EXCEPT !.state = "Evicting", !.op = n, !.hw = n]
    <2>1. Continue(BeginJob(n, kind, a, mlease.id, "other", next, Msg("SnapshotRequired", n, TRUE)))
      BY <1>6 DEF OperationBegin7
    <2>2. next.state = "Evicting" /\ next.op = n /\ next.vseq = mlease.vseq
      BY LeaseFields
    <2> HIDE DEF next, n
    <2>3. /\ job'.at = "begin" /\ job'.op = n /\ job'.lease = next /\ job'.ok.confirmed = FALSE
          /\ job'.reply.type = "SnapshotRequired" /\ pending' = pending
      BY <2>1 DEF Continue, BeginJob, NoJob, Msg, NewPending
    <2> QED BY <1>2, <1>3, <2>2, <2>3 DEF BeginReplies, n
  <1> QED BY <1>4, <1>5, <1>6

\* Status queries and repeated begins.
LEMMA QueryHandlersProject ==
    ASSUME ProjectionInv, NEW n \in Ops, OperationReplay7(n) \/ OperationStatus7(n)
    PROVE  ProjectionInv'
  <1>1. HandlerFrame
    BY DEF HandlerFrame, OperationReplay7, OperationStatus7, HandlerKeeps, Ready
  <1>2. ASSUME NEW message, Return(pending, message) PROVE ProjectionInv'
    BY <1>1, <1>2, AtIdle, AtWork, AnswerProjects
  <1>3. CASE OperationReplay7(n)
    BY <1>2, <1>3 DEF OperationReplay7
  <1>4. CASE OperationStatus7(n)
    <2> DEFINE new == [op |-> n, confirmed |-> journal[n].phase \in Durable,
                       counted |-> journal[n].snapshot # NoSnapshot, full |-> FALSE]
    <2>1. Confirmed(new)
      BY DEF Confirmed, Waiting
    <2>2. CASE Return(new, Msg("Status", n, TRUE))
      <3> HIDE DEF new
      <3> QED BY <1>1, <2>1, <2>2, AtIdle, AnswerProjects
    <2> QED BY <1>2, <1>4, <2>2 DEF OperationStatus7
  <1> QED BY <1>3, <1>4

\* A finish job of a handler: what its lease write will tell.
LEMMA FinishingProjects ==
    ASSUME ProjectionInv, HandlerFrame,
           NEW next, NEW n \in Ops, NEW pend, pending' = pend, Confirmed(pend),
           job'.at = "finish", job'.op = n, job'.lease = next, job'.ok = NoPending,
           job'.err \in {NoPending, pend}, job'.reply.type \in {"EmptyScope", "Completed", "None"},
           next.state # "Absent", next.vseq = mlease.vseq,
           Active(next) => job'.phase = "Completed" /\ Fits(next),
           IF job'.phase = "Completed" THEN next.op = 0 /\ n \in Waiting ELSE ~Completes(next)
    PROVE  ProjectionInv'
  <1>1. /\ journal' = journal /\ vault' = vault /\ mlease' = mlease
        /\ Ops' = Ops /\ Waiting' = Waiting
    BY SameProjection DEF HandlerFrame, disk
  <1>2. LeaseJobInv'
    BY <1>1 DEF LeaseJobInv, Active, Fits, VaultExists, Completes, BeginReplies
  <1> QED BY <1>2, AtIdle, StartingProjects

\* Snapshots, the removal precheck and the result of the removal.
LEMMA SnapshotHandlerProjects ==
    ASSUME IInv, VInv, ProjectionInv, NEW S \in SUBSET Cookies, Snapshot(S)
    PROVE  ProjectionInv'
  <1> DEFINE n == pending.op
             taken == [pending EXCEPT !.full = TRUE]
             next == [mlease EXCEPT !.state = "Uninitialized", !.id = 0, !.op = 0]
             empty == journal[n].kind = "Enrollment" /\ S = {}
             nothing == S = {} /\ ~VaultExists
  <1>1. HandlerFrame /\ n # 0
    BY DEF HandlerFrame, Snapshot, Addressed, Ready, HandlerKeeps
  <1>2. n \in Ops
    BY <1>1 DEF VInv, RefersInv, Refers
  <1>3. taken.op = n /\ taken.confirmed = pending.confirmed
    BY DEF IInv, TypeOK, PendingOperation
  <1>4. Confirmed(taken) /\ Confirmed(NoPending)
    BY <1>1, <1>3, AtIdle, AtWork, EmptyFields DEF Confirmed
  <1>5. next.state = "Uninitialized" /\ next.op = 0 /\ next.vseq = mlease.vseq
    BY LeaseFields
  <1>6. CASE empty
    <2>1. /\ job' = [LeaseJob(next, NoPending, NoPending, Msg("EmptyScope", n, TRUE))
                     EXCEPT !.at = "finish", !.op = n, !.phase = "Aborted"]
          /\ pending' = NoPending
      BY <1>6 DEF Snapshot
    <2> HIDE DEF next, n
    <2>2. /\ job'.at = "finish" /\ job'.op = n /\ job'.lease = next /\ job'.ok = NoPending
          /\ job'.err = NoPending /\ job'.reply.type = "EmptyScope" /\ job'.phase = "Aborted"
      BY <2>1 DEF LeaseJob, NoJob, Msg
    <2>3. ~Active(next) /\ ~Completes(next)
      BY <1>5 DEF Active, Completes, Ops
    <2> QED BY <1>1, <1>2, <1>4, <1>5, <2>1, <2>2, <2>3, FinishingProjects
  <1>7. CASE ~empty /\ nothing
    <2>1. Fail(taken)
      BY <1>7 DEF Snapshot, SnapshotTaken
    <2> HIDE DEF taken
    <2> QED BY <1>1, <1>4, <2>1, AtIdle, AnswerProjects DEF Fail
  <1>8. CASE ~empty /\ ~nothing
    <2>1. job'.at = "bind" /\ pending' = taken
      BY <1>8 DEF Snapshot, SnapshotTaken, NoJob
    <2>2. LeaseJobInv'
      BY <2>1 DEF LeaseJobInv
    <2> HIDE DEF taken
    <2> QED BY <1>1, <1>4, <2>1, <2>2, AtIdle, StartingProjects
  <1> QED BY <1>6, <1>7, <1>8

\* Preparing the removal, and its precheck.
LEMMA RemovalHandlersProject ==
    ASSUME IInv, VInv, ProjectionInv,
           \/ RemovePrepare7
           \/ \E S \in SUBSET Cookies : RemovalSnapshot7(S)
    PROVE  ProjectionInv'
  <1> DEFINE n == pending.op
  <1>1. CASE RemovePrepare7
    <2> DEFINE p == [pending EXCEPT !.counted = FALSE, !.full = FALSE]
    <2>1. HandlerFrame /\ Return(p, NoMessage)
      BY <1>1 DEF HandlerFrame, RemovePrepare7, Addressed, Ready, HandlerKeeps
    <2>2. p.op = pending.op /\ p.confirmed = pending.confirmed
      BY DEF IInv, TypeOK, PendingOperation
    <2>3. Confirmed(p)
      BY <2>1, <2>2, AtIdle, AtWork DEF Confirmed
    <2> HIDE DEF p
    <2> QED BY <2>1, <2>3, AtIdle, AnswerProjects
  <1>2. ASSUME NEW S \in SUBSET Cookies, RemovalSnapshot7(S) PROVE ProjectionInv'
    <2> DEFINE taken == [pending EXCEPT !.full = TRUE]
               next == [mlease EXCEPT !.state = "Degraded"]
    <2>1. HandlerFrame /\ n # 0
      BY <1>2 DEF HandlerFrame, RemovalSnapshot7, Addressed, Ready, HandlerKeeps
    <2>2. n \in Ops
      BY <2>1 DEF VInv, RefersInv, Refers
    <2>3. taken.op = n /\ taken.confirmed = pending.confirmed
      BY DEF IInv, TypeOK, PendingOperation
    <2>4. Confirmed(taken)
      BY <2>1, <2>3, AtIdle, AtWork DEF Confirmed
    <2>5. next.state = "Degraded" /\ next.op = mlease.op /\ next.vseq = mlease.vseq
      BY LeaseFields
    <2>6. ASSUME NEW message, Return(taken, message) PROVE ProjectionInv'
      <3> HIDE DEF taken
      <3> QED BY <2>1, <2>4, <2>6, AtIdle, AnswerProjects
    <2>7. CASE /\ job' = [LeaseJob(next, NoPending, taken, Msg("Completed", n, FALSE))
                          EXCEPT !.at = "finish", !.op = n, !.phase = "ReconciliationRequired"]
               /\ pending' = taken
      <3> HIDE DEF next, n, taken
      <3>1. /\ job'.at = "finish" /\ job'.op = n /\ job'.lease = next /\ job'.ok = NoPending
            /\ job'.err = taken /\ job'.reply.type = "Completed"
            /\ job'.phase = "ReconciliationRequired"
        BY <2>7 DEF LeaseJob, NoJob, Msg
      <3>2. ~Active(next) /\ ~Completes(next)
        BY <2>1, <2>5, AtIdle, AtWork DEF Active, Completes
      <3> QED BY <2>1, <2>2, <2>4, <2>5, <2>7, <3>1, <3>2, FinishingProjects
    <2> QED BY <1>2, <2>6, <2>7 DEF RemovalSnapshot7, SnapshotTaken, Fail
  <1> QED BY <1>1, <1>2

\* The result of the removal: the committed object is the one the projection tells of.
LEMMA ResultHandlerProjects ==
    ASSUME Calm, IInv, VInv, ProjectionInv, NEW success, NEW remaining,
           EvictResult(success, remaining)
    PROVE  ProjectionInv'
  <1> DEFINE n == pending.op
             next(state) == [mlease EXCEPT !.state = state, !.op = 0]
             sealed == [mlease EXCEPT !.state = "Sealed", !.id = 0, !.op = 0]
  <1>1. /\ HandlerFrame /\ pending.confirmed
        /\ pending' = NoPending
    BY DEF HandlerFrame, EvictResult, Addressed, Ready, HandlerKeeps
  <1>2. n \in Waiting
    BY <1>1, AtIdle, AtWork DEF Confirmed, IInv, TypeOK, PendingOperation
  <1>3. n \in Ops /\ mlease.vseq = vault.seq /\ VaultExists
    <2>1. n \in Ops /\ journal[n].phase \in Durable
      BY <1>2 DEF Waiting
    <2>2. vault = journal[n].snapshot.target
      BY <2>1 DEF VInv, KeptInv, DurableObjectInVault, Calm
    <2>3. vault # NoVault
      BY <1>2, <2>2 DEF ProjectionInv, ObjectInv
    <2> QED BY <1>1, <1>2, <2>1, <2>2, <2>3, AtIdle, AtWork DEF VaultExists
  <1>4. /\ job'.at = "finish" /\ job'.op = n /\ job'.ok = NoPending /\ job'.err = NoPending
        /\ job'.reply.type \in {"Completed", "None"}
    BY DEF EvictResult, LeaseJob, NoJob, Msg, NoMessage
  <1>5. \/ job'.lease = sealed /\ job'.phase = "Completed"
        \/ job'.lease = next("Leased") /\ job'.phase = "Completed"
        \/ job'.lease = next("Degraded") /\ job'.phase = "ReconciliationRequired"
    BY DEF EvictResult, LeaseJob, NoJob
  <1>6. /\ job'.lease.op = 0 /\ job'.lease.vseq = mlease.vseq
        /\ job'.lease.state \in {"Sealed", "Leased", "Degraded"}
        /\ job'.lease.state \in {"Sealed", "Leased"} => job'.phase = "Completed"
    BY <1>5, LeaseFields
  <1> HIDE DEF n, next, sealed
  <1> DEFINE told == job'.lease
  <1>7. ~Completes(told) /\ (Active(told) => job'.phase = "Completed" /\ Fits(told))
    BY <1>3, <1>6 DEF Completes, Active, Fits, Ops
  <1>8. /\ told.op = 0 /\ told.vseq = mlease.vseq /\ told.state # "Absent" /\ job'.lease = told
    BY <1>6
  <1>9. Confirmed(NoPending)
    BY EmptyFields DEF Confirmed
  <1> HIDE DEF told
  <1> QED BY <1>1, <1>2, <1>3, <1>4, <1>7, <1>8, <1>9, FinishingProjects

\* Every handler keeps the invariant of the projection.
LEMMA HandleProjects ==
    ASSUME Calm, IInv, VInv, ProjectionInv, Handle
    PROVE  ProjectionInv'
  BY LeaseHandlersProject, BeginHandlersProject, QueryHandlersProject, SnapshotHandlerProjects,
     RemovalHandlersProject, ResultHandlerProjects
  DEF Handle

-----------------------------------------------------------------------------
(* Process life and the projection.                                        *)

\* The process ends and leaves the files as they are.
LEMMA EndedProjects ==
    ASSUME ProjectionInv, UNCHANGED <<journal, lease, vault>>, host' = "down", Fail(NoPending)
    PROVE  ProjectionInv'
  <1>1. job'.at = "idle" /\ pending'.confirmed = FALSE
    BY EmptyFields DEF Fail, Return
  <1>2. LeaseJobInv' /\ ConfirmedInv' /\ MemoryInv' /\ LoadedInv'
    BY <1>1 DEF LeaseJobInv, ConfirmedInv, Confirmed, MemoryInv, LoadedInv
  <1>3. FileInv' /\ ObjectInv'
    BY SameProjection
    DEF ProjectionInv, FileInv, BaseInv, ObjectInv, Active, Completes, VaultExists
  <1> QED BY <1>2, <1>3 DEF ProjectionInv

\* While the process starts there is no job.
LEMMA StartingQuiet ==
    ASSUME VInv, host # "up", UNCHANGED <<job, pending>>
    PROVE  LeaseJobInv' /\ ConfirmedInv'
  <1>1. job'.at = "idle" /\ pending'.confirmed = FALSE
    BY EmptyFields DEF VInv, RestInv
  <1> QED BY <1>1 DEF LeaseJobInv, ConfirmedInv, Confirmed

\* Loading the metadata: a missing vault resets it.
LEMMA LoadProjects ==
    ASSUME VInv, ProjectionInv, Load
    PROVE  ProjectionInv'
  <1>1. /\ journal' = journal /\ vault' = vault /\ host = "loading" /\ host' = "recovering"
        /\ lease' = LoadedLease /\ mlease' = LoadedLease /\ UNCHANGED <<job, pending>>
        /\ boot' = [todo |-> Unresolved, need |-> has_unresolved, committed |-> 0]
    BY DEF Load, LeaseWriteGoes
  <1>2. LeaseJobInv' /\ ConfirmedInv' /\ MemoryInv'
    BY <1>1, StartingQuiet DEF MemoryInv
  <1>3. VaultExists => lease.state # "Absent"
    BY DEF ProjectionInv, FileInv, BaseInv
  <1>4. CASE ~VaultExists /\ lease'.state = "Uninitialized" /\ lease'.op = 0
    <2>1. FileInv'
      BY <1>1, <1>4 DEF FileInv, BaseInv, Active, Completes, VaultExists, Ops
    <2>2. LoadedInv'
      BY <1>1, <1>4, SameProjection, WaitingUnresolved
      DEF LoadedInv, Active, VaultExists, has_unresolved
    <2> QED BY <1>1, <1>2, <2>1, <2>2, SameProjection DEF ProjectionInv, ObjectInv
  <1>5. CASE /\ lease' = lease /\ lease.state # "Absent"
             /\ VaultExists \/ lease.state = "Uninitialized"
    <2>1. FileInv'
      BY <1>1, <1>5, SameProjection DEF ProjectionInv, FileInv, BaseInv, Active, Completes, VaultExists
    <2>2. LoadedInv'
      BY <1>1, <1>5, SameProjection, WaitingUnresolved
      DEF LoadedInv, Active, VaultExists, has_unresolved
    <2> QED BY <1>1, <1>2, <2>1, <2>2, SameProjection DEF ProjectionInv, ObjectInv
  <1> QED BY <1>1, <1>3, <1>4, <1>5 DEF LoadedLease, InitialLease

\* What startup_recover makes of each kind of operation.
LEMMA StartupDecides ==
    ASSUME Calm, IInv, VInv, ProjectionInv, NEW n \in Ops
    PROVE  /\ StartupPhase(n) # "Completed"
           /\ n \in Waiting => StartupPhase(n) = journal[n].phase
           /\ n \in Undecided /\ StartupPhase(n) \notin Durable =>
                 vault = journal[n].snapshot.previous
           /\ StartupPhase(n) \in Durable /\ n \in Unresolved => n \in Waiting \cup Undecided
  <1> DEFINE o == journal[n]
             r == RecoveredPhase(o.phase, o.snapshot, vault)
  <1>1. r # "Completed" /\ StartupPhase(n) \in {r, "Aborted"}
    BY DEF StartupPhase, RecoveredPhase, ClassifyVault, Durable
  <1>2. ASSUME n \in Waiting PROVE StartupPhase(n) = o.phase
    <2>1. o.phase \in Durable /\ vault = o.snapshot.target /\ vault # NoVault
      BY <1>2 DEF Waiting, VInv, KeptInv, DurableObjectInVault, ProjectionInv, ObjectInv, Calm
    <2>2. r = o.phase
      BY <2>1 DEF RecoveredPhase, ClassifyVault, ClassifyObject
    <2>3. o.snapshot # NoSnapshot
      BY <2>1 DEF NoSnapshot
    <2>4. o.phase # "NotCommitted"
      BY <2>1 DEF Durable
    <2> QED BY <2>2, <2>3, <2>4 DEF StartupPhase
  <1>3. ASSUME n \in Undecided, StartupPhase(n) \notin Durable PROVE vault = o.snapshot.previous
    <2>1. /\ o.phase \in PreCommit /\ o.snapshot # NoSnapshot /\ o.snapshot.target # NoVault
          /\ vault \in {o.snapshot.previous, o.snapshot.target}
      BY <1>3 DEF Undecided, VInv, UndecidedInv
    <2>2. CASE vault = o.snapshot.target
      <3>1. r = "Committed"
        BY <2>1, <2>2
        DEF RecoveredPhase, ClassifyVault, ClassifyObject, PreCommit, Durable
      <3> QED BY <1>3, <2>1, <3>1 DEF StartupPhase, Durable
    <2> QED BY <2>1, <2>2
  <1>4. ASSUME StartupPhase(n) \in Durable, n \in Unresolved PROVE n \in Waiting \cup Undecided
    <2>1. o.snapshot # NoSnapshot
      BY <1>4 DEF StartupPhase, Durable
    <2>2. o.phase \in PreCommit \cup Durable
      BY <1>4, OpsTyped DEF IInv, Unresolved, Operation, OperationPhase
    <2> QED BY <2>1, <2>2 DEF Waiting, Undecided
  <1> QED BY <1>1, <1>2, <1>3, <1>4

\* Recovering one operation.
LEMMA RecoverProjects ==
    ASSUME Calm, IInv, VInv, ProjectionInv, NEW n \in Ops, Recover(n)
    PROVE  ProjectionInv'
  <1> DEFINE phase == StartupPhase(n)
  <1>1. /\ host = "recovering" /\ host' = host /\ vault' = vault /\ lease' = lease
        /\ mlease' = mlease /\ UNCHANGED <<job, pending>>
        /\ TransitionGoes(n, phase)
        /\ boot' = [boot EXCEPT !.todo = IF phase = "NotCommitted" THEN @ ELSE @ \ {n},
                                !.committed = IF phase \in Durable THEN n ELSE @]
    BY DEF Recover
  <1>2. /\ boot'.need = boot.need
        /\ boot'.todo = IF phase = "NotCommitted" THEN boot.todo ELSE boot.todo \ {n}
        /\ boot'.committed = IF phase \in Durable THEN n ELSE boot.committed
    BY <1>1 DEF IInv, TypeOK, Boot
  <1>3. /\ phase \in OperationPhase /\ phase # "Completed"
        /\ phase \in PreCommit => n \in Undecided
        /\ n \in Waiting => phase = journal[n].phase
        /\ n \in Undecided /\ phase \notin Durable => vault = journal[n].snapshot.previous
        /\ phase \in Durable /\ n \in Unresolved => n \in Waiting \cup Undecided
    BY StartupPhases, StartupDecides
  <1> HIDE DEF phase
  <1>4. /\ PhaseOnly(n, phase)
        /\ journal[n].phase = phase \/ phase \in Successors(journal[n].phase)
    BY <1>1, <1>3, TransitionEffect DEF IInv
  <1>5. /\ Ops' = Ops
        /\ \A m \in Ops : journal'[m].snapshot = journal[m].snapshot
        /\ \A m \in Ops : m # n => journal'[m].phase = journal[m].phase
        /\ journal'[n].phase = phase
    BY <1>4 DEF PhaseOnly
  <1>6. /\ journal[n].phase # "Completed"
        /\ phase \notin Terminal => n \in Unresolved
    <2>1. \A p \in Terminal : Successors(p) = {}
      BY DEF Terminal, Successors
    <2>2. journal[n].phase \in Terminal => phase = journal[n].phase
      BY <1>4, <2>1
    <2> QED BY <1>3, <2>2 DEF Terminal, Unresolved
  <1>7. Unresolved' \subseteq Unresolved
    BY <1>5, <1>6 DEF Unresolved
  <1>8. Waiting \subseteq Waiting' /\ Waiting' \subseteq Waiting \cup {n}
    BY <1>3, <1>5 DEF Waiting
  <1>9. n \in Waiting' <=> phase \in Durable
    BY <1>5 DEF Waiting
  <1>10. LeaseJobInv' /\ ConfirmedInv' /\ MemoryInv'
    BY <1>1, StartingQuiet DEF MemoryInv
  <1>11. LoadedInv'
    <2>1. Waiting' \subseteq boot'.todo \cup {boot'.committed}
      <3>1. ASSUME NEW m \in Waiting', m # n PROVE m \in boot'.todo \cup {boot'.committed}
        <4>1. m \in Waiting /\ m \in boot.todo \cup {boot.committed}
          BY <1>1, <1>8, <3>1 DEF ProjectionInv, LoadedInv
        <4>2. phase \notin Durable
          <5>1. phase \in Durable => n \in Unresolved
            BY <1>6 DEF Durable, Terminal
          <5> QED BY <3>1, <4>1, <5>1, WaitingUnresolved DEF IInv, AtMostOneUnresolved
        <4> QED BY <1>2, <3>1, <4>1, <4>2
      <3> QED BY <1>2, <1>9, <3>1
    <2>2. boot'.committed \in Waiting' \cup {0}
      BY <1>1, <1>2, <1>8, <1>9 DEF ProjectionInv, LoadedInv
    <2> QED BY <1>1, <1>2, <1>7, <2>1, <2>2 DEF ProjectionInv, LoadedInv, Active, VaultExists
  <1>12. ObjectInv'
    <2>1. ASSUME NEW m \in Waiting' PROVE journal'[m].snapshot.target # NoVault
      <3>1. m \in Waiting \cup Undecided
        BY <1>3, <1>6, <1>8, <1>9, <2>1 DEF Durable, Terminal
      <3> QED BY <1>5, <3>1, WaitingUnresolved
          DEF ProjectionInv, ObjectInv, VInv, UndecidedInv
    <2> QED BY <2>1 DEF ObjectInv
  <1>13. FileInv'
    <2>1. Completes(lease)' <=> Completes(lease)
      BY <1>1, <1>3, <1>5, <1>6 DEF Completes
    <2>2. Completes(lease) =>
             journal'[lease.op].snapshot = journal[lease.op].snapshot
      BY <1>5 DEF Completes
    <2>3. ASSUME Active(lease), VaultExists, ~Completes(lease), Waiting' = {}
          PROVE  /\ Undecided' = {} => lease.vseq = vault.seq
                 /\ \A m \in Undecided' : lease.vseq = journal'[m].snapshot.previous.seq
      <3>1. Waiting = {} /\ phase \notin Durable
        BY <1>8, <1>9, <2>3
      <3>2. /\ Undecided = {} => lease.vseq = vault.seq
            /\ \A m \in Undecided : lease.vseq = journal[m].snapshot.previous.seq
        BY <2>3, <3>1 DEF ProjectionInv, FileInv, BaseInv
      <3>3. Undecided' \subseteq Undecided /\ Undecided \subseteq Undecided' \cup {n}
        BY <1>3, <1>5 DEF Undecided
      <3>4. \A m \in Undecided' : lease.vseq = journal'[m].snapshot.previous.seq
        BY <1>5, <3>2, <3>3, WaitingUnresolved
      <3>5. ASSUME Undecided' = {} PROVE lease.vseq = vault.seq
        <4>1. CASE n \in Undecided
          BY <1>3, <3>1, <3>2, <4>1
        <4>2. CASE n \notin Undecided
          BY <3>2, <3>3, <3>5, <4>2
        <4> QED BY <4>1, <4>2
      <3> QED BY <3>4, <3>5
    <2> QED BY <1>1, <1>7, <2>1, <2>2, <2>3 DEF ProjectionInv, FileInv, BaseInv, Active, VaultExists
  <1> QED BY <1>10, <1>11, <1>12, <1>13 DEF ProjectionInv

\* Repairing the metadata: it is projected from the journal and the group is served.
LEMMA RepairProjects ==
    ASSUME Calm, IInv, VInv, ProjectionInv, Repair
    PROVE  ProjectionInv'
  <1>1. /\ host = "repairing" /\ host' = "up" /\ journal' = journal /\ vault' = vault
        /\ UNCHANGED <<job, pending>>
    BY DEF Repair
  <1>2. job.at = "idle" /\ job'.at = "idle"
    BY <1>1, EmptyFields DEF VInv, RestInv
  <1>3. /\ Ops' = Ops /\ Unresolved' = Unresolved /\ Undecided' = Undecided
        /\ Waiting' = Waiting
    BY <1>1, SameProjection
  <1>4. LeaseJobInv' /\ ConfirmedInv' /\ LoadedInv' /\ ObjectInv'
    BY <1>1, <1>3, StartingQuiet DEF LoadedInv, ProjectionInv, ObjectInv
  <1>5. /\ mlease = lease /\ lease.state # "Absent" /\ (Active(lease) => VaultExists)
        /\ Waiting \subseteq {boot.committed} /\ boot.committed \in Waiting \cup {0}
        /\ Unresolved # {} => boot.need
    BY <1>1 DEF ProjectionInv, LoadedInv, FileInv, BaseInv
  <1>6. Undecided = {} /\ Unresolved \subseteq Waiting
    <2>1. \A n \in Unresolved : journal[n].phase \in Durable
      BY <1>1 DEF VInv, StartInv
    <2> QED BY <2>1, WaitingUnresolved DEF Waiting, Unresolved
  <1>7. \A n \in Waiting : vault = journal[n].snapshot.target /\ vault # NoVault
    BY DEF Waiting, VInv, KeptInv, DurableObjectInVault, ProjectionInv, ObjectInv, Calm
  <1>8. 0 \notin Ops
    BY DEF Ops
  <1>9. ASSUME "lease" \notin tmp', lease' = mlease', lease'.state # "Absent",
               ~Completes(lease)', Active(lease)' => Unresolved = {} /\ Fits(lease)',
               \A n \in Waiting : lease'.vseq = journal[n].snapshot.target.seq
        PROVE  ProjectionInv'
    <2>1. MemoryInv'
      BY <1>1, <1>3, <1>9 DEF MemoryInv, Completes, Active, Fits, VaultExists
    <2>2. FileInv'
      BY <1>1, <1>3, <1>6, <1>9, WaitingUnresolved
      DEF FileInv, BaseInv, Completes, Active, Fits, VaultExists
    <2> QED BY <1>4, <2>1, <2>2 DEF ProjectionInv
  <1>10. ASSUME CompletedProjection \/ DegradeOnRepair
         PROVE  lease' = RepairedLease /\ mlease' = RepairedLease /\ "lease" \notin tmp'
    BY <1>10 DEF Repair, LeaseWriteGoes, WriteGoes
  <1>11. CASE CompletedProjection
    <2>1. Completes(lease)
      BY <1>5, <1>11 DEF CompletedProjection, Completes
    <2>2. /\ Unresolved = {} /\ VaultExists /\ vault = journal[lease.op].snapshot.target
      BY <2>1 DEF ProjectionInv, FileInv, BaseInv
    <2>3. /\ RepairedLease.state \in {"Sealed", "Leased"} /\ RepairedLease.op = 0
          /\ RepairedLease.vseq = journal[mlease.op].snapshot.target.seq
      BY <1>11, LeaseFields DEF RepairedLease
    <2>4. /\ ~Completes(lease)' /\ Fits(lease)'
      BY <1>1, <1>3, <1>5, <1>8, <1>10, <1>11, <2>2, <2>3 DEF Completes, Fits, VaultExists
    <2> QED BY <1>9, <1>10, <1>11, <2>2, <2>3, <2>4, WaitingUnresolved
  <1>12. CASE ~CompletedProjection /\ DegradeOnRepair
    <2>1. /\ RepairedLease.state = "Degraded" /\ RepairedLease.op = boot.committed
          /\ boot.committed # 0 =>
                RepairedLease.vseq = journal[boot.committed].snapshot.target.seq
      BY <1>12, LeaseFields DEF RepairedLease
    <2>2. ~Completes(lease)' /\ ~Active(lease)'
      <3>1. boot.committed \in Ops => journal[boot.committed].phase # "Completed"
        BY <1>5, <1>8 DEF Waiting, Durable
      <3> QED BY <1>1, <1>3, <1>10, <1>12, <2>1, <3>1 DEF Completes, Active
    <2>3. \A n \in Waiting : lease'.vseq = journal[n].snapshot.target.seq
      BY <1>5, <1>8, <1>10, <1>12, <2>1, WaitingUnresolved
    <2> QED BY <1>9, <1>10, <1>12, <2>1, <2>2, <2>3
  <1>13. CASE ~CompletedProjection /\ ~DegradeOnRepair
    <2>1. lease' = lease /\ mlease' = mlease /\ tmp' = tmp
      BY <1>13 DEF Repair
    <2>2. ~Completes(lease)
      BY <1>5, <1>13 DEF CompletedProjection, Completes
    <2>3. Unresolved = {} /\ Waiting = {}
      BY <1>5, <1>6, <1>7, <1>13, WaitingUnresolved DEF DegradeOnRepair, VaultExists
    <2>4. Active(lease) => VaultExists /\ lease.vseq = vault.seq
      BY <1>5, <1>6, <2>2, <2>3 DEF ProjectionInv, FileInv, BaseInv
    <2>5. MemoryInv'
      BY <1>1, <1>3, <1>5, <2>1, <2>2, <2>3, <2>4
      DEF MemoryInv, Completes, Active, Fits, VaultExists
    <2>6. FileInv'
      BY <1>1, <1>3, <1>5, <1>6, <2>1, <2>2, <2>3, <2>4
      DEF FileInv, BaseInv, Completes, Active, VaultExists
    <2> QED BY <1>4, <2>5, <2>6 DEF ProjectionInv
  <1> QED BY <1>11, <1>12, <1>13

\* The life of the process keeps the invariant of the projection.
LEMMA ProcessProjects ==
    ASSUME Calm, IInv, VInv, ProjectionInv, Crash \/ Process
    PROVE  ProjectionInv'
  <1>1. CASE Crash
    BY <1>1, EndedProjects DEF Crash
  <1>2. ASSUME NEW next, LeaseWriteFails(next) PROVE lease' = lease
    BY <1>2, FailsByTemporary DEF LeaseWriteFails
  <1>3. CASE LoadFails \/ RepairFails
    BY <1>2, <1>3, EndedProjects DEF LoadFails, RepairFails, OpenFails
  <1>4. ASSUME NEW n \in Ops, RecoverFails(n) PROVE ProjectionInv'
    <2>1. journal' = journal
      BY <1>4, StartupPhases, TransitionEffect DEF RecoverFails, IInv
    <2> QED BY <1>4, <2>1, EndedProjects DEF RecoverFails, OpenFails
  <1>5. CASE Launch
    <2>1. /\ journal' = journal /\ vault' = vault /\ lease' = lease /\ host = "down"
          /\ host' = "loading" /\ UNCHANGED <<job, pending>>
      BY <1>5 DEF Launch, disk
    <2>2. FileInv' /\ ObjectInv'
      BY <2>1, SameProjection DEF ProjectionInv, FileInv, BaseInv, ObjectInv, Active, Completes, VaultExists
    <2>3. MemoryInv' /\ LoadedInv'
      BY <2>1 DEF MemoryInv, LoadedInv
    <2> QED BY <2>1, <2>2, <2>3, StartingQuiet DEF ProjectionInv
  <1>6. CASE Recovered
    <2>1. /\ journal' = journal /\ vault' = vault /\ lease' = lease /\ mlease' = mlease
          /\ boot' = boot /\ host = "recovering" /\ host' = "repairing" /\ boot.todo = {}
          /\ UNCHANGED <<job, pending>>
      BY <1>6 DEF Recovered, disk
    <2>2. FileInv' /\ ObjectInv'
      BY <2>1, SameProjection DEF ProjectionInv, FileInv, BaseInv, ObjectInv, Active, Completes, VaultExists
    <2>3. MemoryInv' /\ LoadedInv'
      BY <2>1, SameProjection DEF ProjectionInv, MemoryInv, LoadedInv, Active, VaultExists
    <2> QED BY <2>1, <2>2, <2>3, StartingQuiet DEF ProjectionInv
  <1> QED BY <1>1, <1>3, <1>4, <1>5, <1>6, LoadProjects, RecoverProjects, RepairProjects
      DEF Process

-----------------------------------------------------------------------------
(* Durable writes.                                                         *)

\* The next step of the same job writes the same metadata.
LEMMA NextLease ==
    ASSUME TypeOK, NEW at, job' = [job EXCEPT !.at = at]
    PROVE  job'.lease = job.lease
  BY DEF TypeOK, Job

\* A journal write leaves at most the temporary files that there were.
LEMMA WriteShrinks ==
    ASSUME Calm, IInv
    PROVE  /\ \A file : WriteGoes(file) \/ WriteFails(file) => tmp' \subseteq tmp
           /\ \A n, phase : TransitionGoes(n, phase) \/ TransitionFails(n, phase) => tmp' \subseteq tmp
  <1>1. \A file : WriteGoes(file) \/ WriteFails(file) => tmp' \subseteq tmp
    BY FailsByTemporary DEF WriteGoes
  <1> QED BY <1>1 DEF TransitionGoes, TransitionFails, JournalWriteGoes, JournalWriteFails

\* A write that fails: the handler returns and keeps the pending operation.
LEMMA FailedProjects ==
    ASSUME VInv, ProjectionInv, job.at \notin {"idle", "lease"}, host' = host,
           UNCHANGED <<journal, lease, vault, mlease>>, tmp' \subseteq tmp, Fail(pending)
    PROVE  ProjectionInv'
  <1>1. host = "up" /\ host' = "up" /\ Confirmed(pending)
    BY JobUp, AtWork
  <1> QED BY <1>1, AnswerProjects DEF Fail

\* Moving a decided operation on, other than to its completion.
LEMMA MoveProjects ==
    ASSUME ProjectionInv, host = "up", host' = "up", job.at # "lease",
           UNCHANGED <<lease, vault, mlease>>, tmp' \subseteq tmp, Undecided = {},
           NEW n \in Ops, NEW phase, PhaseOnly(n, phase), phase # "Completed",
           \/ phase \in Terminal
           \/ phase \in Durable /\ journal[n].phase \in Durable,
           LeaseJobInv', ConfirmedInv'
    PROVE  ProjectionInv'
  <1>1. /\ Ops' = Ops /\ journal'[n].phase = phase
        /\ \A m \in Ops : /\ journal'[m].snapshot = journal[m].snapshot
                          /\ m # n => journal'[m].phase = journal[m].phase
    BY DEF PhaseOnly
  <1>2. /\ PreCommit \cap Durable = {} /\ PreCommit \cap Terminal = {}
        /\ Durable \cap Terminal = {}
    BY DEF PreCommit, Durable, Terminal
  <1>3. Unresolved' \subseteq Unresolved
    BY <1>1, <1>2 DEF Unresolved
  <1>4. Waiting' \subseteq Waiting
    BY <1>1, <1>2 DEF Waiting
  <1>5. Undecided' = {}
    BY <1>1, <1>2 DEF Undecided
  <1>6. \A m \in Ops : journal'[m].phase = "Completed" => journal[m].phase = "Completed"
    BY <1>1
  <1>7. \A m \in Waiting' : journal'[m].snapshot = journal[m].snapshot
    BY <1>1 DEF Waiting
  <1>8. BaseInv'
    <2>1. Active(lease) /\ VaultExists => lease.vseq = vault.seq
      BY AtWork DEF ProjectionInv, FileInv, BaseInv
    <2> QED BY <1>5, <2>1 DEF BaseInv, Active, VaultExists
  <1> QED BY <1>1, <1>3, <1>4, <1>6, <1>7, <1>8, JobProjects

\* Appending the record of an operation, or finding it.
LEMMA BeginProjects == ASSUME Calm, IInv, VInv, ProjectionInv, Begin PROVE ProjectionInv'
  <1>1. /\ job.at = "begin" /\ host = "up" /\ host' = "up" /\ UNCHANGED <<lease, vault, mlease>>
    BY JobUp DEF Begin, HandlerStep
  <1>2. /\ Unresolved = {} /\ job.op \in Ops \cup {Len(journal) + 1}
        /\ job.new.snapshot = NoSnapshot /\ job.new.phase = "NotCommitted"
        /\ job.err = NoPending /\ pending = NoPending
    BY <1>1 DEF IInv, BeginReady, VInv, HandlerInv
  <1>3. Undecided = {} /\ Waiting = {}
    BY <1>2, WaitingUnresolved
  <1>4. tmp' \subseteq tmp
    BY WriteShrinks DEF Begin, JournalWriteGoes, JournalWriteFails
  <1>5. /\ job.lease.state = "Evicting" /\ job.lease.op = job.op
        /\ job.reply.type \in BeginReplies /\ job.ok.confirmed = FALSE
        /\ job.op \in Ops => journal[job.op].phase # "Completed"
    BY <1>1 DEF ProjectionInv, LeaseJobInv
  <1>6. ~Active(job.lease)
    BY <1>5 DEF Active
  <1>7. CASE journal' = journal /\ Fail(pending)
    BY <1>1, <1>4, <1>7, FailedProjects
  <1>8. ASSUME Continue([job EXCEPT !.at = "lease"])
        PROVE  /\ job'.at = "lease" /\ job'.lease = job.lease /\ job'.ok = job.ok
               /\ job'.err = job.err /\ job'.reply = job.reply
    BY <1>8, NextStep, NextLease DEF Continue, IInv
  <1>9. Confirmed(job.ok) /\ Confirmed(job.err)
    BY <1>2, <1>5, EmptyFields DEF Confirmed
  <1>10. CASE journal' = journal /\ job.op \in Ops /\ Continue([job EXCEPT !.at = "lease"])
    <2>1. ~Completes(job.lease)
      BY <1>5, <1>10 DEF Completes
    <2> QED BY <1>1, <1>3, <1>4, <1>5, <1>6, <1>8, <1>9, <1>10, <2>1, LeasingProjects
  <1>11. CASE /\ job.op \notin Ops /\ journal' = Append(journal, job.new)
              /\ Continue([job EXCEPT !.at = "lease"])
    <2> DEFINE new == Len(journal) + 1
    <2>1. /\ Ops' = Ops \cup {new} /\ journal'[new] = job.new
          /\ \A m \in Ops : journal'[m] = journal[m]
      <3>1. job.new \in Operation /\ journal \in Seq(Operation) /\ Len(journal) \in Nat
        BY OpsTyped DEF IInv, TypeOK, Job
      <3>2. /\ Len(journal') = Len(journal) + 1
            /\ \A i \in 1 .. Len(journal) : journal'[i] = journal[i]
            /\ journal'[Len(journal) + 1] = job.new
        BY <1>11, <3>1, AppendProperties
      <3> QED BY <3>1, <3>2 DEF Ops
    <2>2. job.op = new /\ new \notin Ops
      BY <1>2, <1>11
    <2> HIDE DEF new
    <2>3. \A m \in Ops : journal[m].phase \in Terminal
      BY <1>2 DEF Unresolved
    <2>4. Waiting' = {} /\ Undecided' = {}
      BY <1>2, <2>1, <2>3 DEF Waiting, Undecided, Terminal, PreCommit, Durable
    <2>5. ~Completes(job.lease)' /\ ~Completes(mlease)' /\ ~Completes(lease)'
      <3>1. \A l : l.op \in Ops' /\ journal'[l.op].phase = "Completed"
                      => l.op \in Ops /\ journal[l.op].phase = "Completed"
        BY <1>2, <2>1
      <3>2. ~Completes(job.lease)
        BY <1>5, <2>2 DEF Completes
      <3> QED BY <1>1, <1>8, <1>11, <3>1, <3>2, AtWork DEF Completes
    <2>6. Beginning'
      BY <1>5, <1>8, <1>11 DEF Beginning
    <2>7. LeaseJobInv'
      BY <1>5, <1>6, <1>8, <1>11, <2>4, <2>5 DEF LeaseJobInv, Active
    <2>8. ConfirmedInv'
      BY <1>2, <1>5, <1>8, <1>11, EmptyFields DEF ConfirmedInv, Confirmed
    <2>9. MemoryInv'
      BY <1>1, <2>4, <2>5, <2>6, AtWork DEF MemoryInv, Active, Fits, VaultExists
    <2>10. LoadedInv' /\ ObjectInv'
      BY <1>1, <2>4 DEF LoadedInv, ObjectInv
    <2>11. BaseInv'
      <3>1. Active(lease) /\ VaultExists => lease.vseq = vault.seq
        BY <1>1, <1>3, AtWork DEF ProjectionInv, FileInv, BaseInv
      <3> QED BY <1>1, <2>4, <3>1 DEF BaseInv, Active, VaultExists
    <2>12. FileInv'
      BY <1>1, <1>4, <2>4, <2>5, <2>6, <2>11, AtWork DEF FileInv, Active, VaultExists
    <2> QED BY <2>7, <2>8, <2>9, <2>10, <2>12 DEF ProjectionInv
  <1> QED BY <1>7, <1>10, <1>11 DEF Begin, JournalWriteGoes, JournalWriteFails

\* Closing what an earlier client left: nothing of it is undecided.
LEMMA CloseProjects ==
    ASSUME Calm, IInv, VInv, ProjectionInv, NEW n \in Ops, CloseUnresolved(n)
    PROVE  ProjectionInv'
  <1>1. /\ job.at = "close" /\ host = "up" /\ host' = "up" /\ UNCHANGED <<lease, vault, mlease>>
    BY JobUp DEF CloseUnresolved, HandlerStep
  <1>2. Undecided = {} /\ pending = NoPending
    BY <1>1, NothingUndecided DEF Committing, VInv, HandlerInv
  <1>3. ClosePhase(n) \in {"Aborted", "ReconciliationRequired"}
    <2>1. ~(journal[n].snapshot # NoSnapshot /\ journal[n].phase \in PreCommit)
      BY <1>2 DEF Undecided
    <2> QED BY <2>1 DEF ClosePhase
  <1>4. /\ ClosePhase(n) \in Terminal /\ ClosePhase(n) \in OperationPhase
        /\ ClosePhase(n) # "Completed"
    BY <1>3 DEF Terminal, OperationPhase
  <1>5. tmp' \subseteq tmp
    BY WriteShrinks DEF CloseUnresolved
  <1>6. CASE TransitionFails(n, ClosePhase(n)) /\ Fail(pending)
    BY <1>1, <1>4, <1>5, <1>6, TransitionEffect, FailedProjects DEF IInv
  <1>7. CASE /\ TransitionGoes(n, ClosePhase(n))
             /\ Continue([job EXCEPT !.at = IF Unresolved' = {} THEN "begin" ELSE "close"])
    <2>1. PhaseOnly(n, ClosePhase(n))
      BY <1>4, <1>7, TransitionEffect DEF IInv
    <2>2. /\ job'.at \in {"begin", "close"} /\ job'.op = job.op /\ job'.lease = job.lease
          /\ job'.ok = job.ok /\ job'.reply = job.reply /\ pending' = NoPending
      BY <1>2, <1>7, NextStep, NextLease DEF Continue, IInv
    <2>3. /\ Ops' = Ops
          /\ \A m \in Ops : journal'[m].phase = "Completed" => journal[m].phase = "Completed"
      BY <1>4, <2>1 DEF PhaseOnly
    <2>4. LeaseJobInv'
      BY <1>1, <2>2, <2>3 DEF ProjectionInv, LeaseJobInv
    <2>5. ConfirmedInv'
      BY <2>2, EmptyFields DEF ConfirmedInv, Confirmed
    <2> QED BY <1>1, <1>2, <1>4, <1>5, <2>1, <2>4, <2>5, MoveProjects
  <1> QED BY <1>6, <1>7 DEF CloseUnresolved

\* The removal becomes pending: a committed operation stays durable.
LEMMA RemovalPendingProjects ==
    ASSUME Calm, IInv, VInv, ProjectionInv, MarkRemovalPending
    PROVE  ProjectionInv'
  <1> DEFINE phase == "BrowserRemovalPending"
  <1>1. /\ job.at = "removal" /\ host = "up" /\ host' = "up"
        /\ UNCHANGED <<lease, vault, mlease>>
    BY JobUp DEF MarkRemovalPending, HandlerStep
  <1>2. Undecided = {} /\ Confirmed(pending)
    BY <1>1, NothingUndecided, AtWork DEF Committing
  <1>3. phase \in Durable /\ phase \in OperationPhase
    BY DEF Durable, OperationPhase
  <1>4. tmp' \subseteq tmp
    BY WriteShrinks DEF MarkRemovalPending
  <1>5. ASSUME journal' = journal PROVE ProjectionInv'
    <2>1. CASE Fail(pending)
      BY <1>1, <1>4, <1>5, <2>1, FailedProjects
    <2>2. CASE Return(pending, job.reply)
      BY <1>1, <1>2, <1>4, <1>5, <2>2, AnswerProjects
    <2> QED BY <2>1, <2>2 DEF MarkRemovalPending
  <1>6. CASE job.op \in Ops /\ TransitionGoes(job.op, phase) /\ Return(pending, job.reply)
    <2>1. /\ PhaseOnly(job.op, phase)
          /\ journal[job.op].phase = phase \/ phase \in Successors(journal[job.op].phase)
      BY <1>3, <1>6, TransitionEffect DEF IInv
    <2>2. journal[job.op].phase \in Durable
      BY <1>3, <2>1 DEF Successors, Durable
    <2>3. job'.at = "idle" /\ pending' = pending
      BY <1>6, EmptyFields DEF Return
    <2>4. LeaseJobInv'
      BY <2>3 DEF LeaseJobInv
    <2>5. Waiting \subseteq Waiting'
      BY <1>3, <2>1, <2>2 DEF Waiting, PhaseOnly
    <2>6. ConfirmedInv'
      BY <1>2, <2>3, <2>5 DEF ConfirmedInv, Confirmed
    <2>7. phase # "Completed"
      OBVIOUS
    <2> HIDE DEF phase
    <2> QED BY <1>1, <1>2, <1>3, <1>4, <1>6, <2>1, <2>2, <2>4, <2>6, <2>7, MoveProjects
  <1>7. CASE job.op \in Ops /\ TransitionFails(job.op, phase)
    BY <1>3, <1>5, <1>7, TransitionEffect DEF IInv
  <1>8. CASE job.op \notin Ops
    <2>1. journal' = journal
      BY <1>3, <1>8, JournalExcept
      DEF MarkRemovalPending, TransitionGoes, TransitionFails, JournalWriteGoes, JournalWriteFails,
          IInv, TypeOK
    <2> QED BY <1>5, <2>1
  <1> QED BY <1>6, <1>7, <1>8 DEF MarkRemovalPending

\* Recording the binding: the object it replaces is the one in the vault.
LEMMA BindProjects == ASSUME Calm, IInv, VInv, ProjectionInv, BindSnapshot PROVE ProjectionInv'
  <1> DEFINE n == job.op
             b == job.snapshot
  <1>1. /\ job.at = "bind" /\ host = "up" /\ host' = "up" /\ UNCHANGED <<lease, vault, mlease>>
    BY JobUp DEF BindSnapshot, HandlerStep
  <1>2. Undecided = {}
    BY <1>1, NothingUndecided DEF Committing
  <1>3. n \in Ops /\ b.previous = vault /\ b.target # NoVault /\ pending.confirmed = FALSE
    BY <1>1 DEF VInv, CommitInv
  <1>4. b # NoSnapshot
    BY <1>3 DEF NoSnapshot
  <1>5. tmp' \subseteq tmp
    BY WriteShrinks DEF BindSnapshot, JournalWriteGoes, JournalWriteFails
  <1>6. CASE journal' = journal /\ Fail(pending)
    BY <1>1, <1>5, <1>6, FailedProjects
  <1>7. CASE /\ journal[n].phase \in PreCommit /\ journal[n].snapshot = NoSnapshot
             /\ journal' = [journal EXCEPT ![n].snapshot = b]
             /\ Continue([job EXCEPT !.at = "unknown"])
    <2>1. journal[n] \in Operation /\ n \in DOMAIN journal /\ journal \in Seq(Operation)
          /\ b \in SnapshotBinding
      BY <1>3, OpsTyped DEF IInv, TypeOK, Ops, Job
    <2>2. Ops' = Ops
      BY <1>7, <2>1, JournalExcept DEF Ops
    <2>3. /\ journal'[n] = [journal[n] EXCEPT !.snapshot = b]
          /\ \A m \in Ops \ {n} : journal'[m] = journal[m]
      BY <1>7, <2>1
    <2>4. journal'[n].snapshot = b /\ journal'[n].phase = journal[n].phase
      BY <2>1, <2>3 DEF Operation
    <2>5. job'.at = "unknown" /\ pending' = pending
      BY <1>7, NextStep DEF Continue, IInv
    <2> HIDE DEF n, b
    <2>6. \A m \in Ops : journal'[m].phase = journal[m].phase
      BY <2>3, <2>4
    <2>7. Unresolved' = Unresolved /\ Waiting' = Waiting
      BY <2>2, <2>6 DEF Unresolved, Waiting
    <2>8. Undecided' = {n}
      BY <1>2, <1>3, <1>4, <1>7, <2>2, <2>3, <2>4 DEF Undecided
    <2>9. \A m \in Waiting : journal'[m].snapshot = journal[m].snapshot
      BY <1>7, <2>3 DEF Waiting, PreCommit, Durable
    <2>10. BaseInv'
      <3>1. Active(lease) /\ VaultExists => lease.vseq = vault.seq
        BY <1>1, <1>2, AtWork DEF ProjectionInv, FileInv, BaseInv
      <3> QED BY <1>1, <1>3, <2>4, <2>8, <3>1 DEF BaseInv, Active, VaultExists
    <2>11. LeaseJobInv' /\ ConfirmedInv'
      BY <1>3, <2>5 DEF LeaseJobInv, ConfirmedInv, Confirmed
    <2> QED BY <1>1, <1>5, <2>2, <2>6, <2>7, <2>9, <2>10, <2>11, JobProjects
  <1>8. ~(journal[n].phase \in PreCommit /\ journal[n].snapshot = b)
    BY <1>2, <1>3, <1>4 DEF Undecided
  <1> QED BY <1>6, <1>7, <1>8 DEF BindSnapshot, JournalWriteGoes, JournalWriteFails

\* The operation stays undecided.
LEMMA StaysProjects ==
    ASSUME IInv, VInv, ProjectionInv, job.at \in Committing, host' = host,
           UNCHANGED <<lease, vault, mlease>>, tmp' \subseteq tmp,
           NEW phase \in PreCommit, PhaseOnly(job.op, phase),
           job'.at \in {"idle", "vault"}, pending' = pending
    PROVE  ProjectionInv'
  <1> DEFINE n == job.op
  <1>1. /\ host = "up" /\ n \in Ops /\ Undecided = {n} /\ Unresolved = {n}
        /\ pending.confirmed = FALSE /\ journal[n].snapshot # NoSnapshot
        /\ journal[n].phase \in PreCommit
        /\ \A m \in Ops : m # n => journal[m].phase \in Terminal
    BY CommittingFacts
  <1>2. job.at # "lease" /\ host' = "up"
    BY <1>1 DEF Committing
  <1>3. /\ Ops' = Ops /\ journal'[n].phase = phase
        /\ \A m \in Ops : journal'[m].snapshot = journal[m].snapshot
        /\ \A m \in Ops \ {n} : journal'[m] = journal[m]
    BY DEF PhaseOnly
  <1> HIDE DEF n
  <1>4. Undecided' = {n} /\ Unresolved' = {n} /\ Waiting' = {}
    BY <1>1, <1>3 DEF Undecided, Unresolved, Waiting, PreCommit, Terminal, Durable
  <1>5. \A m \in Ops : journal'[m].phase = "Completed" => journal[m].phase = "Completed"
    BY <1>3 DEF PreCommit
  <1>6. BaseInv'
    <2>1. Waiting = {}
      BY <1>1, WaitingUnresolved
    <2>2. ~Completes(lease)
      BY <1>1, <1>2, AtWork
    <2> QED BY <1>1, <1>3, <1>4, <2>1, <2>2 DEF ProjectionInv, FileInv, BaseInv, Active, VaultExists
  <1>7. LeaseJobInv' /\ ConfirmedInv'
    BY <1>1 DEF LeaseJobInv, ConfirmedInv, Confirmed
  <1> QED BY <1>1, <1>2, <1>3, <1>4, <1>5, <1>6, <1>7, JobProjects

\* The commit is recorded: the metadata to write tells of the committed object.
LEMMA CommitsProject ==
    ASSUME IInv, VInv, ProjectionInv, job.at \in {"commit", "classify"}, host' = host,
           UNCHANGED <<lease, vault, mlease>>, tmp' \subseteq tmp,
           PhaseOnly(job.op, "Committed"), Continue(CommittedJob)
    PROVE  ProjectionInv'
  <1> DEFINE n == job.op
             b == job.snapshot
  <1>1. job.at \in Committing /\ job.at # "lease"
    BY DEF Committing
  <1>2. /\ host = "up" /\ n \in Ops /\ Undecided = {n} /\ Unresolved = {n}
        /\ journal[n].snapshot = b /\ b.target # NoVault /\ pending.op = n
        /\ \A m \in Ops : m # n => journal[m].phase \in Terminal
    BY <1>1, CommittingFacts
  <1>3. vault = b.target
    BY DEF VInv, CommitInv
  <1>4. /\ Ops' = Ops /\ journal'[n].phase = "Committed" /\ journal'[n].snapshot = b
        /\ \A m \in Ops \ {n} : journal'[m] = journal[m]
    BY <1>2 DEF PhaseOnly
  <1>5. /\ job'.at = "lease" /\ job'.reply.type = "Confirmed"
        /\ job'.lease.state = mlease.state /\ job'.lease.op = n /\ job'.lease.vseq = b.target.seq
        /\ job'.ok.op = n /\ job'.err.op = n
    BY <1>2 DEF Continue, CommittedJob, LeaseJob, NoJob, Msg, IInv, TypeOK, LeaseMetadata,
                PendingOperation
  <1> HIDE DEF n, b
  <1>6. Waiting' = {n}
    BY <1>2, <1>4 DEF Waiting, Durable, Terminal
  <1>7. ~Active(mlease) /\ "lease" \notin tmp /\ lease.state # "Absent" /\ mlease.state # "Absent"
    BY <1>1, <1>2, AtWork
  <1>8. ~Completes(mlease)' /\ ~Completes(lease)' /\ ~Completes(job.lease)'
    <2>1. ~Completes(mlease) /\ ~Completes(lease)
      BY <1>1, <1>2, AtWork
    <2> QED BY <1>4, <1>5, <2>1 DEF Completes
  <1>9. LeaseJobInv'
    BY <1>4, <1>5, <1>6, <1>7, <1>8 DEF LeaseJobInv, Active
  <1>10. ConfirmedInv'
    BY <1>5, <1>6 DEF ConfirmedInv, Confirmed
  <1>11. Confirming'
    BY <1>5 DEF Confirming
  <1>12. MemoryInv'
    BY <1>7, <1>8, <1>11 DEF MemoryInv, Active
  <1>13. LoadedInv' /\ ObjectInv'
    BY <1>2, <1>4, <1>6 DEF LoadedInv, ObjectInv
  <1>14. FileInv'
    BY <1>2, <1>3, <1>6, <1>7, <1>8, <1>11 DEF FileInv, BaseInv, VaultExists
  <1> QED BY <1>9, <1>10, <1>12, <1>13, <1>14 DEF ProjectionInv

\* The journal writes of commit_snapshot.
LEMMA CommitProjects ==
    ASSUME Calm, IInv, VInv, ProjectionInv,
           MarkUnknown \/ MarkCommitted \/ RevertCommit \/ ClassifyCommit
    PROVE  ProjectionInv'
  <1> DEFINE n == job.op
  <1>1. job.at \in Committing /\ host' = host /\ UNCHANGED <<lease, vault, mlease>>
    BY DEF MarkUnknown, MarkCommitted, RevertCommit, ClassifyCommit, HandlerStep, Committing
  <1>2. host = "up" /\ n \in Ops /\ journal[n].snapshot = job.snapshot /\ journal[n].phase \in PreCommit
    BY <1>1, CommittingFacts
  <1>3. /\ {"DurabilityUnknown", "NotCommitted"} \subseteq PreCommit
        /\ {"DurabilityUnknown", "NotCommitted", "Committed"} \subseteq OperationPhase
    BY DEF PreCommit, Durable, OperationPhase
  <1>4. tmp' \subseteq tmp
    BY WriteShrinks DEF MarkUnknown, MarkCommitted, RevertCommit, ClassifyCommit
  <1>5. ASSUME NEW phase \in OperationPhase, TransitionFails(n, phase), Fail(pending)
        PROVE  ProjectionInv'
    <2>1. job.at \notin {"idle", "lease"}
      BY <1>1 DEF Committing
    <2> QED BY <1>1, <1>2, <1>4, <1>5, <2>1, TransitionEffect, FailedProjects DEF IInv
  <1>6. ASSUME NEW phase \in OperationPhase, TransitionGoes(n, phase) PROVE PhaseOnly(n, phase)
    BY <1>2, <1>6, TransitionEffect DEF IInv
  <1>7. CASE MarkUnknown
    <2>1. CASE TransitionFails(n, "DurabilityUnknown") /\ Fail(pending)
      BY <1>3, <1>5, <2>1
    <2>2. CASE TransitionGoes(n, "DurabilityUnknown") /\ Continue([job EXCEPT !.at = "vault"])
      <3>1. job'.at = "vault" /\ pending' = pending
        BY <2>2, NextStep DEF Continue, IInv
      <3> QED BY <1>1, <1>3, <1>4, <1>6, <2>2, <3>1, StaysProjects
    <2> QED BY <1>7, <2>1, <2>2 DEF MarkUnknown
  <1>8. CASE RevertCommit
    <2>1. Fail(pending) /\ job'.at = "idle" /\ pending' = pending
      BY <1>8, EmptyFields DEF RevertCommit, Fail, Return
    <2>2. CASE TransitionFails(n, "NotCommitted")
      BY <1>3, <1>5, <2>1, <2>2
    <2>3. CASE TransitionGoes(n, "NotCommitted")
      BY <1>1, <1>3, <1>4, <1>6, <2>1, <2>3, StaysProjects
    <2> QED BY <1>8, <2>2, <2>3 DEF RevertCommit
  <1>9. CASE MarkCommitted
    <2>1. job.at = "commit"
      BY <1>9 DEF MarkCommitted
    <2>2. CASE TransitionFails(n, "Committed") /\ Fail(pending)
      BY <1>3, <1>5, <2>2
    <2>3. CASE TransitionGoes(n, "Committed") /\ Continue(CommittedJob)
      BY <1>1, <1>3, <1>4, <1>6, <2>1, <2>3, CommitsProject
    <2> QED BY <1>9, <2>2, <2>3 DEF MarkCommitted
  <1>10. CASE ClassifyCommit
    <2>1. job.at = "classify"
      BY <1>10 DEF ClassifyCommit
    <2>2. vault = journal[n].snapshot.target /\ vault # NoVault
      BY <1>1, <1>2, <2>1, CommittingFacts DEF VInv, CommitInv
    <2>3. RecoveredPhase(journal[n].phase, journal[n].snapshot, vault) = "Committed"
      <3>1. ClassifyVault(journal[n].phase, journal[n].snapshot, vault) = "Committed"
        BY <2>2 DEF ClassifyVault, ClassifyObject
      <3>2. journal[n].phase \notin Durable
        BY <1>2 DEF PreCommit, Durable
      <3> QED BY <3>1, <3>2 DEF RecoveredPhase
    <2>4. CASE TransitionFails(n, "Committed") /\ Fail(pending)
      BY <1>3, <1>5, <2>4
    <2>5. CASE TransitionGoes(n, "Committed") /\ Continue(CommittedJob)
      BY <1>1, <1>3, <1>4, <1>6, <2>1, <2>5, CommitsProject
    <2> QED BY <1>10, <2>3, <2>4, <2>5 DEF ClassifyCommit, Durable
  <1> QED BY <1>7, <1>8, <1>9, <1>10

\* The vault is written while its operation is unresolved: no metadata in memory shows the
\* group as protected, and the file tells of the previous object at most.
LEMMA VaultWriteProjects == ASSUME Calm, IInv, VInv, ProjectionInv, WriteVault PROVE ProjectionInv'
  <1> DEFINE n == job.op
             b == job.snapshot
  <1>1. job.at = "vault" /\ host' = host /\ UNCHANGED <<journal, lease, mlease>>
    BY DEF WriteVault, HandlerStep
  <1>2. /\ host = "up" /\ n \in Ops /\ Undecided = {n} /\ Unresolved = {n}
        /\ journal[n].snapshot = b /\ b.target # NoVault /\ pending.confirmed = FALSE
    BY <1>1, CommittingFacts DEF Committing
  <1>3. job.at # "lease" /\ host' = "up" /\ Waiting = {}
    BY <1>1, <1>2, WaitingUnresolved
  <1>4. job'.at \in {"commit", "revert", "classify"} /\ pending' = pending
    BY NextStep DEF WriteVault, Continue, IInv
  <1>5. tmp' \subseteq tmp /\ vault' \in {vault, b.target}
    BY WriteShrinks DEF WriteVault
  <1> HIDE DEF n, b
  <1>6. LeaseJobInv' /\ ConfirmedInv'
    BY <1>2, <1>4 DEF LeaseJobInv, ConfirmedInv, Confirmed
  <1>7. CASE vault' = vault
    BY <1>1, <1>2, <1>3, <1>5, <1>6, <1>7, HandlerProjects
  <1>8. CASE vault' = b.target
    <2>1. Ops' = Ops /\ Unresolved' = {n} /\ Undecided' = {n} /\ Waiting' = {}
      BY <1>1, <1>2, <1>3, SameProjection
    <2>2. /\ ~Active(mlease) /\ "lease" \notin tmp
          /\ lease.state # "Absent" /\ mlease.state # "Absent"
          /\ Active(lease) => VaultExists
      BY <1>2, <1>3, AtWork
    <2>3. ~Completes(mlease)' /\ ~Completes(lease)' /\ ~Completes(lease)
      BY <1>1, <1>2, <1>3, <2>1, AtWork DEF Completes
    <2>4. MemoryInv'
      BY <1>1, <2>1, <2>2, <2>3 DEF MemoryInv, Active
    <2>5. LoadedInv' /\ ObjectInv'
      BY <1>3, <2>1 DEF LoadedInv, ObjectInv
    <2>6. BaseInv'
      BY <1>1, <1>2, <1>3, <2>1, <2>2, <2>3
      DEF ProjectionInv, FileInv, BaseInv, Active
    <2>7. FileInv'
      BY <1>1, <1>2, <1>5, <1>8, <2>1, <2>2, <2>3, <2>6 DEF FileInv, VaultExists
    <2> QED BY <1>6, <2>4, <2>5, <2>7 DEF ProjectionInv
  <1> QED BY <1>5, <1>7, <1>8

\* The terminal transition: once it is written, the metadata to write tells of it.
LEMMA FinishProjects == ASSUME Calm, IInv, VInv, ProjectionInv, Finish PROVE ProjectionInv'
  <1> DEFINE n == job.op
  <1>1. /\ job.at = "finish" /\ host = "up" /\ host' = "up" /\ UNCHANGED <<lease, vault, mlease>>
    BY JobUp DEF Finish, HandlerStep
  <1>2. Undecided = {}
    BY <1>1, NothingUndecided DEF Committing
  <1>3. job.phase \in Terminal /\ job.phase \in OperationPhase
    BY <1>1 DEF VInv, HandlerInv, IInv, TypeOK, Job
  <1>4. /\ n \in Ops /\ job.lease.state # "Absent" /\ job.lease.vseq = mlease.vseq
        /\ job.ok = NoPending /\ job.err \in {NoPending, pending}
        /\ job.reply.type \notin {"Confirmed", "Invalidated"} \cup BeginReplies
        /\ Active(job.lease) => job.phase = "Completed" /\ Fits(job.lease)
        /\ IF job.phase = "Completed" THEN job.lease.op = 0 /\ n \in Waiting
           ELSE ~Completes(job.lease)
    BY <1>1 DEF ProjectionInv, LeaseJobInv
  <1>5. tmp' \subseteq tmp
    BY WriteShrinks DEF Finish
  <1>6. CASE TransitionFails(n, job.phase) /\ Fail(pending)
    BY <1>1, <1>3, <1>4, <1>5, <1>6, TransitionEffect, FailedProjects DEF IInv
  <1>7. CASE TransitionGoes(n, job.phase) /\ Continue([job EXCEPT !.at = "lease"])
    <2>1. PhaseOnly(n, job.phase)
      BY <1>3, <1>4, <1>7, TransitionEffect DEF IInv
    <2>2. /\ job'.at = "lease" /\ job'.lease = job.lease /\ job'.ok = job.ok
          /\ job'.err = job.err /\ job'.reply = job.reply /\ pending' = pending
      BY <1>7, NextStep, NextLease DEF Continue, IInv
    <2>3. /\ Ops' = Ops /\ journal'[n].phase = job.phase
          /\ \A m \in Ops : /\ journal'[m].snapshot = journal[m].snapshot
                            /\ m # n => journal'[m].phase = journal[m].phase
      BY <2>1 DEF PhaseOnly
    <2>4. ConfirmedInv'
      <3>1. "lease" \in tmp' => Waiting = {}
        BY <1>1, <1>5, AtWork, WaitingUnresolved
      <3>2. "lease" \in tmp' => job.err.confirmed # TRUE
        BY <1>1, <1>4, <3>1, AtWork, EmptyFields DEF Confirmed
      <3> QED BY <1>4, <2>2, <3>2, EmptyFields DEF ConfirmedInv, Confirmed
    <2> HIDE DEF n
    <2>5. CASE job.phase # "Completed"
      <3>1. ~Completes(job.lease)'
        BY <1>4, <2>2, <2>3, <2>5 DEF Completes
      <3>2. \A m \in Waiting' : m \in Waiting
        BY <1>3, <2>3 DEF Waiting, Terminal, Durable
      <3>3. LeaseJobInv'
        BY <1>1, <1>4, <2>2, <2>3, <2>5, <3>1, <3>2, AtWork DEF LeaseJobInv, Active, Waiting
      <3> QED BY <1>1, <1>2, <1>3, <1>4, <1>5, <2>1, <2>4, <2>5, <3>3, MoveProjects DEF n
    <2>6. CASE job.phase = "Completed"
      <3>1. n \in Waiting /\ Unresolved = {n}
        BY <1>4, <2>6, WaitingUnresolved DEF IInv, AtMostOneUnresolved
      <3>2. Unresolved' = {} /\ Waiting' = {} /\ Undecided' = {}
        <4>1. \A m \in Ops : m # n => journal[m].phase \in Terminal
          BY <3>1 DEF Unresolved
        <4> QED BY <1>3, <2>3, <4>1
                DEF Unresolved, Waiting, Undecided, Terminal, Durable, PreCommit
      <3>3. /\ ~Active(lease) /\ ~Active(mlease) /\ "lease" \notin tmp
            /\ lease.state # "Absent" /\ mlease.state # "Absent" /\ ~Completes(lease)
        BY <1>1, <3>1, AtWork
      <3>4. vault = journal[n].snapshot.target /\ VaultExists
        BY <3>1
        DEF VInv, KeptInv, DurableObjectInVault, Calm, Waiting, ProjectionInv, ObjectInv, VaultExists
      <3>5. Completes(lease)' => vault = journal'[lease.op].snapshot.target
        BY <1>1, <1>4, <2>3, <3>3, <3>4 DEF Completes
      <3>6. job.lease.op = 0 /\ ~Completes(job.lease)'
        BY <1>4, <2>2, <2>3, <2>6 DEF Completes, Ops
      <3>7. LeaseJobInv'
        BY <1>1, <1>4, <2>2, <3>2, <3>6 DEF LeaseJobInv, Active, Fits, VaultExists
      <3>8. MemoryInv'
        BY <1>1, <2>2, <3>2, <3>3 DEF MemoryInv, Active
      <3>9. LoadedInv' /\ ObjectInv'
        BY <1>1, <3>2 DEF LoadedInv, ObjectInv
      <3>10. FileInv'
        BY <1>1, <1>5, <2>2, <3>2, <3>3, <3>4, <3>5, <3>6 DEF FileInv, BaseInv, Active, VaultExists
      <3> QED BY <2>4, <3>7, <3>8, <3>9, <3>10 DEF ProjectionInv
    <2> QED BY <2>5, <2>6
  <1> QED BY <1>6, <1>7 DEF Finish

\* The vault of an invalidated session is deleted when nothing is unresolved.
LEMMA DeleteProjects == ASSUME Calm, IInv, VInv, ProjectionInv, DeleteVault PROVE ProjectionInv'
  <1>1. /\ job.at = "delete" /\ host = "up" /\ host' = "up"
        /\ UNCHANGED <<journal, lease, tmp, mlease>>
    BY JobUp DEF DeleteVault, HandlerStep
  <1>2. vault' = NoVault /\ Continue([job EXCEPT !.at = "lease"])
    BY FailsByTemporary DEF DeleteVault
  <1>3. job.ok = NoPending /\ job.err = NoPending /\ Unresolved = {}
    BY <1>1 DEF VInv, HandlerInv, Calm
  <1>4. /\ job.lease.state = "Uninitialized" /\ job.lease.op = 0
        /\ job.reply.type = "Invalidated"
    BY <1>1 DEF ProjectionInv, LeaseJobInv
  <1>5. /\ job'.at = "lease" /\ job'.lease = job.lease /\ job'.ok = NoPending
        /\ job'.err = NoPending /\ job'.reply = job.reply
    BY <1>2, <1>3, NextStep, NextLease DEF Continue, IInv
  <1>6. Ops' = Ops /\ Unresolved' = {} /\ Waiting' = {} /\ Undecided' = {}
    BY <1>1, <1>3, SameProjection, WaitingUnresolved
  <1>7. ~Completes(job.lease)' /\ ~Completes(lease)' /\ lease.state # "Absent"
        /\ mlease.state # "Absent"
    <2>1. ~Completes(lease) /\ lease.state # "Absent" /\ mlease.state # "Absent"
      BY <1>1, AtWork
    <2> QED BY <1>1, <1>4, <1>5, <1>6, <2>1 DEF Completes, Ops
  <1>8. LeaseJobInv'
    BY <1>4, <1>5, <1>6, <1>7 DEF LeaseJobInv, Active
  <1>9. ConfirmedInv'
    BY <1>5, EmptyFields DEF ConfirmedInv, Confirmed
  <1>10. MemoryInv'
    BY <1>1, <1>4, <1>5, <1>6, <1>7 DEF MemoryInv, Invalidating
  <1>11. LoadedInv' /\ ObjectInv'
    BY <1>1, <1>6 DEF LoadedInv, ObjectInv
  <1>12. "lease" \in tmp => lease = mlease
    BY <1>1, AtWork
  <1>13. FileInv'
    BY <1>1, <1>2, <1>6, <1>7, <1>12 DEF FileInv, BaseInv, VaultExists
  <1> QED BY <1>8, <1>9, <1>10, <1>11, <1>13 DEF ProjectionInv

\* The lease write: memory has the new metadata, and the file has it too unless a temporary
\* file was in the way.
LEMMA PersistProjects == ASSUME Calm, IInv, VInv, ProjectionInv, PersistLease PROVE ProjectionInv'
  <1>1. /\ job.at = "lease" /\ host = "up" /\ host' = "up" /\ UNCHANGED <<journal, vault>>
        /\ mlease' = job.lease
    BY JobUp DEF PersistLease
  <1>2. Ops' = Ops /\ Unresolved' = Unresolved /\ Waiting' = Waiting /\ Undecided' = Undecided
    BY <1>1, SameProjection
  <1>3. /\ job.lease.state # "Absent" /\ ~Completes(job.lease)
        /\ Active(job.lease) => Unresolved = {} /\ Fits(job.lease)
        /\ \A n \in Waiting : job.lease.vseq = journal[n].snapshot.target.seq
    BY <1>1 DEF ProjectionInv, LeaseJobInv
  <1>4. MemoryInv'
    BY <1>1, <1>2, <1>3 DEF MemoryInv, Active, Fits, VaultExists, Completes
  <1>5. LoadedInv' /\ ObjectInv'
    BY <1>1, <1>2 DEF LoadedInv, ProjectionInv, ObjectInv
  <1>6. CASE LeaseWriteGoes(job.lease)
    <2>1. "lease" \notin tmp /\ "lease" \notin tmp' /\ lease' = job.lease
      BY <1>6 DEF LeaseWriteGoes, WriteGoes
    <2>2. job'.at \in {"removal", "audit", "idle"} /\ pending' = job.ok
      BY <2>1, NextStep, EmptyFields, FailsByTemporary
      DEF PersistLease, LeaseWriteFails, Return, IInv
    <2>3. LeaseJobInv'
      BY <2>2 DEF LeaseJobInv
    <2>4. ConfirmedInv'
      BY <1>1, <1>2, <2>2 DEF ProjectionInv, ConfirmedInv, Confirmed
    <2>5. BaseInv'
      BY <1>1, <1>2, <1>3, <2>1, WaitingUnresolved DEF BaseInv, Active, Fits, VaultExists, Completes
    <2>6. FileInv'
      BY <1>1, <1>2, <1>3, <2>1, <2>5, WaitingUnresolved
      DEF FileInv, Active, Fits, VaultExists, Completes
    <2> QED BY <1>4, <1>5, <2>3, <2>4, <2>6 DEF ProjectionInv
  <1>7. CASE LeaseWriteFails(job.lease) /\ Fail(job.err)
    <2>1. "lease" \in tmp /\ "lease" \notin tmp' /\ lease' = lease
      BY <1>7, FailsByTemporary DEF LeaseWriteFails
    <2>2. job'.at = "idle" /\ pending' = job.err
      BY <1>7, EmptyFields DEF Fail, Return
    <2>3. LeaseJobInv'
      BY <2>2 DEF LeaseJobInv
    <2>4. ConfirmedInv'
      BY <1>1, <1>2, <2>1, <2>2 DEF ProjectionInv, ConfirmedInv, Confirmed
    <2>5. lease = mlease /\ (Unresolved = {} \/ Beginning) /\ ~Completes(lease)
          /\ lease.state # "Absent"
      BY <1>1, <2>1 DEF ProjectionInv, FileInv
    <2>6. Beginning => ~Confirming /\ ~Invalidating
      BY DEF Beginning, Confirming, Invalidating, BeginReplies
    <2>7. Active(lease) => Waiting = {}
      BY <1>1, <2>5, <2>6, WaitingUnresolved DEF ProjectionInv, FileInv
    <2>8. Active(lease) /\ ~VaultExists => Unresolved = {}
      BY <1>1, <2>5, <2>6 DEF ProjectionInv, MemoryInv, Fits
    <2>9. BaseInv'
      BY <1>1, <1>2, <2>1 DEF ProjectionInv, FileInv, BaseInv, Active, VaultExists, Completes
    <2>10. FileInv'
      BY <1>1, <1>2, <2>1, <2>5, <2>7, <2>8, <2>9 DEF FileInv, Active, VaultExists, Completes
    <2> QED BY <1>4, <1>5, <2>3, <2>4, <2>10 DEF ProjectionInv
  <1> QED BY <1>6, <1>7 DEF PersistLease

\* The audit append leaves all of it.
LEMMA AuditProjects == ASSUME VInv, ProjectionInv, RecordAudit PROVE ProjectionInv'
  <1>1. /\ job.at = "audit" /\ host = "up" /\ host' = "up" /\ tmp' = tmp
        /\ UNCHANGED <<journal, lease, vault, mlease>>
    BY JobUp DEF RecordAudit, HandlerStep, disk
  <1>2. Confirmed(pending)
    BY <1>1, AtWork
  <1> QED BY <1>1, <1>2, AnswerProjects DEF RecordAudit, Fail

\* The projection holds initially.
LEMMA ProjectionInvInit == Init => ProjectionInv
  <1> SUFFICES ASSUME Init PROVE ProjectionInv
    OBVIOUS
  <1>1. Ops = {} /\ job.at = "idle" /\ host = "down" /\ lease.state = "Absent" /\ ~VaultExists
        /\ pending = NoPending
    BY EmptyFields DEF Init, Ops, AbsentLease, VaultExists
  <1>2. Waiting = {} /\ ~Active(lease) /\ ~Completes(lease)
    BY <1>1 DEF Waiting, Active, Completes
  <1>3. LeaseJobInv /\ MemoryInv /\ LoadedInv /\ ObjectInv
    BY <1>1, <1>2 DEF LeaseJobInv, MemoryInv, LoadedInv, ObjectInv
  <1>4. ConfirmedInv /\ FileInv
    BY <1>1, <1>2, EmptyFields DEF ConfirmedInv, Confirmed, FileInv, BaseInv
  <1> QED BY <1>3, <1>4 DEF ProjectionInv

\* The projection is kept by every step.
LEMMA ProjectionInvStep ==
    ASSUME Calm, IInv, VInv, ProjectionInv, [Next]_vars
    PROVE  ProjectionInv'
  <1>1. CASE UNCHANGED vars
    <2>1. UNCHANGED <<journal, lease, vault, tmp, host, mlease, pending, job, boot>>
      BY <1>1 DEF vars, disk, memory
    <2> QED BY <2>1, SameProjection
        DEF ProjectionInv, LeaseJobInv, ConfirmedInv, Confirmed, MemoryInv, LoadedInv, FileInv,
            BaseInv, ObjectInv, Active, Fits, VaultExists, Completes, Beginning, Confirming,
            Invalidating
  <1>2. CASE Write
    BY <1>2, BeginProjects, BindProjects, CommitProjects, VaultWriteProjects,
       RemovalPendingProjects, FinishProjects, DeleteProjects, PersistProjects, AuditProjects,
       CloseProjects
    DEF Write
  <1> QED BY <1>1, <1>2, ProcessProjects, HandleProjects DEF Next

\* Without I/O errors, with an orderly client that draws fresh ids, a group that is shown as
\* protected or leased has the vault that its metadata tells of (ActiveHasVault), wherever
\* the host was killed.
THEOREM ProtectedHasVault ==
    ASSUME Calm PROVE Spec => []ActiveHasVault
  <1>1. IInv /\ VInv /\ ProjectionInv /\ [Next]_vars => ProjectionInv'
    BY ProjectionInvStep
  <1>2. ProjectionInv => ActiveHasVault
    BY DEF ProjectionInv, MemoryInv, ActiveHasVault, Idle, Active, Fits, Invalidating
  <1> QED BY <1>1, <1>2, ProjectionInvInit, VaultInvariant, PTL DEF Spec

\* Under the same conditions a group with an unresolved operation is never shown as
\* protected or leased (UnresolvedNeverActive): every restart leads to reconciliation first.
THEOREM ResolvedBeforeActive ==
    ASSUME Calm PROVE Spec => []UnresolvedNeverActive
  <1>1. IInv /\ VInv /\ ProjectionInv /\ [Next]_vars => ProjectionInv'
    BY ProjectionInvStep
  <1>2. ProjectionInv => UnresolvedNeverActive
    BY DEF ProjectionInv, MemoryInv, UnresolvedNeverActive, has_unresolved, Idle, Active, Beginning
  <1> QED BY <1>1, <1>2, ProjectionInvInit, VaultInvariant, PTL DEF Spec

=============================================================================
