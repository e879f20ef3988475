---------------------------- MODULE GroupRuntime ----------------------------
(***************************************************************************)
(* One protected account group inside the native host (dispatcher.rs):     *)
(* the durable operation journal, the lease metadata file and the vault    *)
(* file on disk, and the lease, the pending operation and the connection's *)
(* protocol in the memory of one host process.                             *)
(*                                                                         *)
(* The host handles one message at a time, but a handler makes several     *)
(* durable writes and the process may die before any of them.  A handler   *)
(* is therefore an action that evaluates its guards, followed by one       *)
(* action per durable write; `job' holds what is left of it.  Every write  *)
(* goes through a temporary file that a crash may leave behind, and a left *)
(* temporary file makes the next write of that file fail once              *)
(* (atomic_file.rs opens it with create_new).                              *)
(*                                                                         *)
(* The journal's in-memory copy is not a variable: persist updates memory  *)
(* and disk together or neither (see DurableWrite), so they are equal      *)
(* whenever the process runs.  Snapshots arrive whole, the chunks are      *)
(* abstracted; the clock, the transition counter and the wording of        *)
(* messages are left out.                                                  *)
(***************************************************************************)
EXTENDS OperationPhases

CONSTANTS
    MaxOps,       \* bound: operations the journal may hold
    MaxLeases,    \* bound: lease ids granted
    MaxFaults,    \* bound: durable writes and audit appends that fail by I/O error
    OrderlyClient, \* TRUE: the extension invalidates a session only when no operation
                  \* is unresolved, as background.ts does when its awaits do not race
    FreshIds      \* TRUE: a v6 client never gives a new request the operation id of one
                  \* that completed, as a client that draws random ids does

ASSUME BoundsAssumption == MaxOps \in Nat /\ MaxLeases \in Nat /\ MaxFaults \in Nat
ASSUME ClientAssumption == OrderlyClient \in BOOLEAN /\ FreshIds \in BOOLEAN

VARIABLES
    \* on disk
    journal,      \* sequence of operations, in the order of their sequence numbers
    lease,        \* the lease metadata file
    vault,        \* the group's vault object, or NoVault
    tmp,          \* files whose temporary file a crash left behind
    \* in the memory of the host process
    host,         \* "down", "loading", "recovering", "repairing", "up"
    proto,        \* negotiated protocol, 0 before the handshake
    mlease,       \* the lease metadata the handlers read and change
    pending,      \* the pending operation, or NoPending
    job,          \* what is left of the handler that is running
    boot,         \* progress of startup_recover
    out,          \* the message the last step sent, or NoMessage
    \* counters of the environment
    lastLease,    \* lease ids granted so far
    faults        \* I/O errors so far

disk == <<journal, lease, vault, tmp>>
memory == <<host, proto, mlease, pending, job, boot, out>>
vars == <<disk, memory, lastLease, faults>>

-----------------------------------------------------------------------------
(* State.                                                                  *)

Files == {"journal", "lease", "vault"}

Reasons == {"startup_reconciliation", "site_cookie_recreated",
            "degraded_cookie_detected", "other"}

Operation ==
    [kind : OperationKind, attempt : Attempts \cup {NoAttempt}, lease : Nat,
     reason : Reasons, base : Nat, phase : OperationPhase, snapshot : SnapshotBinding]

GroupState == {"Uninitialized", "Sealed", "Leased", "Evicting", "Degraded"}

\* lease id 0 and pending operation 0 are None; hw is the operation sequence
\* high-water mark of the metadata; "Absent" is a missing file.
LeaseMetadata ==
    [state : GroupState \cup {"Absent"}, id : Nat, op : Nat, vseq : Nat,
     floor : {6, 7}, hw : Nat]

\* Mutant of InitialLease: a fresh group starts in the migration-only state.
InitialLeaseUnlocking(vaultExists) ==
    [state |-> IF vaultExists THEN "Sealed" ELSE "Unlocking",
     id |-> 0, op |-> 0, vseq |-> 0, floor |-> 6, hw |-> 0]

InitialLease(vaultExists) ==
    [state |-> IF vaultExists THEN "Sealed" ELSE "Uninitialized",
     id |-> 0, op |-> 0, vseq |-> 0, floor |-> 6, hw |-> 0]

AbsentLease == [state |-> "Absent", id |-> 0, op |-> 0, vseq |-> 0, floor |-> 6, hw |-> 0]

\* counted: snapshot_cookie_count is Some; full: every snapshot chunk has been
\* taken, so that a repeated chunk is dropped or refused.
PendingOperation == [op : Nat, confirmed : BOOLEAN, counted : BOOLEAN, full : BOOLEAN]
NoPending == [op |-> 0, confirmed |-> FALSE, counted |-> FALSE, full |-> FALSE]
NewPending(n) == [op |-> n, confirmed |-> FALSE, counted |-> FALSE, full |-> FALSE]

MessageTypes == {"None", "HandshakeAck", "EnrollGrant", "InjectGrant", "InjectResultHandled",
                 "SnapshotRequired", "Status", "EmptyScope", "Confirmed", "Authorized",
                 "Completed", "Invalidated"}
Message == [type : MessageTypes, op : Nat, success : BOOLEAN]
NoMessage == [type |-> "None", op |-> 0, success |-> FALSE]
Msg(type, n, success) == [type |-> type, op |-> n, success |-> success]

NoOperation ==
    [kind |-> "Eviction", attempt |-> NoAttempt, lease |-> 0, reason |-> "other",
     base |-> 0, phase |-> "NotCommitted", snapshot |-> NoSnapshot]

\* at: the next durable write; op, phase: the journal record it concerns;
\* new: the record to append; snapshot: the binding being committed; lease: the
\* metadata to persist; ok, err: the pending operation after success or failure
\* of the lease write; reply: the message sent on success.
JobSteps == {"idle", "begin", "close", "bind", "unknown", "vault", "commit", "revert",
             "classify", "finish", "delete", "lease", "removal", "audit"}
Job == [at : JobSteps, op : Nat, phase : OperationPhase, new : Operation,
        snapshot : SnapshotBinding, lease : LeaseMetadata,
        ok : PendingOperation, err : PendingOperation, reply : Message]
NoJob == [at |-> "idle", op |-> 0, phase |-> "NotCommitted", new |-> NoOperation,
          snapshot |-> NoSnapshot, lease |-> AbsentLease,
          ok |-> NoPending, err |-> NoPending, reply |-> NoMessage]

\* todo: operations startup_recover has still to look at; need, committed: its result.
Boot == [todo : SUBSET Nat, need : BOOLEAN, committed : Nat]
NoBoot == [todo |-> {}, need |-> FALSE, committed |-> 0]

Ops == 1 .. Len(journal)
Unresolved == {n \in Ops : journal[n].phase \notin Terminal}
has_unresolved == Unresolved # {}

VaultExists == vault # NoVault

Idle == host = "up" /\ job.at = "idle"
Ready == Idle /\ proto # 0

-----------------------------------------------------------------------------
(* Durable writes (atomic_file.rs).  A write fails before the replace when *)
(* a temporary file is in its way or by an I/O error; the temporary file   *)
(* is removed on failure.  A lease write that fails after the replace      *)
(* leaves the new file on disk; a journal write that does so is classified *)
(* as Target and succeeds.                                                 *)

WriteGoes(file) == file \notin tmp /\ UNCHANGED <<tmp, faults>>

IOError == faults < MaxFaults /\ faults' = faults + 1

WriteFails(file) ==
    \/ file \in tmp /\ tmp' = tmp \ {file} /\ UNCHANGED faults
    \/ file \notin tmp /\ IOError /\ UNCHANGED tmp

LeaseWriteGoes(next) == WriteGoes("lease") /\ lease' = next
LeaseWriteFails(next) ==
    /\ WriteFails("lease")
    /\ \/ lease' = lease
       \/ lease' = next /\ "lease" \notin tmp

JournalWriteGoes(next) == WriteGoes("journal") /\ journal' = next
JournalWriteFails == WriteFails("journal") /\ UNCHANGED journal

\* Mutant of TransitionGoes: the phase graph is not consulted.
TransitionUnchecked(n, phase) == JournalWriteGoes([journal EXCEPT ![n].phase = phase])

\* OperationJournalStore::transition: a no-op in the same phase, refused when
\* the phase has no such successor, a durable write otherwise.
TransitionGoes(n, phase) ==
    IF journal[n].phase = phase THEN UNCHANGED <<journal, tmp, faults>>
    ELSE /\ phase \in Successors(journal[n].phase)
         /\ phase = "Committed" => journal[n].snapshot # NoSnapshot
         /\ JournalWriteGoes([journal EXCEPT ![n].phase = phase])

TransitionFails(n, phase) ==
    /\ journal[n].phase # phase
    /\ IF phase \in Successors(journal[n].phase)
       THEN JournalWriteFails
       ELSE UNCHANGED <<journal, tmp, faults>>

\* The handler returns: its error reply carries nothing the properties read.
Return(pend, message) == job' = NoJob /\ pending' = pend /\ out' = message
Fail(pend) == Return(pend, NoMessage)

\* The handler goes on with the durable write `step'.
Continue(step) == job' = step /\ UNCHANGED pending /\ out' = NoMessage

-----------------------------------------------------------------------------
(* Process life: crash at any point, start, recovery, repair.              *)

\* The file the process is about to write.
Writing ==
    {file \in Files :
        CASE file = "lease"   -> host \in {"loading", "repairing"} \/ job.at = "lease"
          [] file = "vault"   -> job.at = "vault"
          [] file = "journal" ->
                host = "recovering"
                    \/ job.at \notin {"idle", "delete", "audit", "lease", "vault"}}

Crash ==
    /\ host # "down"
    /\ host' = "down"
    /\ \E left \in SUBSET Writing : tmp' = tmp \cup left
    /\ proto' = 0 /\ mlease' = AbsentLease /\ boot' = NoBoot
    /\ Fail(NoPending)
    /\ UNCHANGED <<journal, lease, vault, lastLease, faults>>

Launch ==
    /\ host = "down"
    /\ host' = "loading"
    /\ UNCHANGED <<disk, proto, mlease, pending, job, boot, out, lastLease, faults>>

\* Mutant of LoadedLease: a missing vault does not reset the metadata.
LoadedLeaseUnreset == IF lease.state = "Absent" THEN InitialLease(VaultExists) ELSE lease

\* load_or_initialize: what the metadata file is replaced with on load.
LoadedLease ==
    IF lease.state = "Absent" THEN InitialLease(VaultExists)
    ELSE IF lease.state # "Uninitialized" /\ ~VaultExists THEN InitialLease(FALSE)
    ELSE lease

\* "vault exists while lease metadata is uninitialized"
LoadRefuses == lease.state = "Uninitialized" /\ VaultExists

Load ==
    /\ host = "loading"
    /\ ~LoadRefuses
    /\ IF LoadedLease = lease THEN UNCHANGED <<lease, tmp, faults>>
       ELSE LeaseWriteGoes(LoadedLease)
    /\ host' = "recovering"
    /\ mlease' = LoadedLease
    /\ boot' = [todo |-> Unresolved, need |-> has_unresolved, committed |-> 0]
    /\ UNCHANGED <<journal, vault, proto, pending, job, out, lastLease>>

\* NativeHostApp::open returns an error: the process ends.
OpenFails ==
    /\ host' = "down" /\ proto' = 0 /\ mlease' = AbsentLease /\ boot' = NoBoot
    /\ Fail(NoPending)
    /\ UNCHANGED <<vault, lastLease>>

LoadFails ==
    /\ host = "loading"
    /\ UNCHANGED journal
    /\ \/ LoadRefuses /\ UNCHANGED <<lease, tmp, faults>>
       \/ ~LoadRefuses /\ LoadedLease # lease /\ LeaseWriteFails(LoadedLease)
    /\ OpenFails

\* The phase startup_recover moves operation n to next: to Aborted without a
\* snapshot binding and once NotCommitted, else to the recovered phase.
StartupPhase(n) ==
    LET o == journal[n]
        recovered == RecoveredPhase(o.phase, o.snapshot, vault)
    IN  IF o.snapshot = NoSnapshot THEN "Aborted"
        ELSE IF recovered = "NotCommitted" /\ o.phase = "NotCommitted" THEN "Aborted"
        ELSE recovered

Recover(n) ==
    LET phase == StartupPhase(n)
    IN  /\ host = "recovering"
        /\ n \in boot.todo /\ \A m \in boot.todo : n <= m
        /\ TransitionGoes(n, phase)
        /\ boot' = [boot EXCEPT !.todo = IF phase = "NotCommitted" THEN @ ELSE @ \ {n},
                                !.committed = IF phase \in Durable THEN n ELSE @]
        /\ UNCHANGED <<lease, vault, host, proto, mlease, pending, job, out, lastLease>>

RecoverFails(n) ==
    /\ host = "recovering"
    /\ n \in boot.todo /\ \A m \in boot.todo : n <= m
    /\ TransitionFails(n, StartupPhase(n))
    /\ UNCHANGED lease
    /\ OpenFails

Recovered ==
    /\ host = "recovering" /\ boot.todo = {}
    /\ host' = "repairing"
    /\ UNCHANGED <<disk, proto, mlease, pending, job, boot, out, lastLease, faults>>

\* repair_lease_v1_projection: the pending operation of the metadata completed
\* in the journal, or an operation was found unresolved.
CompletedProjection == mlease.op \in Ops /\ journal[mlease.op].phase = "Completed"

\* Mutant of DegradeOnRepair: only a transition the lease file knows of degrades.
DegradeIfEvicting == boot.need /\ mlease.state = "Evicting"

DegradeOnRepair == boot.need /\ (mlease.state # "Uninitialized" \/ VaultExists)

RepairedLease ==
    IF CompletedProjection
    THEN LET done == journal[mlease.op]
             enrolled == done.kind = "Enrollment"
         IN  [mlease EXCEPT !.state = IF enrolled THEN "Leased" ELSE "Sealed",
                            !.id = IF enrolled THEN done.lease ELSE 0,
                            !.op = 0,
                            !.vseq = done.snapshot.target.seq]
    ELSE [mlease EXCEPT !.state = "Degraded",
                        !.op = boot.committed,
                        !.vseq = IF boot.committed = 0 THEN @
                                 ELSE journal[boot.committed].snapshot.target.seq]

Repair ==
    /\ host = "repairing"
    /\ IF CompletedProjection \/ DegradeOnRepair
       THEN LeaseWriteGoes(RepairedLease) /\ mlease' = RepairedLease
       ELSE UNCHANGED <<lease, tmp, faults, mlease>>
    /\ host' = "up"
    /\ boot' = NoBoot
    /\ UNCHANGED <<journal, vault, proto, pending, job, out, lastLease>>

RepairFails ==
    /\ host = "repairing"
    /\ CompletedProjection \/ DegradeOnRepair
    /\ LeaseWriteFails(RepairedLease)
    /\ UNCHANGED journal
    /\ OpenFails

-----------------------------------------------------------------------------
(* Handshake and leases.                                                   *)

LeaseJob(next, ok, err, reply) ==
    [NoJob EXCEPT !.at = "lease", !.lease = next, !.ok = ok, !.err = err, !.reply = reply]

\* A handler that only changes memory, or that fails, or that starts writing.
HandlerKeeps == UNCHANGED <<disk, host, proto, mlease, boot, lastLease, faults>>

Handshake6 ==
    /\ Idle /\ proto = 0
    /\ mlease.floor < 7
    /\ proto' = 6
    /\ Return(pending, Msg("HandshakeAck", 0, TRUE))
    /\ UNCHANGED <<disk, host, mlease, boot, lastLease, faults>>

\* activate_protocol_v7 persists the metadata only when it changes it; the
\* handshake completes after that write (see PersistLease).
Handshake7 ==
    /\ Idle /\ proto = 0
    /\ IF mlease.floor < 7 \/ mlease.hw < Len(journal)
       THEN /\ Continue(LeaseJob([mlease EXCEPT !.floor = 7, !.hw = Len(journal)],
                                 pending, pending, Msg("HandshakeAck", 0, TRUE)))
            /\ UNCHANGED proto
       ELSE proto' = 7 /\ Return(pending, Msg("HandshakeAck", 0, TRUE))
    /\ UNCHANGED <<disk, host, mlease, boot, lastLease, faults>>

\* Mutant of NothingPending: only the operation in memory is looked at.
NothingPendingInMemory == pending = NoPending

\* Neither the connection nor the journal has an operation under way.
NothingPending == pending = NoPending /\ ~has_unresolved

\* handle_lease_request: denied while an operation is pending or unresolved.
LeaseAllowed ==
    /\ Ready
    /\ NothingPending
    /\ lastLease < MaxLeases
    /\ lastLease' = lastLease + 1
    /\ UNCHANGED <<disk, host, proto, mlease, boot, faults>>

Enrollable == mlease.state = "Uninitialized" /\ ~VaultExists

GrantEnrollment7 ==
    /\ LeaseAllowed
    /\ proto = 7
    /\ Enrollable
    /\ Continue(LeaseJob([mlease EXCEPT !.id = lastLease'], NoPending, NoPending,
                         Msg("EnrollGrant", 0, TRUE)))

\* A new journal record; n is its operation id and sequence number.
BeginJob(n, kind, attempt, leaseId, reason, next, reply) ==
    [NoJob EXCEPT !.at = "begin", !.op = n,
                  !.new = [kind |-> kind, attempt |-> attempt, lease |-> leaseId,
                           reason |-> reason, base |-> mlease.vseq,
                           phase |-> "NotCommitted", snapshot |-> NoSnapshot],
                  !.lease = next, !.ok = NewPending(n), !.err = NoPending,
                  !.reply = reply]

BeginEnrollment6 ==
    LET n == Len(journal) + 1
    IN  /\ LeaseAllowed
        /\ proto = 6
        /\ Enrollable
        /\ n <= MaxOps
        /\ Continue(BeginJob(n, "Enrollment", NoAttempt, lastLease', "other",
                [mlease EXCEPT !.state = "Evicting", !.id = lastLease', !.op = n],
                Msg("EnrollGrant", n, TRUE)))

\* The capability is consumed and the vault opened before this point; both may
\* fail without any effect on this state (see CapabilityLedger).
BeginInject ==
    /\ LeaseAllowed
    /\ mlease.state = "Sealed" /\ VaultExists
    /\ Continue(LeaseJob([mlease EXCEPT !.state = "Leased", !.id = lastLease', !.op = 0,
                                        !.vseq = vault.seq],
                         NoPending, NoPending, Msg("InjectGrant", 0, TRUE)))

\* A failed injection is audited first; the handler returns if that fails.
InjectFailed ==
    /\ Ready
    /\ mlease.state = "Leased" /\ mlease.id # 0
    /\ UNCHANGED <<disk, host, proto, mlease, boot, lastLease>>
    /\ \/ /\ Continue(LeaseJob([mlease EXCEPT !.state = "Degraded"], pending, pending,
                                Msg("InjectResultHandled", 0, FALSE)))
          /\ UNCHANGED faults
       \/ IOError /\ Return(pending, Msg("InjectResultHandled", 0, FALSE))

\* session.invalidate: only a pending operation refuses it.
SessionInvalidate ==
    /\ Ready
    /\ pending = NoPending
    /\ mlease.state # "Uninitialized"
    /\ OrderlyClient => ~has_unresolved
    /\ Continue([LeaseJob([mlease EXCEPT !.state = "Uninitialized", !.id = 0, !.op = 0, !.vseq = 0],
                          NoPending, NoPending, Msg("Invalidated", 0, TRUE))
                 EXCEPT !.at = "delete"])
    /\ HandlerKeeps

-----------------------------------------------------------------------------
(* Beginning an operation.                                                 *)

\* handle_evict_begin (protocol v6): the client chooses the operation id, a new
\* one or that of an earlier request.
EvictBegin6(n, reason) ==
    LET state == mlease.state
        reconciliation == reason = "startup_reconciliation" /\ state # "Uninitialized"
        activeLease == state = "Leased" /\ mlease.id # 0
        recreation == state = "Sealed" /\ reason = "site_cookie_recreated"
        degraded == state = "Degraded" /\ mlease.id # 0 /\ reason = "degraded_cookie_detected"
        kind == IF reconciliation THEN "Reconciliation" ELSE "Eviction"
        request == BeginJob(n, kind, NoAttempt, IF recreation THEN 0 ELSE mlease.id, reason,
                            [mlease EXCEPT !.state = "Evicting", !.op = n],
                            Msg("SnapshotRequired", n, TRUE))
    IN  /\ Ready
        /\ pending = NoPending
        /\ reconciliation \/ activeLease \/ recreation \/ degraded
        /\ has_unresolved => reconciliation
        /\ n \in 1 .. Len(journal) + 1 /\ n <= MaxOps
        /\ FreshIds /\ n \in Ops => journal[n].phase # "Completed"
        /\ Continue([request EXCEPT !.at = IF has_unresolved THEN "close" ELSE "begin"])
        /\ HandlerKeeps

\* prepare_for_v6_reconciliation: every unresolved operation is classified and
\* closed, one durable transition at a time, before the new one begins.
ClosePhase(n) ==
    LET o == journal[n]
        recovered == RecoveredPhase(o.phase, o.snapshot, vault)
    IN  IF o.snapshot # NoSnapshot /\ o.phase \in PreCommit /\ recovered # o.phase
        THEN recovered
        ELSE IF o.phase = "NotCommitted" THEN "Aborted" ELSE "ReconciliationRequired"

HandlerStep == UNCHANGED <<host, proto, boot, lastLease>>

CloseUnresolved(n) ==
    /\ job.at = "close"
    /\ n \in Unresolved /\ \A m \in Unresolved : n <= m
    /\ \/ /\ TransitionGoes(n, ClosePhase(n))
          /\ Continue([job EXCEPT !.at = IF Unresolved' = {} THEN "begin" ELSE "close"])
       \/ TransitionFails(n, ClosePhase(n)) /\ Fail(pending)
    /\ UNCHANGED <<lease, vault, mlease>> /\ HandlerStep

\* Mutant of NewAttempt: a resolved operation forgets its attempt id.
NewUnresolvedAttempt(a) == \A m \in Unresolved : journal[m].attempt # a

\* operation_by_attempt finds nothing.
NewAttempt(a) == \A m \in Ops : journal[m].attempt # a

\* handle_operation_begin (protocol v7) with a new attempt id.  The extension
\* names the lease that the host told it.
OperationBegin7(a, kind) ==
    LET n == Len(journal) + 1
    IN  /\ Ready /\ proto = 7
        /\ NewAttempt(a)
        /\ CASE kind = "Enrollment" -> mlease.state = "Uninitialized"
             [] kind = "Eviction" -> mlease.state = "Leased" /\ mlease.id # 0
             [] kind = "Reconciliation" -> mlease.state # "Uninitialized"
        /\ NothingPending
        /\ n <= MaxOps
        /\ Continue(BeginJob(n, kind, a, mlease.id, "other",
                [mlease EXCEPT !.state = "Evicting", !.op = n, !.hw = n],
                Msg("SnapshotRequired", n, TRUE)))
        /\ HandlerKeeps

\* handle_operation_begin with an attempt id the journal knows: answered from
\* the journal, nothing is begun.
OperationReplay7(n) ==
    /\ Ready /\ proto = 7
    /\ n \in Ops /\ journal[n].attempt # NoAttempt
    /\ Return(pending, Msg(IF journal[n].phase = "NotCommitted" THEN "SnapshotRequired"
                           ELSE "Status", n, TRUE))
    /\ HandlerKeeps

\* handle_operation_status: rebuilds the pending operation after a restart.
OperationStatus7(n) ==
    LET o == journal[n]
    IN  /\ Ready /\ proto = 7
        /\ n \in Ops
        /\ Return(IF pending = NoPending /\ o.phase \notin Terminal
                  THEN [op |-> n, confirmed |-> o.phase \in Durable,
                        counted |-> o.snapshot # NoSnapshot, full |-> FALSE]
                  ELSE pending,
                  Msg("Status", n, TRUE))
        /\ HandlerKeeps

\* The request fingerprint.
SameRequest(o, p) ==
    <<o.kind, o.attempt, o.lease, o.reason, o.base>> = <<p.kind, p.attempt, p.lease, p.reason, p.base>>

\* journal.begin of the request: a known id is a Duplicate, not a write, when the
\* request is the same, and is refused otherwise.
Begin ==
    /\ job.at = "begin"
    /\ \/ /\ IF job.op \in Ops
             THEN SameRequest(journal[job.op], job.new) /\ UNCHANGED <<journal, tmp, faults>>
             ELSE JournalWriteGoes(Append(journal, job.new))
          /\ Continue([job EXCEPT !.at = "lease"])
       \/ /\ IF job.op \in Ops
             THEN ~SameRequest(journal[job.op], job.new) /\ UNCHANGED <<journal, tmp, faults>>
             ELSE JournalWriteFails
          /\ Fail(pending)
    /\ UNCHANGED <<lease, vault, mlease>> /\ HandlerStep

-----------------------------------------------------------------------------
(* Committing a snapshot.                                                  *)

\* The connection's protocol fixes which snapshot and result messages bind to
\* the pending operation.
Addressed ==
    /\ Ready
    /\ pending.op # 0
    /\ proto = 7 <=> journal[pending.op].attempt # NoAttempt

\* Mutant of PreparedBinding: the digest of the replaced object is not recorded.
BindingWithoutPrevious(n, S) ==
    [cookies |-> S, previous |-> NoVault, target |-> PreparedTarget(n, S, vault)]

\* The binding of the prepared write.
PreparedBinding(n, S) ==
    [cookies |-> S, previous |-> vault, target |-> PreparedTarget(n, S, vault)]

\* Every chunk of a snapshot was taken, whatever becomes of it.
SnapshotTaken == [pending EXCEPT !.full = TRUE]

\* The last chunk of a commit snapshot (handle_snapshot_chunk).
Snapshot(S) ==
    LET n == pending.op
        taken == SnapshotTaken
        enrollment == journal[n].kind = "Enrollment"
    IN  /\ Addressed
        /\ ~pending.confirmed /\ ~pending.full
        /\ IF enrollment /\ S = {}
           THEN /\ job' = [LeaseJob([mlease EXCEPT !.state = "Uninitialized", !.id = 0, !.op = 0],
                                   NoPending, NoPending, Msg("EmptyScope", n, TRUE))
                          EXCEPT !.at = "finish", !.op = n, !.phase = "Aborted"]
                /\ pending' = NoPending /\ out' = NoMessage
           ELSE IF S = {} /\ ~VaultExists THEN Fail(taken)
           ELSE /\ job' = [NoJob EXCEPT !.at = "bind", !.op = n,
                                       !.snapshot = PreparedBinding(n, S)]
                /\ pending' = taken /\ out' = NoMessage
        /\ HandlerKeeps

\* bind_snapshot: once, before the commit, or again with the same binding.
BindSnapshot ==
    LET n == job.op
        o == journal[n]
        bindable == o.phase \in PreCommit
        same == o.snapshot = job.snapshot
    IN  /\ job.at = "bind"
        /\ \/ /\ bindable /\ (same \/ o.snapshot = NoSnapshot)
              /\ IF same THEN UNCHANGED <<journal, tmp, faults>>
                 ELSE JournalWriteGoes([journal EXCEPT ![n].snapshot = job.snapshot])
              /\ Continue([job EXCEPT !.at = "unknown"])
           \/ /\ IF bindable /\ o.snapshot = NoSnapshot THEN JournalWriteFails
                 ELSE ~(bindable /\ same) /\ UNCHANGED <<journal, tmp, faults>>
              /\ Fail(pending)
        /\ UNCHANGED <<lease, vault, mlease>> /\ HandlerStep

MarkUnknown ==
    /\ job.at = "unknown"
    /\ \/ /\ TransitionGoes(job.op, "DurabilityUnknown")
          /\ Continue([job EXCEPT !.at = "vault"])
       \/ TransitionFails(job.op, "DurabilityUnknown") /\ Fail(pending)
    /\ UNCHANGED <<lease, vault, mlease>> /\ HandlerStep

\* commit_prepared: an empty observation writes nothing.  The write may fail
\* before the replace, or after it with the target object in place.
WriteVault ==
    LET target == job.snapshot.target
    IN  /\ job.at = "vault"
        /\ \/ /\ IF job.snapshot.cookies = {} THEN UNCHANGED <<vault, tmp, faults>>
                 ELSE WriteGoes("vault") /\ vault' = target
              /\ Continue([job EXCEPT !.at = "commit"])
           \/ /\ job.snapshot.cookies # {}
              /\ WriteFails("vault")
              /\ \/ UNCHANGED vault /\ Continue([job EXCEPT !.at = "revert"])
                 \/ /\ "vault" \notin tmp
                    /\ vault' = target /\ Continue([job EXCEPT !.at = "classify"])
        /\ UNCHANGED <<journal, lease, mlease>> /\ HandlerStep

\* The lease projection of a committed snapshot, and the confirmed operation.
CommittedJob ==
    LET confirmed == [pending EXCEPT !.confirmed = TRUE, !.counted = TRUE]
    IN  [LeaseJob([mlease EXCEPT !.vseq = job.snapshot.target.seq, !.op = job.op],
                  confirmed, confirmed, Msg("Confirmed", job.op, TRUE))
         EXCEPT !.op = job.op]

MarkCommitted ==
    /\ job.at = "commit"
    /\ \/ TransitionGoes(job.op, "Committed") /\ Continue(CommittedJob)
       \/ TransitionFails(job.op, "Committed") /\ Fail(pending)
    /\ UNCHANGED <<lease, vault, mlease>> /\ HandlerStep

RevertCommit ==
    /\ job.at = "revert"
    /\ TransitionGoes(job.op, "NotCommitted") \/ TransitionFails(job.op, "NotCommitted")
    /\ Fail(pending)
    /\ UNCHANGED <<lease, vault, mlease>> /\ HandlerStep

ClassifyCommit ==
    LET o == journal[job.op]
        phase == RecoveredPhase(o.phase, o.snapshot, vault)
    IN  /\ job.at = "classify"
        /\ \/ /\ TransitionGoes(job.op, phase)
              /\ IF phase \in Durable THEN Continue(CommittedJob) ELSE Fail(pending)
           \/ TransitionFails(job.op, phase) /\ Fail(pending)
        /\ UNCHANGED <<lease, vault, mlease>> /\ HandlerStep

\* mark_external_result_pending, then evict.confirmed.
MarkRemovalPending ==
    /\ job.at = "removal"
    /\ \/ TransitionGoes(job.op, "BrowserRemovalPending") /\ Return(pending, job.reply)
       \/ TransitionFails(job.op, "BrowserRemovalPending") /\ Fail(pending)
    /\ UNCHANGED <<lease, vault, mlease>> /\ HandlerStep

-----------------------------------------------------------------------------
(* Removal and its result.                                                 *)

\* Mutant of RemovalConfirmed: the pending operation need not be confirmed.
RemovalUnconfirmed == pending.op # 0

RemovalConfirmed == pending.confirmed

RemovePrepare7 ==
    /\ Addressed /\ proto = 7
    /\ RemovalConfirmed
    /\ Return([pending EXCEPT !.counted = FALSE, !.full = FALSE], NoMessage)
    /\ HandlerKeeps

\* verify_snapshot: the observation is the one the binding was tagged with.
SnapshotMatches(n, S) == journal[n].snapshot.cookies = S

\* The last chunk of a removal_precheck snapshot.
RemovalSnapshot7(S) ==
    LET n == pending.op
        taken == SnapshotTaken
    IN  /\ Addressed /\ proto = 7
        /\ ~pending.full
        /\ IF journal[n].snapshot = NoSnapshot THEN Fail(taken)
           ELSE IF SnapshotMatches(n, S)
           THEN Return(taken, Msg("Authorized", n, TRUE))
           ELSE /\ job' = [LeaseJob([mlease EXCEPT !.state = "Degraded"], NoPending, taken,
                                   Msg("Completed", n, FALSE))
                          EXCEPT !.at = "finish", !.op = n, !.phase = "ReconciliationRequired"]
                /\ pending' = taken /\ out' = NoMessage
        /\ HandlerKeeps

\* handle_evict_result_v7: what operation.completed will tell.
ReportedSuccess(enrollment, success, remaining) ==
    success /\ (IF enrollment THEN remaining > 0 ELSE remaining = 0)

\* handle_evict_result: the pending operation is taken first.
EvictResult(success, remaining) ==
    LET n == pending.op
        enrollment == journal[n].kind = "Enrollment"
        retained == /\ enrollment /\ success /\ pending.counted
                    /\ remaining = Cardinality(journal[n].snapshot.cookies)
                    /\ remaining > 0
        removed == ~enrollment /\ success /\ remaining = 0
        next == CASE retained -> [mlease EXCEPT !.state = "Leased", !.op = 0]
                  [] removed -> [mlease EXCEPT !.state = "Sealed", !.id = 0, !.op = 0]
                  [] OTHER -> [mlease EXCEPT !.state = "Degraded", !.op = 0]
        reply == IF proto = 7
                 THEN Msg("Completed", n, ReportedSuccess(enrollment, success, remaining))
                 ELSE NoMessage
    IN  /\ Addressed
        /\ pending.confirmed
        /\ job' = [LeaseJob(next, NoPending, NoPending, reply)
                   EXCEPT !.at = "finish", !.op = n,
                          !.phase = IF retained \/ removed THEN "Completed"
                                    ELSE "ReconciliationRequired"]
        /\ pending' = NoPending /\ out' = NoMessage
        /\ HandlerKeeps

\* The terminal transition of an operation, before its lease projection.
Finish ==
    /\ job.at = "finish"
    /\ \/ TransitionGoes(job.op, job.phase) /\ Continue([job EXCEPT !.at = "lease"])
       \/ TransitionFails(job.op, job.phase) /\ Fail(pending)
    /\ UNCHANGED <<lease, vault, mlease>> /\ HandlerStep

-----------------------------------------------------------------------------
(* Steps shared by several handlers.                                       *)

DeleteVault ==
    /\ job.at = "delete"
    /\ \/ /\ vault' = NoVault /\ UNCHANGED faults
          /\ Continue([job EXCEPT !.at = "lease"])
       \/ VaultExists /\ IOError /\ UNCHANGED vault /\ Fail(pending)
    /\ UNCHANGED <<journal, lease, tmp, mlease>> /\ HandlerStep

\* LeaseMetadataStore::persist after the handler changed the lease in memory,
\* and what the handler does next.
PersistLease ==
    /\ job.at = "lease"
    /\ mlease' = job.lease
    /\ \/ /\ LeaseWriteGoes(job.lease)
          /\ proto' = IF job.reply.type = "HandshakeAck" THEN 7 ELSE proto
          /\ CASE job.reply.type = "Confirmed" ->
                    job' = [job EXCEPT !.at = "removal"] /\ pending' = job.ok /\ out' = NoMessage
               [] job.reply.type \in {"InjectGrant", "Invalidated"} ->
                    job' = [job EXCEPT !.at = "audit"] /\ pending' = job.ok /\ out' = NoMessage
               [] OTHER -> Return(job.ok, job.reply)
       \/ LeaseWriteFails(job.lease) /\ Fail(job.err) /\ UNCHANGED proto
    /\ UNCHANGED <<journal, vault, host, boot, lastLease>>

\* audit.record(..)? : an append that fails turns the reply into an error.
RecordAudit ==
    /\ job.at = "audit"
    /\ \/ Return(pending, job.reply) /\ UNCHANGED faults
       \/ IOError /\ Fail(pending)
    /\ UNCHANGED <<disk, mlease>> /\ HandlerStep

-----------------------------------------------------------------------------
Init ==
    /\ journal = <<>> /\ lease = AbsentLease /\ vault = NoVault /\ tmp = {}
    /\ host = "down" /\ proto = 0 /\ mlease = AbsentLease /\ pending = NoPending
    /\ job = NoJob /\ boot = NoBoot /\ out = NoMessage
    /\ lastLease = 0 /\ faults = 0

Process ==
    \/ Launch \/ Load \/ LoadFails \/ Recovered \/ Repair \/ RepairFails
    \/ \E n \in Ops : Recover(n) \/ RecoverFails(n)

Handle ==
    \/ Handshake6 \/ Handshake7 \/ GrantEnrollment7 \/ BeginEnrollment6 \/ BeginInject
    \/ InjectFailed \/ SessionInvalidate \/ RemovePrepare7
    \/ \E n \in 1 .. MaxOps, reason \in Reasons : EvictBegin6(n, reason)
    \/ \E a \in Attempts, kind \in OperationKind : OperationBegin7(a, kind)
    \/ \E n \in Ops : OperationReplay7(n) \/ OperationStatus7(n)
    \/ \E S \in SUBSET Cookies : Snapshot(S) \/ RemovalSnapshot7(S)
    \/ \E success \in BOOLEAN, remaining \in 0 .. Cardinality(Cookies) :
            EvictResult(success, remaining)

Write ==
    \/ Begin \/ BindSnapshot \/ MarkUnknown \/ WriteVault \/ MarkCommitted \/ RevertCommit
    \/ ClassifyCommit \/ MarkRemovalPending \/ Finish \/ DeleteVault \/ PersistLease
    \/ RecordAudit
    \/ \E n \in Ops : CloseUnresolved(n)

Next == Crash \/ Process \/ Handle \/ Write

Spec == Init /\ [][Next]_vars

-----------------------------------------------------------------------------
(* Properties.                                                             *)

TypeOK ==
    /\ journal \in Seq(Operation)
    /\ lease \in LeaseMetadata /\ mlease \in LeaseMetadata
    /\ vault \in VaultObject
    /\ tmp \in SUBSET Files
    /\ host \in {"down", "loading", "recovering", "repairing", "up"}
    /\ proto \in {0, 6, 7}
    /\ pending \in PendingOperation
    /\ job \in Job
    /\ boot \in Boot
    /\ out \in Message
    /\ lastLease \in Nat /\ faults \in Nat

\* At most one operation of the group is unresolved, across both protocol
\* versions, failed writes, crashes and recovery (begin_v6, issue_v7).
AtMostOneUnresolved == \A m, n \in Unresolved : m = n

\* One attempt id of the extension never produces two operations, however often
\* operation.begin is repeated after lost replies and restarts.
OneOperationPerAttempt ==
    \A m, n \in Ops : journal[m].attempt = journal[n].attempt /\ journal[m].attempt # NoAttempt
                          => m = n

\* The journal only moves forward: a record never disappears or changes its
\* request, a bound snapshot is never replaced, and a phase changes only along
\* can_transition_to, so a terminal phase never.
JournalForward ==
    [][\A n \in Ops :
          /\ n \in Ops'
          /\ LET o == journal[n]
                 p == journal'[n]
             IN  /\ SameRequest(o, p)
                 /\ p.phase = o.phase \/ p.phase \in Successors(o.phase)
                 /\ p.snapshot = o.snapshot \/ o.snapshot = NoSnapshot]_journal

\* An interrupted commit can always be decided from the object on disk: it is
\* the previous or the target object of the binding, never a third one.
CommitClassifiable ==
    \A n \in Ops :
        LET o == journal[n]
        IN  o.phase \in PreCommit /\ o.snapshot # NoSnapshot
                => ClassifyVault(o.phase, o.snapshot, vault) # "ReconciliationRequired"

\* While an operation waits for the browser, the vault holds exactly the object
\* the operation committed, so that its cookies can be restored.
DurableObjectInVault ==
    \A n \in Ops : journal[n].phase \in Durable => vault = journal[n].snapshot.target

\* The object a waiting operation committed is never replaced by another one;
\* it can only be discarded by session.invalidate.
DurableObjectKept ==
    \A n \in Ops : journal[n].phase \in Durable => vault \in {journal[n].snapshot.target, NoVault}

\* A removal is authorized only while the vault holds the exact object that
\* the authorized operation committed.
AuthorizedObjectInVault ==
    out.type = "Authorized" => vault = journal[out.op].snapshot.target

\* Between two messages, a group that is shown as protected or as leased has a
\* vault, and the projected vault sequence is the one of that vault.
ActiveHasVault ==
    Idle /\ mlease.state \in {"Sealed", "Leased"} => VaultExists /\ mlease.vseq = vault.seq

\* Between two messages, a group with an unresolved operation is never shown as
\* protected or as leased: reconciliation comes first.
UnresolvedNeverActive ==
    Idle /\ mlease.state \in {"Sealed", "Leased"} => ~has_unresolved

=============================================================================
