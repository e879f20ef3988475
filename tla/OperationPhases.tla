--------------------------- MODULE OperationPhases ---------------------------
(***************************************************************************)
(* The durable life cycle of one cross-component operation, as the native  *)
(* host's operation journal records it (operation/model.rs), the sealed    *)
(* vault object it commits (transaction.rs), and the classification that   *)
(* resolves an interrupted commit from the bytes found on disk             *)
(* (atomic_file.rs, operation/recovery.rs).  Pure definitions: the state   *)
(* machines that use them are in GroupRuntime and DurableWrite.            *)
(***************************************************************************)
EXTENDS Naturals, Sequences, FiniteSets

CONSTANTS
    Cookies,      \* the cookies a snapshot of the protected scope may contain
    Attempts,     \* protocol v7 attempt ids an extension may use
    NoAttempt     \* an operation begun with protocol v6 has no attempt id

ASSUME CookiesFinite == IsFiniteSet(Cookies)
ASSUME NoAttemptAssumption == NoAttempt \notin Attempts

-----------------------------------------------------------------------------
(* Operation kinds and phases.                                             *)

OperationKind == {"Enrollment", "Eviction", "Reconciliation"}

PreCommit == {"NotCommitted", "DurabilityUnknown"}
Durable   == {"Committed", "BrowserRemovalPending"}
Terminal  == {"Completed", "Aborted", "ReconciliationRequired"}

OperationPhase == PreCommit \cup Durable \cup Terminal

\* can_transition_to: the successors of a phase; a terminal phase has none.
Successors(phase) ==
    CASE phase = "NotCommitted" ->
            {"DurabilityUnknown", "Committed", "Aborted", "ReconciliationRequired"}
      [] phase = "DurabilityUnknown" ->
            {"NotCommitted", "Committed", "ReconciliationRequired"}
      [] phase = "Committed" -> {"BrowserRemovalPending", "ReconciliationRequired"}
      [] phase = "BrowserRemovalPending" -> {"Completed", "ReconciliationRequired"}
      [] OTHER -> {}

-----------------------------------------------------------------------------
(* Sealed vault objects.  `by' stands for the fresh nonce of the           *)
(* encryption: two sealings never produce the same bytes, so an object is  *)
(* its own digest.  The vault sequence 0 marks "no object".                *)

VaultObject == [seq : Nat, cookies : SUBSET Cookies, by : Nat]
NoVault     == [seq |-> 0, cookies |-> {}, by |-> 0]

\* A durable snapshot binding: the snapshot behind the keyed tag and the
\* previous and target objects behind the two digests.
SnapshotBinding == [cookies : SUBSET Cookies, previous : VaultObject, target : VaultObject]
NoSnapshot      == [cookies |-> {}, previous |-> NoVault, target |-> NoVault]

\* prepare_after_snapshot: the object an operation would commit.  An empty
\* observation of an existing vault keeps that vault as it is.
PreparedTarget(op, snapshot, vault) ==
    IF snapshot = {} THEN vault
    ELSE [seq |-> vault.seq + 1, cookies |-> snapshot, by |-> op]

-----------------------------------------------------------------------------
(* Classification of the object on disk against a binding.                 *)

ClassifyObject(actual, previous, target) ==
    IF actual = NoVault THEN "Missing"
    ELSE IF actual = target THEN "Target"
    ELSE IF actual = previous THEN "Previous"
    ELSE "Neither"

ClassifyVault(phase, snapshot, vault) ==
    LET found == ClassifyObject(vault, snapshot.previous, snapshot.target)
        old   == \/ found = "Previous"
                 \/ found = "Missing" /\ snapshot.previous = NoVault
    IN  IF found = "Target" THEN "Committed"
        ELSE IF old /\ phase \in PreCommit THEN "NotCommitted"
        ELSE "ReconciliationRequired"

\* Mutant of RecoveredPhase: an unknown outcome is taken for a commit.
RecoveredOptimistic(phase, snapshot, vault) ==
    IF phase = "DurabilityUnknown" THEN "Committed"
    ELSE ClassifyVault(phase, snapshot, vault)

\* recover_vault_phase: the phase an operation is moved to; a durable phase
\* whose target object is in place is kept.
RecoveredPhase(phase, snapshot, vault) ==
    LET class == ClassifyVault(phase, snapshot, vault)
    IN  IF class = "Committed" /\ phase \in Durable THEN phase ELSE class

==============================================================================
