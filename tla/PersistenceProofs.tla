-------------------------- MODULE PersistenceProofs --------------------------
(***************************************************************************)
(* What the host keeps in files.  write_verified_durable and persist make  *)
(* a file a register that is replaced as a whole, for every set of values  *)
(* and every number of crashes and I/O errors (DurableWrite).  On such a   *)
(* file the capability ledger lets a capability open the vault once and    *)
(* gives every approval a sequence number of its own, for every replay     *)
(* window, every number of prompts and every number of I/O errors and      *)
(* crashes (CapabilityLedger).                                             *)
(***************************************************************************)
EXTENDS DurableWrite, CapabilityLedger, SequenceTheorems, TLAPS

-----------------------------------------------------------------------------
(* A file.                                                                 *)

Asked == {"open", "fill", "sync", "verify", "replace"}
Applied == {"flush", "classify"}

\* What holds at the steps of a write: verify lets only the flushed value through
\* to the rename, so the target names a flushed file, which is the value written
\* from the rename to the end.  Until the rename the memory is the file, or an
\* earlier flush failed and none succeeded since.
WriteInv ==
    /\ stage \in Asked \cup Applied => writing \in Contents /\ reply = "none"
    /\ stage \in {"verify", "replace"} => synced = TRUE
    /\ stage = "replace" => tmp = writing
    /\ stage \in Applied => target = writing
    /\ stage = "classify" => unflushed = TRUE
    /\ stage \in Asked /\ copy # target => unflushed = TRUE
    /\ sound = TRUE

FileInv == FileTypeOK /\ WriteInv /\ MemoryIsFile

\* The initial state satisfies the invariant.
LEMMA FileInvInit == FileInit => FileInv
  <1> SUFFICES ASSUME FileInit PROVE FileInv
    OBVIOUS
  <1>1. FileTypeOK
    <2>1. {target, stable, copy, writing} \subseteq Contents \cup {Absent}
      BY DEF FileInit
    <2>2. tmp \in Contents \cup {Absent, Torn}
      BY DEF FileInit
    <2>3. synced \in BOOLEAN /\ sound \in BOOLEAN /\ unflushed \in BOOLEAN
      BY DEF FileInit
    <2>4. stage \in Steps \cup {"down", "idle"} /\ reply \in {"none", "Ok", "Err"}
      BY DEF FileInit
    <2>5. crashes \in 0 .. MaxCrashes /\ failures \in 0 .. MaxFailures
      BY LimitsAssumption DEF FileInit
    <2> QED BY <2>1, <2>2, <2>3, <2>4, <2>5 DEF FileTypeOK
  <1>2. WriteInv
    BY DEF FileInit, WriteInv, Asked, Applied
  <1>3. MemoryIsFile
    BY DEF FileInit, MemoryIsFile
  <1> QED BY <1>1, <1>2, <1>3 DEF FileInv

\* A write that ends before the rename, whatever ended it, keeps the invariant.
LEMMA NotCommittedInv ==
    ASSUME FileInv, stage \in Asked, NotCommitted, failures' \in 0 .. MaxFailures
    PROVE  FileInv'
  BY DEF NotCommitted, TmpAfterError, FileInv, FileTypeOK, WriteInv, MemoryIsFile, Asked, Applied, Steps

\* An I/O error stays within its bound.
LEMMA FaultType ==
    ASSUME FileInv, Fault \/ UNCHANGED failures
    PROVE  failures' \in 0 .. MaxFailures
  BY LimitsAssumption DEF FileInv, FileTypeOK, Fault

\* Every step keeps the invariant.
LEMMA FileInvStep == FileInv /\ [FileNext]_filevars => FileInv'
  <1> SUFFICES ASSUME FileInv, [FileNext]_filevars PROVE FileInv'
    OBVIOUS
  <1> USE ContentsAssumption, LimitsAssumption
  <1>1. CASE OpenFile
    BY <1>1 DEF OpenFile, FileInv, FileTypeOK, WriteInv, MemoryIsFile, Asked, Applied, Steps
  <1>2. ASSUME NEW c \in Contents, Persist(c) PROVE FileInv'
    BY <1>2 DEF Persist, FileInv, FileTypeOK, WriteInv, MemoryIsFile, Asked, Applied, Steps
  <1>3. CASE CreateTemporary
    <2>1. CASE NotCommitted
      BY <1>3, <2>1, FaultType, NotCommittedInv DEF CreateTemporary, Asked, Go
    <2>2. CASE tmp' = Torn /\ synced' = FALSE /\ Go("fill")
      BY <1>3, <2>2 DEF CreateTemporary, Go, FileInv, FileTypeOK, WriteInv, MemoryIsFile, Asked, Applied, Steps
    <2> QED BY <1>3, <2>1, <2>2 DEF CreateTemporary
  <1>4. CASE WriteAll
    <2>1. CASE Fault /\ NotCommitted
      BY <1>4, <2>1, FaultType, NotCommittedInv DEF WriteAll, Asked
    <2>2. CASE /\ stage' = "sync" /\ tmp' \in {writing, Torn} /\ (Fault \/ UNCHANGED failures)
               /\ UNCHANGED <<target, stable, synced, sound, unflushed, writing, copy, reply, crashes>>
      BY <1>4, <2>2, FaultType DEF WriteAll, FileInv, FileTypeOK, WriteInv, MemoryIsFile, Asked, Applied, Steps
    <2> QED BY <1>4, <2>1, <2>2 DEF WriteAll, Go
  <1>5. CASE SyncFile
    <2>1. CASE Fault /\ NotCommitted
      BY <1>5, <2>1, FaultType, NotCommittedInv DEF SyncFile, Asked
    <2>2. CASE synced' = TRUE /\ UNCHANGED tmp /\ Go("verify")
      BY <1>5, <2>2 DEF SyncFile, Go, FileInv, FileTypeOK, WriteInv, MemoryIsFile, Asked, Applied, Steps
    <2> QED BY <1>5, <2>1, <2>2 DEF SyncFile
  <1>6. CASE VerifyFile
    <2>1. CASE NotCommitted
      BY <1>6, <2>1, FaultType, NotCommittedInv DEF VerifyFile, Asked, Go
    <2>2. CASE tmp = writing /\ UNCHANGED <<tmp, synced>> /\ Go("replace")
      BY <1>6, <2>2 DEF VerifyFile, Go, FileInv, FileTypeOK, WriteInv, MemoryIsFile, Asked, Applied, Steps
    <2> QED BY <1>6, <2>1, <2>2 DEF VerifyFile
  <1>7. CASE AtomicReplace
    <2>1. CASE Fault /\ NotCommitted
      BY <1>7, <2>1, FaultType, NotCommittedInv DEF AtomicReplace, Asked
    <2>2. CASE /\ target' = tmp /\ tmp' = Absent /\ sound' = synced /\ stage' = "flush"
               /\ UNCHANGED <<stable, synced, unflushed, writing, copy, reply, crashes, failures>>
      BY <1>7, <2>2 DEF AtomicReplace, FileInv, FileTypeOK, WriteInv, MemoryIsFile, Asked, Applied, Steps
    <2> QED BY <1>7, <2>1, <2>2 DEF AtomicReplace
  <1>8. CASE SyncDirectory
    BY <1>8, FaultType
    DEF SyncDirectory, Committed, FileInv, FileTypeOK, WriteInv, MemoryIsFile, Asked, Applied, Steps, Fault
  <1>9. CASE Classify
    BY <1>9, FaultType
    DEF Classify, Committed, FileInv, FileTypeOK, WriteInv, MemoryIsFile, Asked, Applied, Steps, Fault
  <1>10. CASE ProcessDies
    BY <1>10 DEF ProcessDies, CanCrash, Down, FileInv, FileTypeOK, WriteInv, MemoryIsFile, Asked, Applied, Steps
  <1>11. CASE PowerLost
    <2>1. target' \in {target, stable} /\ stable' = target'
      BY <1>11 DEF PowerLost, FileInv, WriteInv
    <2>2. tmp' \in Contents \cup {Absent, Torn}
      BY <1>11 DEF PowerLost, FileInv, FileTypeOK
    <2>3. FileTypeOK'
      <3>1. {target, stable, copy, writing}' \subseteq Contents \cup {Absent}
        BY <1>11, <2>1 DEF PowerLost, Down, FileInv, FileTypeOK
      <3>2. synced' \in BOOLEAN /\ sound' \in BOOLEAN /\ unflushed' \in BOOLEAN
        BY <1>11 DEF PowerLost
      <3>3. stage' = "down" /\ reply' = "none"
        BY <1>11 DEF PowerLost, Down
      <3>4. crashes' \in 0 .. MaxCrashes /\ failures' \in 0 .. MaxFailures
        BY <1>11 DEF PowerLost, CanCrash, Down, FileInv, FileTypeOK
      <3> QED BY <2>2, <3>1, <3>2, <3>3, <3>4 DEF FileTypeOK
    <2>4. WriteInv' /\ MemoryIsFile'
      BY <1>11 DEF PowerLost, Down, WriteInv, MemoryIsFile, Asked, Applied
    <2> QED BY <2>3, <2>4 DEF FileInv
  <1>12. CASE UNCHANGED filevars
    BY <1>12 DEF filevars, FileInv, FileTypeOK, WriteInv, MemoryIsFile
  <1> QED
    BY <1>1, <1>2, <1>3, <1>4, <1>5, <1>6, <1>7, <1>8, <1>9, <1>10, <1>11, <1>12 DEF FileNext, Write

\* The invariant holds in every state of every behaviour.
LEMMA FileInvHolds == FileSpec => []FileInv
  BY FileInvInit, FileInvStep, PTL DEF FileSpec

\* A file is never found torn, and every part of the state keeps its type.
THEOREM FileTypeCorrect == FileSpec => []FileTypeOK
  <1>1. FileInv => FileTypeOK
    BY DEF FileInv
  <1> QED BY <1>1, FileInvHolds, PTL

\* Whenever the component serves requests its copy in memory is the file that
\* persist wrote, unless the last write reported that its flush and the read
\* that classifies it both failed.
THEOREM MemoryFollowsFile == FileSpec => []MemoryIsFile
  <1>1. FileInv => MemoryIsFile
    BY DEF FileInv
  <1> QED BY <1>1, FileInvHolds, PTL

-----------------------------------------------------------------------------
(* The refinement.                                                         *)

\* A new file is a new register.
LEMMA RegisterInit == FileInit => Register!Init
  BY DEF FileInit, Register!Init

\* A write that ends before the rename left the old value and says so.
LEMMA NotCommittedAnswersErr ==
    ASSUME stage \in Asked, NotCommitted
    PROVE  Register!AnswerErr
  BY DEF NotCommitted, Register!AnswerErr, Asked

\* The steps of a write before the rename are not seen from outside.
LEMMA GoStutters ==
    ASSUME stage \in Asked, stage' \in Asked, UNCHANGED <<target, stable, unflushed, reply>>
    PROVE  UNCHANGED Register!regvars
  BY DEF Register!regvars, Asked

\* Every step of the writer is a step of the register or leaves it alone.
LEMMA RegisterStep == FileInv /\ [FileNext]_filevars => [Register!Next]_(Register!regvars)
  <1> SUFFICES ASSUME FileInv, [FileNext]_filevars PROVE Register!Next \/ UNCHANGED Register!regvars
    BY DEF Register!Next
  <1>1. CASE OpenFile
    BY <1>1 DEF OpenFile, Register!regvars
  <1>2. ASSUME NEW c \in Contents, Persist(c) PROVE Register!Ask
    BY <1>2 DEF Persist, Register!Ask
  <1>3. CASE CreateTemporary
    BY <1>3, NotCommittedAnswersErr, GoStutters DEF CreateTemporary, Go, Asked, Register!Next
  <1>4. CASE WriteAll
    BY <1>4, NotCommittedAnswersErr, GoStutters DEF WriteAll, Go, Asked, Register!Next
  <1>5. CASE SyncFile
    BY <1>5, NotCommittedAnswersErr, GoStutters DEF SyncFile, Go, Asked, Register!Next
  <1>6. CASE VerifyFile
    BY <1>6, NotCommittedAnswersErr, GoStutters DEF VerifyFile, Go, Asked, Register!Next
  <1>7. CASE AtomicReplace
    <2>1. CASE NotCommitted
      BY <1>7, <2>1, NotCommittedAnswersErr DEF AtomicReplace, Asked, Register!Next
    <2>2. CASE /\ target' = tmp /\ stage' = "flush"
               /\ UNCHANGED <<stable, unflushed, reply>>
      <3>1. tmp \in Contents
        BY <1>7 DEF AtomicReplace, FileInv, WriteInv, Asked
      <3>2. Register!Apply
        BY <1>7, <2>2, <3>1 DEF AtomicReplace, Register!Apply
      <3> QED BY <3>2 DEF Register!Next
    <2> QED BY <1>7, <2>1, <2>2 DEF AtomicReplace
  <1>8. CASE SyncDirectory
    <2>1. CASE stable' = target /\ unflushed' = FALSE /\ Committed
      <3>1. Register!AnswerOk
        BY <1>8, <2>1 DEF SyncDirectory, Committed, Register!AnswerOk
      <3> QED BY <3>1 DEF Register!Next
    <2>2. CASE /\ unflushed' = TRUE /\ stage' = "classify"
               /\ UNCHANGED <<target, stable, reply>>
      <3>1. Register!Unsettle
        BY <1>8, <2>2 DEF SyncDirectory, Register!Unsettle
      <3> QED BY <3>1 DEF Register!Next
    <2> QED BY <1>8, <2>1, <2>2 DEF SyncDirectory
  <1>9. CASE Classify
    <2>1. unflushed = TRUE
      BY <1>9 DEF Classify, FileInv, WriteInv
    <2>2. Register!AnswerUnsettled
      BY <1>9, <2>1 DEF Classify, Committed, Register!AnswerUnsettled
    <2> QED BY <2>2 DEF Register!Next
  <1>10. CASE ProcessDies
    <2>1. Register!Die
      BY <1>10 DEF ProcessDies, Down, Register!Die
    <2> QED BY <2>1 DEF Register!Next
  <1>11. CASE PowerLost
    <2>1. target' \in {target, stable}
      BY <1>11 DEF PowerLost, FileInv, WriteInv
    <2>2. Register!LosePower
      BY <1>11, <2>1 DEF PowerLost, Down, Register!LosePower
    <2> QED BY <2>2 DEF Register!Next
  <1>12. CASE UNCHANGED filevars
    BY <1>12 DEF filevars, Register!regvars
  <1> QED
    BY <1>1, <1>2, <1>3, <1>4, <1>5, <1>6, <1>7, <1>8, <1>9, <1>10, <1>11, <1>12
    DEF FileNext, Write, Register!Next

\* The file that write_verified_durable and persist keep implements the register
\* that one writer replaces as a whole: a reader finds the old or the new value,
\* an answered write survives a loss of power, and a refused one left no trace.
THEOREM FileImplementsRegister == FileSpec => ImplementsRegister
  BY RegisterInit, RegisterStep, FileInvHolds, PTL DEF FileSpec, ImplementsRegister, Register!Spec

-----------------------------------------------------------------------------
(* The capability ledger: types.                                           *)

WindowKept == Len(mem.nonces) <= Window /\ Len(next.nonces) <= Window

\* The ledgers that are written literally are well typed and fit the window.
LEMMA ConstantTypes ==
    /\ NoPayload \notin Payload
    /\ NewLedger \in Ledger /\ Len(NewLedger.nonces) <= Window
    /\ NoLedger \in Ledger /\ Len(NoLedger.nonces) <= Window
  BY LedgerAssumption DEF NoPayload, Payload, NewLedger, NoLedger, Ledger

\* A ledger with another reservation, and one with its reservation cancelled.
LEMMA PendingTypes ==
    ASSUME NEW l \in Ledger, Len(l.nonces) <= Window
    PROVE  /\ [l EXCEPT !.pending = NoPayload] \in Ledger
           /\ Len([l EXCEPT !.pending = NoPayload].nonces) <= Window
           /\ \A p \in Payload :
                /\ [l EXCEPT !.issued = p.seq, !.pending = p] \in Ledger
                /\ Len([l EXCEPT !.issued = p.seq, !.pending = p].nonces) <= Window
  BY DEF Ledger, Payload

\* verify_and_consume keeps the ledger's type and the nonce window.
LEMMA ConsumedType ==
    ASSUME mem \in Ledger, Len(mem.nonces) <= Window, NEW p \in Payload
    PROVE  /\ ConsumedLedger(p) \in Ledger
           /\ Len(ConsumedLedger(p).nonces) <= Window
           /\ ConsumedLedger(p).issued = mem.issued
           /\ ConsumedLedger(p).consumed = p.seq
           /\ ConsumedLedger(p).pending = NoPayload
  <1> DEFINE used == Append(mem.nonces, p.nonce)
             kept == IF Len(used) > Window THEN Tail(used) ELSE used
  <1>1. mem.nonces \in Seq(Nat) /\ p.nonce \in Nat
    BY DEF Ledger, Payload
  <1>2. used \in Seq(Nat) /\ Len(used) = Len(mem.nonces) + 1 /\ used # <<>>
    BY <1>1, AppendProperties
  <1>3. kept \in Seq(Nat) /\ Len(kept) <= Window
    <2> HIDE DEF used
    <2>1. Tail(used) \in Seq(Nat) /\ Len(Tail(used)) = Len(used) - 1
      BY <1>2, HeadTailProperties
    <2>2. Len(mem.nonces) \in Nat /\ Window \in Nat
      BY <1>1, LenProperties, LedgerAssumption
    <2> QED BY <1>2, <2>1, <2>2
  <1>4. ConsumedLedger(p) = [mem EXCEPT !.consumed = p.seq, !.pending = NoPayload, !.nonces = kept]
    BY DEF ConsumedLedger
  <1> HIDE DEF kept
  <1> QED BY <1>3, <1>4 DEF Ledger, Payload

\* The initial state is well typed.
LEMMA TypeInit == Init => TypeOK /\ WindowKept
  <1> SUFFICES ASSUME Init PROVE TypeOK /\ WindowKept
    OBVIOUS
  <1>1. /\ disk \in Ledger /\ mem \in Ledger /\ next \in Ledger
        /\ Len(disk.nonces) <= Window /\ Len(mem.nonces) <= Window /\ Len(next.nonces) <= Window
    BY ConstantTypes DEF Init
  <1>2. opened \in Seq(Nat) /\ approved \subseteq Payload
    BY DEF Init
  <1> QED BY <1>1, <1>2 DEF Init, TypeOK, WindowKept

\* Where an authorization stands: what the step that comes next relies on.
Below(l) == \A p \in approved : p.seq < l.issued

Flow ==
    /\ at = "reserve" => next.pending \in Payload /\ next.pending.seq = next.issued /\ Below(next)
    /\ at = "prompt" => /\ mem.pending \in Payload /\ mem.pending.seq = mem.issued /\ Below(mem)
                        /\ disk = mem
    /\ at \in {"verify", "consume"} => signed \in approved
    /\ at = "consume" => /\ signed.seq = next.consumed /\ next.pending = NoPayload
                         /\ \A i \in 1 .. Len(opened) : opened[i] < signed.seq
    /\ token # 0 => /\ at = "idle"
                    /\ disk = mem /\ mem.consumed = token /\ mem.pending = NoPayload
                    /\ \A i \in 1 .. Len(opened) : opened[i] < token
                    /\ \E p \in approved : p.seq = token

\* The type invariant is kept by every step.
LEMMA TypeStep == TypeOK /\ WindowKept /\ Flow /\ [Next]_vars => TypeOK' /\ WindowKept'
  <1> SUFFICES ASSUME TypeOK, WindowKept, Flow, [Next]_vars PROVE TypeOK' /\ WindowKept'
    OBVIOUS
  <1>1. CASE UNCHANGED vars
    BY <1>1 DEF vars, TypeOK, WindowKept
  <1>2. CASE Crash
    <2>1. disk' \in {disk, next}
      BY <1>2 DEF Crash
    <2> QED BY <1>2, <2>1, ConstantTypes DEF Crash, TypeOK, WindowKept, history
  <1>3. CASE Open
    <2>1. /\ mem' \in Ledger /\ next' \in Ledger
          /\ Len(mem'.nonces) <= Window /\ Len(next'.nonces) <= Window
      BY <1>3, ConstantTypes, PendingTypes DEF Open, Start, TypeOK
    <2>2. at' \in {"initialize", "discard", "idle"}
      BY <1>3 DEF Open, Start
    <2> QED BY <1>3, <2>1, <2>2 DEF Open, TypeOK, WindowKept, history
  <1>4. ASSUME Persisted \/ PersistFails
        PROVE  /\ disk' \in Ledger /\ mem' \in Ledger /\ faults' \in Nat
               /\ Len(disk'.nonces) <= Window /\ Len(mem'.nonces) <= Window
    BY <1>4 DEF Persisted, PersistFails, IOError, TypeOK, WindowKept
  <1>5. CASE OpenWrites
    BY <1>4, <1>5 DEF OpenWrites, TypeOK, WindowKept, history
  <1>6. ASSUME StartReserve, retried' \in BOOLEAN PROVE TypeOK' /\ WindowKept'
    <2> DEFINE p == [seq |-> NextSequence, nonce |-> nonces + 1]
    <2>1. p \in Payload
      BY DEF Payload, NextSequence, TypeOK, Ledger
    <2>2. next' = [mem EXCEPT !.issued = p.seq, !.pending = p] /\ at' = "reserve"
      BY <1>6 DEF StartReserve, Start
    <2>3. next' \in Ledger /\ Len(next'.nonces) <= Window
      <3> HIDE DEF p
      <3> QED BY <2>1, <2>2, PendingTypes DEF TypeOK, WindowKept
    <2> QED BY <1>6, <2>2, <2>3 DEF StartReserve, TypeOK, WindowKept
  <1>7. CASE Reserve
    BY <1>6, <1>7 DEF Reserve
  <1>8. CASE ReserveWrites
    BY <1>4, <1>8 DEF ReserveWrites, Failed, TypeOK, WindowKept, history
  <1>9. CASE Sign
    <2>1. mem.pending \in Payload /\ approved' \subseteq Payload
      BY <1>9 DEF Sign, Flow, TypeOK
    <2> QED BY <1>9, <2>1 DEF Sign, TypeOK, WindowKept
  <1>10. ASSUME NEW vanished \in BOOLEAN, SignFails(vanished) PROVE TypeOK' /\ WindowKept'
    <2>1. next' \in Ledger /\ Len(next'.nonces) <= Window /\ at' \in {"cancel", "cancel_vanished"}
      BY <1>10, PendingTypes DEF SignFails, Start, TypeOK, WindowKept
    <2> QED BY <1>10, <2>1 DEF SignFails, TypeOK, WindowKept, history
  <1>11. CASE CancelWrites
    BY <1>4, <1>11 DEF CancelWrites, Failed, TypeOK, WindowKept, history
  <1>12. CASE Repeat
    BY <1>6, <1>12 DEF Repeat
  <1>13. ASSUME NEW expired \in BOOLEAN, Verify(expired) PROVE TypeOK' /\ WindowKept'
    <2>1. CASE Failed
      BY <1>13, <2>1 DEF Verify, Failed, TypeOK, WindowKept, history
    <2>2. CASE /\ Fresh(signed) /\ Start("consume", ConsumedLedger(signed))
               /\ UNCHANGED <<signed, retried, token>>
      <3>1. signed \in Payload
        BY <2>2 DEF Fresh, TypeOK, NoPayload, Ledger
      <3>2. next' \in Ledger /\ Len(next'.nonces) <= Window /\ at' = "consume"
        BY <2>2, <3>1, ConsumedType DEF Start, TypeOK, WindowKept
      <3> QED BY <1>13, <2>2, <3>2 DEF Verify, TypeOK, WindowKept, history
    <2> QED BY <1>13, <2>1, <2>2 DEF Verify
  <1>14. CASE ConsumeWrites
    <2>1. signed.seq \in Nat /\ NoPayload \in Payload \cup {NoPayload}
      BY DEF TypeOK, Payload, NoPayload
    <2> QED BY <1>4, <1>14, <2>1 DEF ConsumeWrites, Failed, TypeOK, WindowKept, history
  <1>15. CASE ReadForInject
    <2>1. opened \in Seq(Nat) /\ token \in Nat /\ faults \in Nat
      BY DEF TypeOK
    <2>2. opened' \in Seq(Nat)
      BY <1>15, <2>1, AppendProperties DEF ReadForInject
    <2>3. faults' \in Nat
      BY <1>15, <2>1 DEF ReadForInject, IOError
    <2> QED BY <1>15, <2>2, <2>3 DEF ReadForInject, TypeOK, WindowKept
  <1> QED BY <1>1, <1>2, <1>3, <1>5, <1>7, <1>8, <1>9, <1>10, <1>11, <1>12, <1>13, <1>14, <1>15
          DEF Next

-----------------------------------------------------------------------------
(* Order.  No approval and no opening is ahead of a ledger that can become *)
(* the file, although a failed write leaves the file newer than memory.    *)

Writing == {"initialize", "discard", "reserve", "cancel", "cancel_vanished", "consume"}

Ahead(l) ==
    /\ \A p \in approved : p.seq <= l.issued
    /\ \A i \in 1 .. Len(opened) : opened[i] <= l.consumed

Bounded ==
    /\ Ahead(disk)
    /\ at # "down" => Ahead(mem)
    /\ at \in Writing => Ahead(next)

LedgerInv ==
    /\ TypeOK /\ WindowKept /\ Flow /\ Bounded
    /\ SingleUse /\ ApprovalsDistinct /\ OpenedApproved

\* The invariant holds initially.
LEMMA LedgerInit == Init => LedgerInv
  <1> SUFFICES ASSUME Init PROVE LedgerInv
    OBVIOUS
  <1>1. approved = {} /\ Len(opened) = 0 /\ at = "down" /\ token = 0
    BY DEF Init
  <1> QED BY <1>1, TypeInit DEF LedgerInv, Flow, Bounded, Ahead, Writing, SingleUse,
                                ApprovalsDistinct, OpenedApproved

\* The order is kept by every step.
LEMMA BoundedStep == LedgerInv /\ [Next]_vars => Bounded'
  <1> SUFFICES ASSUME LedgerInv, [Next]_vars PROVE Bounded'
    OBVIOUS
  <1> USE DEF LedgerInv
  <1>0. /\ disk \in Ledger /\ mem \in Ledger /\ next \in Ledger /\ approved \subseteq Payload
        /\ opened \in Seq(Nat) /\ token \in Nat
    BY DEF TypeOK
  <1>1. CASE UNCHANGED vars
    BY <1>1 DEF vars, Bounded, Ahead
  <1>2. CASE Crash
    BY <1>2 DEF Crash, history, Bounded, Ahead, Writing
  <1>3. CASE Open
    <2>1. next'.issued = disk.issued /\ next'.consumed = disk.consumed /\ mem' = disk
      BY <1>0, <1>3 DEF Open, Start, NoLedger, NewLedger, Ledger
    <2> QED BY <1>3, <2>1 DEF Open, history, Bounded, Ahead
  <1>4. ASSUME UNCHANGED history, Persisted \/ PersistFails, at \in Writing, at' \notin Writing
        PROVE  Bounded'
    BY <1>4 DEF history, Persisted, PersistFails, Bounded, Ahead, Writing
  <1>5. CASE OpenWrites
    BY <1>4, <1>5 DEF OpenWrites, Writing
  <1>6. ASSUME StartReserve, at # "down" PROVE Bounded'
    <2>1. next'.issued = mem.issued + 1 /\ next'.consumed = mem.consumed
      BY <1>0, <1>6 DEF StartReserve, Start, NextSequence, Ledger
    <2>2. mem.issued \in Nat /\ \A p \in approved : p.seq \in Nat
      BY <1>0 DEF Ledger, Payload
    <2> QED BY <1>6, <2>1, <2>2 DEF StartReserve, Bounded, Ahead
  <1>7. CASE Reserve
    BY <1>6, <1>7 DEF Reserve
  <1>8. CASE ReserveWrites
    BY <1>4, <1>8 DEF ReserveWrites, Failed, Writing
  <1>9. CASE Sign
    <2>1. /\ mem.pending.seq = mem.issued /\ mem.issued \in Nat /\ at' = "verify"
          /\ disk = mem
      BY <1>0, <1>9 DEF Sign, Flow, Ledger
    <2> QED BY <1>9, <2>1 DEF Sign, Bounded, Ahead, Writing
  <1>10. ASSUME NEW vanished \in BOOLEAN, SignFails(vanished) PROVE Bounded'
    <2>1. next'.issued = mem.issued /\ next'.consumed = mem.consumed /\ at # "down"
      BY <1>0, <1>10 DEF SignFails, Start, Ledger
    <2> QED BY <1>10, <2>1 DEF SignFails, history, Bounded, Ahead
  <1>11. CASE CancelWrites
    BY <1>4, <1>11 DEF CancelWrites, Failed, Writing
  <1>12. CASE Repeat
    BY <1>6, <1>12 DEF Repeat
  <1>13. ASSUME NEW expired \in BOOLEAN, Verify(expired) PROVE Bounded'
    <2>1. CASE Failed
      BY <1>13, <2>1 DEF Verify, Failed, history, Bounded, Ahead, Writing
    <2>2. CASE Fresh(signed) /\ Start("consume", ConsumedLedger(signed))
      <3>1. signed \in Payload
        BY <1>0, <1>13 DEF Verify, Flow
      <3>2. next'.issued = mem.issued /\ next'.consumed = signed.seq
        BY <1>0, <2>2, <3>1, ConsumedType DEF Start, WindowKept
      <3>3. signed.seq > mem.consumed /\ signed.seq \in Nat /\ mem.consumed \in Nat
        BY <1>0, <2>2, <3>1 DEF Fresh, Payload, Ledger
      <3>4. \A i \in 1 .. Len(opened) : opened[i] \in Nat
        BY <1>0, ElementOfSeq
      <3> QED BY <1>13, <3>2, <3>3, <3>4 DEF Verify, history, Bounded, Ahead
    <2> QED BY <1>13, <2>1, <2>2 DEF Verify
  <1>14. CASE ConsumeWrites
    BY <1>4, <1>14 DEF ConsumeWrites, Failed, Writing
  <1>15. CASE ReadForInject
    <2>1. disk = mem /\ mem.consumed = token /\ at = "idle"
      BY <1>15 DEF ReadForInject, Flow
    <2>2. CASE UNCHANGED opened
      BY <1>15, <2>1, <2>2 DEF ReadForInject, Bounded, Ahead, Writing
    <2>3. CASE opened' = Append(opened, token)
      <3>1. \A i \in 1 .. Len(opened') : opened'[i] = token \/ (i \in 1 .. Len(opened) /\ opened'[i] = opened[i])
        BY <1>0, <2>3, AppendProperties, LenProperties
      <3>2. \A i \in 1 .. Len(opened') : opened'[i] <= token
        BY <1>0, <2>1, <3>1 DEF Bounded, Ahead
      <3> QED BY <1>15, <2>1, <3>2 DEF ReadForInject, Bounded, Ahead, Writing
    <2> QED BY <1>15, <2>2, <2>3 DEF ReadForInject
  <1> QED BY <1>1, <1>2, <1>3, <1>5, <1>7, <1>8, <1>9, <1>10, <1>11, <1>12, <1>13, <1>14, <1>15
          DEF Next

\* Every step leaves what the next one relies on.
LEMMA FlowStep == LedgerInv /\ [Next]_vars => Flow'
  <1> SUFFICES ASSUME LedgerInv, [Next]_vars PROVE Flow'
    OBVIOUS
  <1> USE DEF LedgerInv
  <1>0. /\ disk \in Ledger /\ mem \in Ledger /\ next \in Ledger /\ approved \subseteq Payload
        /\ opened \in Seq(Nat) /\ token \in Nat
    BY DEF TypeOK
  <1>1. CASE UNCHANGED vars
    BY <1>1 DEF vars, Flow, Below
  <1>2. CASE Crash
    BY <1>2 DEF Crash, Flow
  <1>3. CASE Open
    <2>1. at' \in {"initialize", "discard", "idle"} /\ token = 0
      BY <1>3 DEF Open, Start, Flow
    <2> QED BY <1>3, <2>1 DEF Open, Flow
  <1>4. CASE OpenWrites
    BY <1>4 DEF OpenWrites, Flow
  <1>5. ASSUME StartReserve, token = 0, at # "down" PROVE Flow'
    <2> DEFINE p == [seq |-> NextSequence, nonce |-> nonces + 1]
    <2>1. p \in Payload /\ p.seq = mem.issued + 1 /\ mem.issued \in Nat
      BY <1>0 DEF Payload, NextSequence, TypeOK, Ledger
    <2>2. next' = [mem EXCEPT !.issued = p.seq, !.pending = p] /\ at' = "reserve" /\ token' = 0
          /\ approved' = approved
      BY <1>5 DEF StartReserve, Start
    <2>3. next'.pending = p /\ next'.issued = p.seq
      <3> HIDE DEF p
      <3> QED BY <1>0, <2>2 DEF Ledger
    <2> HIDE DEF p
    <2>4. Below(next)'
      <3> SUFFICES ASSUME NEW q \in approved PROVE q.seq < next'.issued
        BY <2>2 DEF Below
      <3>1. q.seq \in Nat /\ q.seq <= mem.issued
        BY <1>0, <1>5 DEF Bounded, Ahead, Payload
      <3> QED BY <2>1, <2>3, <3>1
    <2> QED BY <1>0, <2>1, <2>2, <2>3, <2>4 DEF Flow
  <1>6. CASE Reserve
    BY <1>5, <1>6 DEF Reserve
  <1>7. CASE ReserveWrites
    <2>1. CASE Persisted /\ at' = "prompt" /\ UNCHANGED token
      BY <1>7, <2>1 DEF ReserveWrites, Persisted, Flow, Below, history
    <2>2. CASE Failed
      BY <1>7, <2>2 DEF ReserveWrites, Failed, Flow
    <2> QED BY <1>7, <2>1, <2>2 DEF ReserveWrites
  <1>8. CASE Sign
    BY <1>8 DEF Sign, Flow
  <1>9. ASSUME NEW vanished \in BOOLEAN, SignFails(vanished) PROVE Flow'
    <2>1. at' \in {"cancel", "cancel_vanished"} /\ token' = 0
      BY <1>9 DEF SignFails, Start, Flow
    <2> QED BY <2>1 DEF Flow
  <1>10. CASE CancelWrites
    <2>1. at' \in {"repeat", "idle"} /\ token' = 0
      BY <1>10 DEF CancelWrites, Failed, Flow
    <2> QED BY <2>1 DEF Flow
  <1>11. CASE Repeat
    BY <1>5, <1>11 DEF Repeat, Flow
  <1>12. ASSUME NEW expired \in BOOLEAN, Verify(expired) PROVE Flow'
    <2>1. at = "verify" /\ token = 0 /\ signed \in approved
      BY <1>12 DEF Verify, Flow
    <2>2. CASE Failed
      BY <2>1, <2>2 DEF Failed, Flow
    <2>3. CASE /\ Fresh(signed) /\ Start("consume", ConsumedLedger(signed))
               /\ UNCHANGED <<signed, retried, token>>
      <3>1. signed \in Payload
        BY <1>0, <2>1
      <3>2. next'.consumed = signed.seq /\ next'.pending = NoPayload /\ at' = "consume"
        BY <1>0, <2>3, <3>1, ConsumedType DEF Start, WindowKept
      <3>3. \A i \in 1 .. Len(opened) : opened[i] < signed.seq
        <4> SUFFICES ASSUME NEW i \in 1 .. Len(opened) PROVE opened[i] < signed.seq
          OBVIOUS
        <4>1. opened[i] \in Nat /\ signed.seq \in Nat /\ mem.consumed \in Nat
          BY <1>0, <3>1, ElementOfSeq DEF Payload, Ledger
        <4>2. opened[i] <= mem.consumed /\ signed.seq > mem.consumed
          BY <2>1, <2>3 DEF Bounded, Ahead, Fresh
        <4> QED BY <4>1, <4>2
      <3> QED BY <1>12, <2>1, <2>3, <3>2, <3>3 DEF Verify, Flow, history
    <2> QED BY <1>12, <2>2, <2>3 DEF Verify
  <1>13. CASE ConsumeWrites
    <2>1. at = "consume" /\ token = 0 /\ signed \in approved /\ at' = "idle"
      BY <1>13 DEF ConsumeWrites, Failed, Flow
    <2>2. CASE Failed
      BY <2>1, <2>2 DEF Failed, Flow
    <2>3. CASE Persisted /\ token' = signed.seq
      BY <1>13, <2>1, <2>3 DEF ConsumeWrites, Persisted, Flow, history
    <2> QED BY <1>13, <2>2, <2>3 DEF ConsumeWrites
  <1>14. CASE ReadForInject
    BY <1>14 DEF ReadForInject, Flow
  <1> QED BY <1>1, <1>2, <1>3, <1>4, <1>6, <1>7, <1>8, <1>9, <1>10, <1>11, <1>12, <1>13, <1>14
          DEF Next

-----------------------------------------------------------------------------
(* The theorems.                                                           *)

\* The invariant is inductive: only Sign and ReadForInject touch the histories.
LEMMA LedgerStep == LedgerInv /\ [Next]_vars => LedgerInv'
  <1> SUFFICES ASSUME LedgerInv, [Next]_vars PROVE LedgerInv'
    OBVIOUS
  <1>1. TypeOK' /\ WindowKept' /\ Flow' /\ Bounded'
    BY TypeStep, FlowStep, BoundedStep DEF LedgerInv
  <1>2. CASE UNCHANGED <<opened, approved>>
    BY <1>1, <1>2 DEF LedgerInv, SingleUse, ApprovalsDistinct, OpenedApproved
  <1>3. CASE Sign
    <2>1. UNCHANGED opened /\ approved' = approved \cup {mem.pending}
      BY <1>3 DEF Sign
    <2>2. \A p \in approved : p.seq < mem.pending.seq /\ p.seq \in Nat /\ mem.pending.seq \in Nat
      BY <1>3 DEF Sign, LedgerInv, Flow, Below, TypeOK, Payload
    <2>3. ApprovalsDistinct'
      BY <2>1, <2>2 DEF LedgerInv, ApprovalsDistinct
    <2> QED BY <1>1, <2>1, <2>3 DEF LedgerInv, SingleUse, OpenedApproved
  <1>4. CASE ReadForInject /\ ~UNCHANGED opened
    <2>1. opened' = Append(opened, token) /\ UNCHANGED approved /\ token # 0
      BY <1>4 DEF ReadForInject
    <2>2. opened \in Seq(Nat) /\ token \in Nat
      BY DEF LedgerInv, TypeOK
    <2>3. /\ \A i \in 1 .. Len(opened) : opened[i] < token
          /\ \E p \in approved : p.seq = token
      BY <2>1 DEF LedgerInv, Flow
    <2>4. Len(opened) \in Nat /\ Len(opened') = Len(opened) + 1
      BY <2>1, <2>2, AppendProperties, LenProperties
    <2>5. /\ opened'[Len(opened')] = token
          /\ \A i \in 1 .. Len(opened) : opened'[i] = opened[i]
      BY <2>1, <2>2, <2>4, AppendProperties
    <2>6. \A i \in 1 .. Len(opened') : i = Len(opened') \/ i \in 1 .. Len(opened)
      BY <2>4
    <2>7. SingleUse'
      BY <2>3, <2>4, <2>5, <2>6 DEF LedgerInv, SingleUse
    <2>8. OpenedApproved'
      BY <2>1, <2>3, <2>5, <2>6 DEF LedgerInv, OpenedApproved
    <2> QED BY <1>1, <2>1, <2>7, <2>8 DEF LedgerInv, ApprovalsDistinct
  <1>5. UNCHANGED <<opened, approved>> \/ Sign \/ (ReadForInject /\ ~UNCHANGED opened)
    <2>1. CASE UNCHANGED vars
      BY <2>1 DEF vars
    <2>2. CASE Reserve \/ Repeat
      BY <2>2 DEF Reserve, Repeat, StartReserve
    <2>3. CASE Crash \/ Open \/ OpenWrites
      BY <2>3 DEF Crash, Open, OpenWrites, history
    <2>4. CASE ReserveWrites \/ CancelWrites \/ ConsumeWrites
      BY <2>4 DEF ReserveWrites, CancelWrites, ConsumeWrites, history
    <2>5. CASE \E b \in BOOLEAN : SignFails(b) \/ Verify(b)
      BY <2>5 DEF SignFails, Verify, history
    <2>6. CASE ReadForInject
      BY <2>6 DEF ReadForInject
    <2> QED BY <2>1, <2>2, <2>3, <2>4, <2>5, <2>6 DEF Next
  <1> QED BY <1>2, <1>3, <1>4, <1>5

\* The invariant holds in every reachable state.
LEMMA LedgerInvariant == Spec => []LedgerInv
  BY LedgerInit, LedgerStep, PTL DEF Spec

\* The ledger, the authorization and their histories are well typed in every
\* execution, and the ledger file never holds more nonces than the replay window.
THEOREM LedgerTypeCorrect == Spec => []TypeOK
  <1>1. LedgerInv => TypeOK
    BY DEF LedgerInv
  <1> QED BY <1>1, LedgerInvariant, PTL

\* A capability opens the vault at most once: the sequence numbers of the tokens
\* that read_for_inject consumed are strictly increasing.
THEOREM CapabilitySingleUse == Spec => []SingleUse
  <1>1. LedgerInv => SingleUse
    BY DEF LedgerInv
  <1> QED BY <1>1, LedgerInvariant, PTL

\* No sequence number is approved twice with different nonces, whatever a failed
\* or interrupted ledger write leaves behind.
THEOREM ApprovalNumbersDistinct == Spec => []ApprovalsDistinct
  <1>1. LedgerInv => ApprovalsDistinct
    BY DEF LedgerInv
  <1> QED BY <1>1, LedgerInvariant, PTL

\* authorize_inject hands out a token only after the ledger file holds its
\* consumption.
THEOREM ConsumptionDurable == Spec => []ConsumedBeforeUnwrap
  <1>1. LedgerInv => ConsumedBeforeUnwrap
    BY DEF LedgerInv, TypeOK, Flow, ConsumedBeforeUnwrap
  <1> QED BY <1>1, LedgerInvariant, PTL

\* The vault is never opened without an approval of the user for that number.
THEOREM NoOpeningUnapproved == Spec => []OpenedApproved
  <1>1. LedgerInv => OpenedApproved
    BY DEF LedgerInv
  <1> QED BY <1>1, LedgerInvariant, PTL

=============================================================================
