---------------------------- MODULE DurableWrite ----------------------------
(***************************************************************************)
(* One file that a component keeps its state in, written by                *)
(* OperationJournalStore::persist through write_verified_durable           *)
(* (atomic_file.rs): fill a temporary file opened with create_new, flush   *)
(* it, read it back, verify it, rename it over the target, flush the       *)
(* directory; on an error remove the temporary file and say whether the    *)
(* target was replaced.  After a failed directory flush persist decides    *)
(* from the bytes it reads.                                                *)
(*                                                                         *)
(* The process may die between any two steps, with or without the power.   *)
(* Assumed of the file system: rename is atomic, a flushed file keeps its  *)
(* contents and a flushed directory its entries; a file that was not       *)
(* flushed may be torn by a loss of power, and a rename that was not       *)
(* flushed may be undone.  The host is the only writer (instance_lock.rs). *)
(***************************************************************************)
EXTENDS Naturals

CONSTANTS
    Contents,    \* values the component may write
    Absent,      \* no such file
    Torn,        \* contents that are not a value
    MaxCrashes,  \* bound: crashes, with or without the power
    MaxFailures  \* bound: I/O errors

ASSUME ContentsAssumption == Absent \notin Contents /\ Torn \notin Contents /\ Absent # Torn
ASSUME LimitsAssumption == MaxCrashes \in Nat /\ MaxFailures \in Nat

VARIABLES
    target,   \* the file
    stable,   \* the file as a loss of power leaves it
    tmp,      \* the temporary file
    synced,   \* the temporary file was flushed
    sound,    \* the file that the target names was flushed
    unflushed, \* a directory flush failed and none succeeded since
    stage,    \* "down", "idle", or the next step of a write
    writing,  \* the value being written
    copy,     \* the component's copy in memory
    reply,    \* of the last write: "none", "Ok", "Err"
    crashes, failures

filevars == <<target, stable, tmp, synced, sound, unflushed, stage, writing, copy, reply, crashes, failures>>

Steps == {"open", "fill", "sync", "verify", "replace", "flush", "classify"}

Fault == failures < MaxFailures /\ failures' = failures + 1

FileInit ==
    /\ target = Absent /\ stable = Absent /\ tmp = Absent
    /\ synced = FALSE /\ sound = TRUE /\ unflushed = FALSE
    /\ stage = "down" /\ writing = Absent /\ copy = Absent /\ reply = "none"
    /\ crashes = 0 /\ failures = 0

\* OperationJournalStore::open: an absent file stands for the initial state.
OpenFile ==
    /\ stage = "down" /\ target # Torn
    /\ stage' = "idle" /\ copy' = target
    /\ UNCHANGED <<target, stable, tmp, synced, sound, unflushed, writing, reply, crashes, failures>>

Persist(c) ==
    /\ stage = "idle"
    /\ stage' = "open" /\ writing' = c /\ reply' = "none"
    /\ UNCHANGED <<target, stable, tmp, synced, sound, unflushed, copy, crashes, failures>>

\* Mutant of TmpAfterError: a failed write leaves its temporary file.
TmpKept == tmp

\* The clean-up of write_verified_durable.
TmpAfterError == Absent

\* NotCommitted: the write ends without having replaced the target.
NotCommitted ==
    /\ tmp' = TmpAfterError
    /\ stage' = "idle" /\ reply' = "Err"
    /\ UNCHANGED <<target, stable, synced, sound, unflushed, writing, copy, crashes>>

Go(step) == stage' = step /\ UNCHANGED <<target, stable, sound, unflushed, writing, copy, reply, crashes, failures>>

CreateTemporary ==
    /\ stage = "open"
    /\ \/ tmp = Absent /\ tmp' = Torn /\ synced' = FALSE /\ Go("fill")
       \/ tmp # Absent /\ NotCommitted /\ UNCHANGED failures
       \/ Fault /\ NotCommitted

\* write_all; what arrives may be damaged, which the read-back finds.
WriteAll ==
    /\ stage = "fill"
    /\ \/ tmp' = writing /\ UNCHANGED synced /\ Go("sync")
       \/ /\ Fault /\ tmp' = Torn /\ stage' = "sync"
          /\ UNCHANGED <<target, stable, synced, sound, unflushed, writing, copy, reply, crashes>>
       \/ Fault /\ NotCommitted

\* Mutant of SyncFile: the temporary file is not flushed.
SyncSkipped == stage = "sync" /\ UNCHANGED <<tmp, synced>> /\ Go("verify")

SyncFile ==
    /\ stage = "sync"
    /\ \/ synced' = TRUE /\ UNCHANGED tmp /\ Go("verify")
       \/ Fault /\ NotCommitted

VerifyFile ==
    /\ stage = "verify"
    /\ \/ tmp = writing /\ UNCHANGED <<tmp, synced>> /\ Go("replace")
       \/ tmp # writing /\ NotCommitted /\ UNCHANGED failures
       \/ Fault /\ NotCommitted

AtomicReplace ==
    /\ stage = "replace"
    /\ \/ /\ target' = tmp /\ tmp' = Absent /\ sound' = synced /\ stage' = "flush"
          /\ UNCHANGED <<stable, synced, unflushed, writing, copy, reply, crashes, failures>>
       \/ Fault /\ NotCommitted

\* Mutant of Committed: the copy in memory is not updated.
CommittedStale ==
    /\ stage' = "idle" /\ reply' = "Ok"
    /\ UNCHANGED <<target, tmp, synced, sound, writing, copy, crashes>>

\* persist returns Ok and the component's copy follows the file.
Committed ==
    /\ stage' = "idle" /\ reply' = "Ok" /\ copy' = writing
    /\ UNCHANGED <<target, tmp, synced, sound, writing, crashes>>

SyncDirectory ==
    /\ stage = "flush"
    /\ \/ stable' = target /\ unflushed' = FALSE /\ Committed /\ UNCHANGED failures
       \/ /\ Fault /\ unflushed' = TRUE /\ stage' = "classify"
          /\ UNCHANGED <<target, stable, tmp, synced, sound, writing, copy, reply, crashes>>

\* DurabilityUnknown: classify_object reads the target back, which may fail
\* too.  The host is the only writer, so what it reads is the target.
Classify ==
    /\ stage = "classify"
    /\ UNCHANGED <<stable, unflushed>>
    /\ \/ target = writing /\ Committed /\ UNCHANGED failures
       \/ /\ Fault
          /\ stage' = "idle" /\ reply' = "Err"
          /\ UNCHANGED <<target, tmp, synced, sound, writing, copy, crashes>>

Down == stage' = "down" /\ copy' = Absent /\ writing' = Absent /\ reply' = "none" /\ UNCHANGED failures

CanCrash == crashes < MaxCrashes /\ crashes' = crashes + 1

ProcessDies ==
    /\ stage # "down"
    /\ CanCrash
    /\ Down
    /\ UNCHANGED <<target, stable, tmp, synced, sound, unflushed>>

\* external: the file system after a loss of power.
PowerLost ==
    /\ CanCrash
    /\ Down
    /\ LET kept == IF sound \/ target = stable THEN target ELSE Torn
       IN  target' \in {kept, stable}
    /\ stable' = target'
    /\ tmp' \in IF tmp = Absent THEN {Absent} \cup ({target} \ {target'})
                ELSE {Absent, Torn} \cup (IF synced THEN {tmp} ELSE {})
    /\ synced' = TRUE /\ sound' = TRUE /\ unflushed' = FALSE

Write ==
    \/ CreateTemporary \/ WriteAll \/ SyncFile \/ VerifyFile \/ AtomicReplace
    \/ SyncDirectory \/ Classify

FileNext == OpenFile \/ (\E c \in Contents : Persist(c)) \/ Write \/ ProcessDies \/ PowerLost

FileSpec == FileInit /\ [][FileNext]_filevars

\* A started write ends, and the component comes back and writes again, as the
\* extension reconnects and repeats its request.
FairFileSpec == FileSpec /\ WF_filevars(OpenFile) /\ WF_filevars(\E c \in Contents : Persist(c)) /\ WF_filevars(Write)

-----------------------------------------------------------------------------
(* Properties.                                                             *)

FileTypeOK ==
    /\ {target, stable, copy, writing} \subseteq Contents \cup {Absent}
    /\ tmp \in Contents \cup {Absent, Torn}
    /\ synced \in BOOLEAN /\ sound \in BOOLEAN /\ unflushed \in BOOLEAN
    /\ stage \in Steps \cup {"down", "idle"}
    /\ reply \in {"none", "Ok", "Err"}
    /\ crashes \in 0 .. MaxCrashes /\ failures \in 0 .. MaxFailures

\* The component's copy in memory is the file whenever it serves requests, after
\* failed writes and restarts too, so that it never acts on a state that the
\* next start would not find (OperationJournalStore::persist).  The one exception
\* was reported as an error: the directory flush and the classifying read failed.
MemoryIsFile == stage = "idle" /\ copy # target => reply = "Err" /\ unflushed

\* The file is a register that is replaced as a whole: DurableRegister.
Register ==
    INSTANCE DurableRegister WITH
        value <- target,
        settled <- ~unflushed,
        phase <- IF stage \in {"down", "idle"} THEN "quiet"
                 ELSE IF stage \in {"flush", "classify"} THEN "applied"
                 ELSE "asked"
ImplementsRegister == Register!Spec

\* Once crashes and errors stop, a write succeeds again and again: nothing that
\* a crash or a failed write leaves behind blocks the file for ever.
WritesSucceedAgain == []<>(reply = "Ok")

=============================================================================
