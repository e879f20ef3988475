------------------------------ MODULE AuditLog ------------------------------
(***************************************************************************)
(* The audit log of the native host (native-host/src/audit.rs): lines      *)
(* chained by HMAC in one file per day, an anchor that names the last      *)
(* line, a checkpoint that stands for expired files, an outbox of events   *)
(* whose append failed, and the start that verifies all of it and moves    *)
(* the whole directory aside when anything fails.                          *)
(*                                                                         *)
(* A step of a handler that changes a file is one action.  The host may be *)
(* killed before every step; Chrome does so whenever the port closes.      *)
(*                                                                         *)
(* A MAC is the number of the line that carries it, so equal MACs mean     *)
(* equal lines.  A line appended to a file whose last line is incomplete   *)
(* runs into it and is unreadable.  Days are counted from an arbitrary     *)
(* one.  Loss of power is left out: an incomplete line comes from a full   *)
(* disk here.                                                              *)
(***************************************************************************)
EXTENDS Integers, FiniteSets

CONSTANTS
    Ids,         \* ids of events that must appear once (operations)
    NoId,        \* the id of the other events
    LastDay,     \* the clock stays within 0..LastDay
    Retention,   \* AUDIT_RETENTION_DAYS
    MaxLines,    \* lines ever appended
    MaxFaults    \* I/O errors and clocks set back

ASSUME AuditConstants ==
    /\ NoId \notin Ids
    /\ LastDay \in Nat /\ Retention \in Nat /\ MaxLines \in Nat /\ MaxFaults \in Nat

VARIABLES
    key,         \* audit-key.dpapi exists
    files,       \* the days that have a file audit-v2-day-<day>.jsonl
    log,         \* the lines in these files
    anchor,      \* audit-anchor.dpapi: empty, or the sequence and MAC it names
    checkpoint,  \* audit-checkpoint.dpapi; Genesis when there is none
    outbox,      \* audit-outbox-v1.json: event ids; empty when there is none
    tmp,         \* temporary files that a killed host left behind
    clock,       \* today
    at,          \* what the host does next; "down" when there is none
    mode,        \* the start: "host", "fresh" after a quarantine, "export"
    mem,         \* AuditState: sequence and MAC of the last line
    behind,      \* an append failed after its line was written
    expired,     \* the files that compaction still has to remove
    job,         \* the record call in progress
    todo, left,  \* drain_outbox: entries to do, entries that failed
    lines,       \* number of lines ever appended
    faults,
    broken,      \* history: what this directory suffered that breaks its chain
    answered,    \* history: ids for which record_once_deferred returned
    dropped,     \* history: ids whose append and enqueue both failed
    gone         \* history: ids in expired files or in quarantine

directory == <<key, files, log, anchor, checkpoint, outbox, tmp>>
control == <<at, mode, mem, behind, expired, job, todo, left>>
history == <<answered, dropped, gone>>
vars == <<directory, control, history, clock, lines, faults, broken>>

Days == 0..LastDay
Genesis == [seq |-> 0, mac |-> 0]
Tails == [seq : 0..MaxLines, mac : 0..MaxLines]
Lines == [seq : 1..MaxLines, prev : 0..MaxLines, mac : 1..MaxLines, day : Days,
          id : Ids \cup {NoId}, whole : BOOLEAN]
Opening == {"key", "verify", "anchor", "compact", "remove", "drain", "settle"}
Recording == {"append", "mark", "enqueue"}
Idle == [from |-> "none", id |-> NoId, tries |-> 0]
Jobs == [from : {"none", "plain", "deferred", "drain", "alert"},
         id : Ids \cup {NoId}, tries : 0..2]
TempFiles == {"key", "anchor", "checkpoint", "outbox"}

TypeOK ==
    /\ key \in BOOLEAN
    /\ files \subseteq Days
    /\ log \subseteq Lines
    /\ anchor \subseteq Tails
    /\ checkpoint \in Tails
    /\ outbox \subseteq Ids
    /\ tmp \subseteq TempFiles
    /\ clock \in Days
    /\ at \in Opening \cup Recording \cup {"down", "refused", "up"}
    /\ mode \in {"host", "fresh", "export"}
    /\ mem \in Tails
    /\ behind \in BOOLEAN
    /\ expired \subseteq Days
    /\ job \in Jobs
    /\ todo \subseteq Ids /\ left \subseteq Ids
    /\ lines \in 0..MaxLines
    /\ faults \in 0..MaxFaults
    /\ broken \subseteq {"stale", "torn", "clock", "compaction"}
    /\ answered \subseteq Ids /\ dropped \subseteq Ids /\ gone \subseteq Ids

-----------------------------------------------------------------------------
(* What verify_chain reads.                                                *)

\* The order in which chain_files and the lines of a file are read.
Before(a, b) == a.day < b.day \/ (a.day = b.day /\ a.mac < b.mac)

IsFirst(l, s) == \A k \in s : ~Before(k, l)
IsLast(l, s) == \A k \in s : ~Before(l, k)
Follows(a, b, s) == Before(a, b) /\ \A k \in s : ~(Before(a, k) /\ Before(k, b))

\* Every line is whole, has the next sequence number and the MAC of the line before it.
Chained(s, base) ==
    /\ \A l \in s : l.whole
    /\ \A l \in s : IsFirst(l, s) => l.seq = base.seq + 1 /\ l.prev = base.mac
    /\ \A a, b \in s : Follows(a, b, s) => b.seq = a.seq + 1 /\ b.prev = a.mac

\* The anchor names a line of the chain, or one that the checkpoint stands for.
Anchored ==
    \A a \in anchor : \/ a.seq <= checkpoint.seq
                      \/ \E l \in log : l.seq = a.seq /\ l.mac = a.mac

VerifiesChain ==
    /\ files # {} => anchor # {}
    /\ Chained(log, checkpoint)
    /\ Anchored

VerifiedTail ==
    IF log = {} THEN checkpoint
    ELSE LET l == CHOOSE x \in log : IsLast(x, log) IN [seq |-> l.seq, mac |-> l.mac]

IdsOf(s) == {l.id : l \in {x \in s : x.whole}} \ {NoId}
EmptyDirectory ==
    ~key /\ files = {} /\ anchor = {} /\ checkpoint = Genesis /\ outbox = {} /\ tmp = {}

-----------------------------------------------------------------------------
Init ==
    /\ key = FALSE /\ files = {} /\ log = {} /\ anchor = {}
    /\ checkpoint = Genesis /\ outbox = {} /\ tmp = {}
    /\ clock = 0
    /\ at = "down" /\ mode = "host" /\ mem = Genesis /\ behind = FALSE
    /\ expired = {} /\ job = Idle /\ todo = {} /\ left = {}
    /\ lines = 0 /\ faults = 0 /\ broken = {}
    /\ answered = {} /\ dropped = {} /\ gone = {}

Fault == faults < MaxFaults /\ faults' = faults + 1

\* Midnight passes, or the clock is set back by a day.
Midnight ==
    /\ clock < LastDay
    /\ clock' = clock + 1
    /\ UNCHANGED <<directory, control, history, lines, faults, broken>>

ClockSetBack ==
    /\ clock > 0 /\ Fault
    /\ clock' = clock - 1
    /\ UNCHANGED <<directory, control, history, lines, broken>>

-----------------------------------------------------------------------------
(* AuditLogger::open, open_strict and export_verified.                     *)

Start(m) ==
    /\ at = "down"
    /\ at' = "key" /\ mode' = m /\ behind' = FALSE
    /\ UNCHANGED <<directory, mem, expired, job, todo, left, history, clock,
                   lines, faults, broken>>

\* load_or_create_key: a new key only where nothing was authenticated with another one.
LoadKey ==
    /\ at = "key"
    /\ IF key \/ anchor # {} \/ checkpoint # Genesis \/ files # {}
       THEN at' = (IF key THEN "verify" ELSE "refused") /\ UNCHANGED key
       ELSE "key" \notin tmp /\ key' = TRUE /\ at' = "verify"
    /\ UNCHANGED <<files, log, anchor, checkpoint, outbox, tmp, mode, mem, behind, expired,
                   job, todo, left, history, clock, lines, faults, broken>>

VerifyChain ==
    /\ at = "verify"
    /\ IF VerifiesChain
       THEN /\ mem' = VerifiedTail
            /\ at' = IF anchor = {VerifiedTail} THEN "compact" ELSE "anchor"
       ELSE at' = "refused" /\ UNCHANGED mem
    /\ UNCHANGED <<directory, mode, behind, expired, job, todo, left, history, clock, lines,
                   faults, broken>>

AnchorTail ==
    /\ at = "anchor" /\ "anchor" \notin tmp
    /\ anchor' = {mem}
    /\ at' = "compact"
    /\ UNCHANGED <<key, files, log, checkpoint, outbox, tmp, mode, mem, behind, expired, job,
                   todo, left, history, clock, lines, faults, broken>>

\* compact_expired_segments: the last line of the last expired file becomes the checkpoint.
Expired == {d \in files : d < clock - Retention}
LastExpired == CHOOSE d \in Expired : \A e \in Expired : e <= d

Compact ==
    /\ at = "compact"
    /\ \/ Expired = {} /\ at' = "drain" /\ UNCHANGED <<checkpoint, expired>>
       \/ /\ Expired # {} /\ ~ \E l \in log : l.day = LastExpired
          /\ at' = "refused" /\ UNCHANGED <<checkpoint, expired>>
       \/ /\ Expired # {} /\ "checkpoint" \notin tmp
          /\ \E l \in log :
                /\ l.day = LastExpired /\ \A k \in log : k.day = LastExpired => k.mac <= l.mac
                /\ checkpoint' = [seq |-> l.seq, mac |-> l.mac]
          /\ expired' = Expired
          /\ at' = "remove"
    /\ UNCHANGED <<key, files, log, anchor, outbox, tmp, mode, mem, behind, job, todo, left,
                   history, clock, lines, faults, broken>>

RemoveExpired ==
    /\ at = "remove"
    /\ \E d \in expired :
        /\ \A e \in expired : d <= e
        /\ files' = files \ {d}
        /\ log' = {l \in log : l.day # d}
        /\ gone' = gone \cup IdsOf({l \in log : l.day = d})
        /\ expired' = expired \ {d}
        /\ at' = IF expired = {d} THEN "drain" ELSE "remove"
    /\ UNCHANGED <<key, anchor, checkpoint, outbox, tmp, mode, mem, behind, job, todo, left,
                   answered, dropped, clock, lines, faults, broken>>

\* The logger is open: serve, record the recovery, or write the export elsewhere.
Opened ==
    \/ mode = "host" /\ at' = "up" /\ job' = Idle
    \/ mode = "fresh" /\ at' = "append" /\ job' = [from |-> "alert", id |-> NoId, tries |-> 1]
    \/ mode = "export" /\ at' = "down" /\ job' = Idle

\* drain_outbox: record every entry, then keep those that failed.
StartDrain ==
    /\ at = "drain" /\ todo = {}
    /\ IF outbox = {} THEN Opened /\ UNCHANGED todo
       ELSE todo' = outbox /\ at' = "drain" /\ UNCHANGED job
    /\ UNCHANGED <<directory, mode, mem, behind, expired, left, history, clock, lines, faults,
                   broken>>

DrainNext ==
    /\ at = "drain"
    /\ \E i \in todo : job' = [from |-> "drain", id |-> i, tries |-> 1]
    /\ at' = "append"
    /\ UNCHANGED <<directory, mode, mem, behind, expired, todo, left, history, clock, lines,
                   faults, broken>>

Settle ==
    /\ at = "settle"
    /\ left = {} \/ "outbox" \notin tmp
    /\ outbox' = left
    /\ left' = {}
    /\ Opened
    /\ UNCHANGED <<key, files, log, anchor, checkpoint, tmp, mode, mem, behind, expired, todo,
                   history, clock, lines, faults, broken>>

\* The temporary file of the durable write in progress.
Writing ==
    CASE at = "key" /\ ~key -> {"key"}
      [] at \in {"anchor", "mark"} -> {"anchor"}
      [] at = "compact" /\ Expired # {} -> {"checkpoint"}
      [] at = "enqueue" \/ (at = "settle" /\ left # {}) -> {"outbox"}
      [] OTHER -> {}

\* A write of the start meets an old temporary file: it fails and removes that.
MeetLeftover ==
    /\ at \in Opening
    /\ \E f \in Writing \cap tmp : tmp' = tmp \ {f}
    /\ at' = "refused"
    /\ UNCHANGED <<key, files, log, anchor, checkpoint, outbox, mode, mem, behind, expired,
                   job, todo, left, history, clock, lines, faults, broken>>

\* Reading or writing a file fails during the start; a write may still have happened.
OpenFails ==
    /\ at \in Opening /\ Fault
    /\ at' = "refused"
    /\ \/ UNCHANGED <<anchor, outbox>>
       \/ at = "anchor" /\ anchor' = {mem} /\ UNCHANGED outbox
       \/ at = "settle" /\ outbox' = left /\ UNCHANGED anchor
    /\ broken' = IF at = "remove" THEN broken \cup {"compaction"} ELSE broken
    /\ UNCHANGED <<key, files, log, checkpoint, tmp, mode, mem, behind, expired, job, todo,
                   left, history, clock, lines>>

\* A start that failed moves the directory aside and opens a new one, once.
Quarantine ==
    /\ at = "refused" /\ mode = "host" /\ ~EmptyDirectory
    /\ gone' = gone \cup IdsOf(log) \cup outbox
    /\ key' = FALSE /\ files' = {} /\ log' = {} /\ anchor' = {}
    /\ checkpoint' = Genesis /\ outbox' = {} /\ tmp' = {} /\ broken' = {}
    /\ at' = "key" /\ mode' = "fresh" /\ mem' = Genesis /\ behind' = FALSE
    /\ expired' = {} /\ job' = Idle /\ todo' = {} /\ left' = {}
    /\ UNCHANGED <<answered, dropped, clock, lines, faults>>

GiveUp ==
    /\ at = "refused"
    /\ mode # "host" \/ EmptyDirectory
    /\ at' = "down" /\ mem' = Genesis /\ behind' = FALSE
    /\ expired' = {} /\ job' = Idle /\ todo' = {} /\ left' = {}
    /\ UNCHANGED <<directory, mode, history, clock, lines, faults, broken>>

-----------------------------------------------------------------------------
(* record, record_system, record_once and record_once_deferred.            *)

Record ==
    /\ at = "up"
    /\ at' = "append" /\ job' = [from |-> "plain", id |-> NoId, tries |-> 1]
    /\ UNCHANGED <<directory, mode, mem, behind, expired, todo, left, history, clock, lines,
                   faults, broken>>

RecordOnceDeferred(i) ==
    /\ at = "up"
    /\ at' = "append" /\ job' = [from |-> "deferred", id |-> i, tries |-> 1]
    /\ UNCHANGED <<directory, mode, mem, behind, expired, todo, left, history, clock, lines,
                   faults, broken>>

\* What each caller does with the answer of record_inner or record_once.
Answer(ok) ==
    \/ /\ job.from = "plain"
       /\ at' = "up" /\ job' = Idle
       /\ UNCHANGED <<todo, left, answered>>
    \/ /\ job.from = "deferred" /\ ok
       /\ at' = "up" /\ job' = Idle /\ answered' = answered \cup {job.id}
       /\ UNCHANGED <<todo, left>>
    \/ /\ job.from = "deferred" /\ ~ok
       /\ IF job.tries = 1 THEN at' = "append" /\ job' = [job EXCEPT !.tries = 2]
                           ELSE at' = "enqueue" /\ UNCHANGED job
       /\ UNCHANGED <<todo, left, answered>>
    \/ /\ job.from = "drain"
       /\ todo' = todo \ {job.id}
       /\ left' = IF ok THEN left ELSE left \cup {job.id}
       /\ at' = IF todo' = {} THEN "settle" ELSE "drain"
       /\ job' = Idle
       /\ UNCHANGED answered
    \/ /\ job.from = "alert"
       /\ at' = (IF ok THEN "up" ELSE "down") /\ job' = Idle
       /\ UNCHANGED <<todo, left, answered>>

\* Mutant: only today's file is searched.
AlreadyThereToday == \E l \in log : l.id = job.id /\ l.id # NoId /\ l.whole /\ l.day = clock

\* record_once reads the lines in order until it meets its id or a line it cannot parse.
AlreadyThere ==
    /\ job.id # NoId
    /\ \E l \in log : l.id = job.id /\ l.whole /\ \A k \in log : Before(k, l) => k.whole
Unreadable == job.id # NoId /\ ~AlreadyThere /\ \E l \in log : ~l.whole

FindDuplicate ==
    /\ at = "append" /\ (AlreadyThere \/ Unreadable)
    /\ Answer(AlreadyThere)
    /\ UNCHANGED <<directory, mode, mem, behind, expired, dropped, gone, clock, lines, faults,
                   broken>>

Appends == at = "append" /\ ~AlreadyThere /\ ~Unreadable /\ lines < MaxLines
NewLine(whole) == [seq |-> mem.seq + 1, prev |-> mem.mac, mac |-> lines + 1, day |-> clock,
                   id |-> job.id, whole |-> whole]
Torn(d) == \E l \in log : l.day = d /\ ~l.whole

\* write_all puts a line into today's file.
WriteLine(whole) ==
    /\ files' = files \cup {clock}
    /\ log' = IF Torn(clock) THEN log ELSE log \cup {NewLine(whole)}
    /\ lines' = lines + 1
    /\ broken' = broken \cup (IF behind THEN {"stale"} ELSE {})
                        \cup (IF \E l \in log : l.day > clock THEN {"clock"} ELSE {})
                        \cup (IF whole /\ ~Torn(clock) THEN {} ELSE {"torn"})

\* Mutant: the state in memory is advanced only by the anchor, after the line was written.
AppendLineNotAdvanced ==
    /\ Appends
    /\ WriteLine(TRUE)
    /\ at' = "mark"
    /\ UNCHANGED <<key, anchor, checkpoint, outbox, tmp, mode, mem, behind, expired, job, todo,
                   left, history, clock, faults>>

AppendLine ==
    /\ Appends
    /\ WriteLine(TRUE)
    /\ mem' = [seq |-> mem.seq + 1, mac |-> lines + 1]
    /\ at' = "mark"
    /\ UNCHANGED <<key, anchor, checkpoint, outbox, tmp, mode, behind, expired, job, todo, left,
                   history, clock, faults>>

\* The open, the write or the flush fails; the state in memory is not advanced.
AppendFails ==
    /\ Appends /\ Fault
    /\ \/ \E created \in BOOLEAN :
            /\ files' = IF created THEN files \cup {clock} ELSE files
            /\ UNCHANGED <<log, lines, broken, behind>>
       \/ WriteLine(FALSE) /\ UNCHANGED behind
       \/ WriteLine(TRUE) /\ behind' = TRUE
    /\ Answer(FALSE)
    /\ UNCHANGED <<key, anchor, checkpoint, outbox, tmp, mode, mem, expired, dropped, gone,
                   clock>>

\* persist_anchor at the end of record_inner.
MarkAnchor ==
    /\ at = "mark"
    /\ \/ "anchor" \notin tmp /\ anchor' = {mem} /\ Answer(TRUE) /\ UNCHANGED <<tmp, faults>>
       \/ /\ "anchor" \in tmp /\ tmp' = tmp \ {"anchor"}
          /\ Answer(FALSE) /\ UNCHANGED <<anchor, faults>>
       \/ "anchor" \notin tmp /\ Fault /\ anchor' \in {anchor, {mem}} /\ Answer(FALSE)
          /\ UNCHANGED tmp
    /\ UNCHANGED <<key, files, log, checkpoint, outbox, mode, mem, behind, expired, dropped,
                   gone, clock, lines, broken>>

\* Mutant: the entry replaces the outbox.
EnqueueOnly ==
    /\ at = "enqueue" /\ "outbox" \notin tmp
    /\ outbox' = {job.id}
    /\ answered' = answered \cup {job.id}
    /\ at' = "up" /\ job' = Idle
    /\ UNCHANGED <<key, files, log, anchor, checkpoint, tmp, mode, mem, behind, expired, todo,
                   left, dropped, gone, clock, lines, faults, broken>>

\* enqueue_outbox after two failed attempts; its own failure is ignored.
EnqueueOutbox ==
    /\ at = "enqueue"
    /\ \/ "outbox" \notin tmp /\ outbox' = outbox \cup {job.id} /\ UNCHANGED <<tmp, faults, dropped>>
       \/ /\ "outbox" \in tmp /\ tmp' = tmp \ {"outbox"} /\ dropped' = dropped \cup {job.id}
          /\ UNCHANGED <<outbox, faults>>
       \/ /\ "outbox" \notin tmp /\ Fault /\ dropped' = dropped \cup {job.id}
          /\ UNCHANGED <<outbox, tmp>>
    /\ answered' = answered \cup {job.id}
    /\ at' = "up" /\ job' = Idle
    /\ UNCHANGED <<key, files, log, anchor, checkpoint, mode, mem, behind, expired, todo, left,
                   gone, clock, lines, broken>>

-----------------------------------------------------------------------------
\* The process ends, between two steps or while it writes a temporary or an empty file.
Crash ==
    /\ at # "down"
    /\ \E t \in SUBSET Writing : tmp' = tmp \cup t
    /\ files' \in {files} \cup (IF Appends THEN {files \cup {clock}} ELSE {})
    /\ broken' = IF at = "remove" THEN broken \cup {"compaction"} ELSE broken
    /\ at' = "down" /\ mem' = Genesis /\ behind' = FALSE
    /\ expired' = {} /\ job' = Idle /\ todo' = {} /\ left' = {}
    /\ UNCHANGED <<key, log, anchor, checkpoint, outbox, mode, history, clock, lines, faults>>

Next ==
    \/ Midnight \/ ClockSetBack
    \/ \E m \in {"host", "export"} : Start(m)
    \/ LoadKey \/ VerifyChain \/ AnchorTail \/ Compact \/ RemoveExpired
    \/ StartDrain \/ DrainNext \/ Settle
    \/ MeetLeftover \/ OpenFails \/ Quarantine \/ GiveUp
    \/ Record \/ \E i \in Ids : RecordOnceDeferred(i)
    \/ FindDuplicate \/ AppendLine \/ AppendFails \/ MarkAnchor \/ EnqueueOutbox
    \/ Crash

Spec == Init /\ [][Next]_vars

-----------------------------------------------------------------------------
\* A log whose directory suffered none of the four things that break a chain (a further line
\* after an append that failed behind its write, an incomplete line, a clock set back, a
\* compaction cut short) verifies at every later start, wherever the host was killed:
\* between a line and its anchor, between anchor and compaction, while draining.
ChainIntact == broken = {} /\ at # "remove" => VerifiesChain

\* An event with an id is in the log at most once, although record_once_deferred repeats an
\* append whose outcome it does not know and the outbox repeats it after a restart.
EventOnce == \A a, b \in log : a.whole /\ b.whole /\ a.id = b.id /\ a.id # NoId => a = b

\* An event that record_once_deferred took is never lost by retries, restarts, drains and
\* quarantine: it is in the log, in the outbox, or in a file that expired or was moved
\* aside, unless its append and the write of the outbox both failed.
DeferredKept == answered \ dropped \subseteq IdsOf(log) \cup outbox \cup gone

=============================================================================
