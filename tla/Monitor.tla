------------------------------ MODULE Monitor ------------------------------
(***************************************************************************)
(* Monitoring: a thread of the host watches for Chrome processes that were *)
(* started with a remote debugging switch (native-host/src/monitor/        *)
(* process.rs) and puts what it finds into a bounded queue that it shares  *)
(* with the message loop (monitor/mod.rs); the extension keeps its own     *)
(* events in a durable outbox until the host has audited them, and polls   *)
(* for the host's (extension/src/background.ts, monitor.ts).               *)
(*                                                                         *)
(* A process is its PID and the switches on its command line: cmd[p] is    *)
(* empty when no process, or none that is_trusted_chrome accepts or        *)
(* detect_remote_debugging matches, has PID p.  The alerts for the host's  *)
(* events only change what the extension displays, so a poll appears as    *)
(* what it takes off the queue.                                            *)
(***************************************************************************)
EXTENDS Integers, Sequences, SequencesExt

CONSTANTS
    Pids,            \* process ids that Chrome may get
    Switches,        \* RemoteDebuggingPort, RemoteDebuggingPipe
    MaxPending,      \* MAX_PENDING_EVENTS
    MaxPoll,         \* max_events of the extension's poll
    OutboxLimit,     \* MONITOR_OUTBOX_LIMIT
    MaxStarts,       \* Chrome processes started with a switch
    MaxEvents,       \* entries that the extension puts into its outbox
    MaxDrops,        \* connections that end
    MaxFaults        \* WMI calls and audit appends that fail

ASSUME MonitorConstants ==
    /\ IsFiniteSet(Pids) /\ IsFiniteSet(Switches)
    /\ MaxPending \in Nat /\ MaxPending >= 2
    /\ MaxPoll \in 1..MaxPending
    /\ OutboxLimit \in Nat /\ OutboxLimit >= 2

VARIABLES
    cmd,         \* the switches of the process with each PID
    host,        \* "down", "opening" (NativeHostApp::open) or "serving"
    observer,    \* what the observer thread does next, "none" without a host
    trace,       \* start events of the subscription that are not read yet
    batch,       \* what the thread has found and is putting into the queue
    seen,        \* the pairs of PID and switch it has reported
    queue,       \* pending: the events the host has for the extension
    accepted,    \* accepted_event_ids
    ready,       \* the extension has adopted the host's handshake
    toHost,      \* messages on their way to the host: outbox entries, or Poll
    toExt,       \* ids of the extension's events in alerts on their way back
    outbox,      \* the extension's durable outbox
    inFlight,    \* ids sent on this connection
    known,       \* the host has the account group
    excused,     \* history: PIDs of processes the thread cannot report
    logged,      \* history: ids of the extension's events in the audit log
    sliced,      \* history: ids that the full outbox threw away
    gap,         \* history: no overflow marker was audited since a drop
    refused,     \* history: ids that this connection answered with an error
    ids, starts, drops, faults

procs == <<cmd, starts>>
thread == <<observer, trace, batch, seen, excused>>
engine == <<queue, accepted, gap>>
wire == <<toHost, toExt, ready, refused>>
extension == <<outbox, inFlight, ids, sliced>>
vars == <<procs, host, thread, engine, wire, extension, known, logged, drops, faults>>

Poll == [id |-> 0, signal |-> "poll"]   \* monitor.poll
Overflow == <<0, "overflow">>       \* MonitorQueueOverflow
Failure == <<0, "failure">>         \* the six process_inspection signals
Recovered == <<0, "recovered">>     \* AuditIntegrityRecovered
Pairs == Pids \X Switches
HostEvents == Pairs \cup {Overflow, Failure, Recovered}
\* host_disconnect stands for host_disconnect_active_lease too; reconciliation_failed is the
\* one that names a group.
Signals == {"host_disconnect", "reconnect_success", "reconciliation_failed", "overflow"}

Ids(box) == {e.id : e \in Range(box)}

TypeOK ==
    /\ cmd \in [Pids -> SUBSET Switches]
    /\ host \in {"down", "opening", "serving"}
    /\ observer \in {"none", "connect", "baseline", "subscribe", "watch", "dead"}
    /\ trace \in Seq(Pids) /\ batch \in Seq(HostEvents)
    /\ seen \subseteq Pairs /\ excused \subseteq Pids
    /\ queue \in Seq(HostEvents) /\ Len(queue) <= MaxPending
    /\ accepted \subseteq 1..ids
    /\ toHost \in Seq([id : 0..ids, signal : Signals \cup {"poll"}])
    /\ outbox \in Seq([id : 1..ids, signal : Signals]) /\ Len(outbox) <= OutboxLimit
    /\ toExt \in Seq(1..ids)
    /\ inFlight \subseteq 1..ids /\ refused \subseteq inFlight
    /\ sliced \subseteq 1..ids /\ logged \subseteq 1..ids
    /\ {ready, known, gap} \subseteq BOOLEAN
    /\ starts \in 0..MaxStarts /\ drops \in 0..MaxDrops /\ faults \in 0..MaxFaults

\* The browser starts; the outbox may have the end of the last connection.
Init ==
    /\ cmd = [p \in Pids |-> {}] /\ starts = 0
    /\ host = "down" /\ observer = "none" /\ trace = <<>> /\ batch = <<>>
    /\ seen = {} /\ excused = {}
    /\ queue = <<>> /\ accepted = {} /\ gap = FALSE
    /\ toHost = <<>> /\ toExt = <<>> /\ ready = FALSE /\ refused = {}
    /\ \/ outbox = <<>> /\ ids = 0
       \/ outbox = <<[id |-> 1, signal |-> "host_disconnect"]>> /\ ids = 1
    /\ inFlight = {}
    /\ known = TRUE /\ logged = {} /\ sliced = {} /\ drops = 0 /\ faults = 0

Fault == faults < MaxFaults /\ faults' = faults + 1
NoFault == faults' = faults

(***************************************************************************)
(* Processes.                                                              *)
(***************************************************************************)

\* Chrome starts with switches.  The subscription notes it; before that only
\* the baseline can see it, so one that starts between the two is missed, as
\* is one whose PID the thread has already reported.
StartProcess(p) ==
    \E switches \in SUBSET Switches \ {{}} :
        /\ cmd[p] = {} /\ starts < MaxStarts
        /\ starts' = starts + 1
        /\ cmd' = [cmd EXCEPT ![p] = switches]
        /\ trace' = IF observer = "watch" THEN Append(trace, p) ELSE trace
        /\ excused' = IF \/ observer = "subscribe"
                         \/ \E s \in Switches : <<p, s>> \in seen \cup Range(batch)
                      THEN excused \cup {p} ELSE excused \ {p}
        /\ UNCHANGED <<host, observer, batch, seen, engine, wire, extension,
                       known, logged, drops, faults>>

ExitProcess(p) ==
    /\ cmd[p] # {}
    /\ cmd' = [cmd EXCEPT ![p] = {}]
    /\ excused' = excused \ {p}
    /\ UNCHANGED <<starts, host, observer, trace, batch, seen, engine, wire,
                   extension, known, logged, drops, faults>>

(***************************************************************************)
(* The observer thread.  Whatever a step finds goes through batch into the *)
(* queue before the next step.                                             *)
(***************************************************************************)

\* detect_remote_debugging
Matches(ps) == SetToSeq({e \in Pairs : e[1] \in ps /\ e[2] \in cmd[e[1]]})

\* CoInitializeEx and ConnectServer; without WMI the thread ends.
Connects ==
    /\ observer = "connect"
    /\ \/ observer' = "baseline" /\ batch' = <<>> /\ NoFault
       \/ observer' = "dead" /\ batch' = <<Failure>> /\ Fault
    /\ UNCHANGED <<trace, seen, excused>>

\* poll_processes: the snapshot is complete or there is none.
Baseline ==
    /\ observer = "baseline"
    /\ observer' = "subscribe"
    /\ \/ /\ batch' = Matches(Pids)
          /\ NoFault /\ UNCHANGED excused
       \/ /\ batch' = <<Failure>>
          /\ Fault /\ excused' = {p \in Pids : cmd[p] # {}}
    /\ UNCHANGED <<trace, seen>>

\* subscribe_process_starts
Subscribe ==
    /\ observer = "subscribe"
    /\ \/ observer' = "watch" /\ batch' = <<>> /\ NoFault
       \/ observer' = "dead" /\ batch' = <<Failure>> /\ Fault
    /\ UNCHANGED <<trace, seen, excused>>

\* next_object fails: the loop reports it and tries again.
NextFails ==
    /\ observer = "watch"
    /\ batch' = <<Failure>> /\ Fault
    /\ UNCHANGED <<observer, trace, seen, excused>>

\* A start event: inspect_process looks the PID up, and finds nothing when the
\* process is gone.  An event without a readable PID is skipped silently.
Inspect ==
    LET p == Head(trace) IN
    /\ observer = "watch" /\ trace # <<>>
    /\ trace' = Tail(trace)
    /\ \/ batch' = Matches({p}) /\ NoFault /\ UNCHANGED excused
       \/ batch' = <<Failure>> /\ Fault /\ excused' = excused \cup {p}
       \/ batch' = <<>> /\ Fault /\ excused' = excused \cup {p}
    /\ UNCHANGED <<observer, seen>>

ObserverStep ==
    /\ batch = <<>>
    /\ Connects \/ Baseline \/ Subscribe \/ NextFails \/ Inspect
    /\ UNCHANGED <<procs, host, engine, wire, extension, known, logged, drops>>

\* Mutant: no second marker while one is queued.
EnqueueOneMarker(q, event) ==
    IF Len(q) # MaxPending THEN Append(q, event)
    ELSE IF Overflow \in Range(q) THEN Append(Tail(q), event)
    ELSE Append(Tail(Append(Tail(q), Overflow)), event)

\* enqueue_bounded: what the queue is afterwards.
EnqueueBounded(q, event) ==
    IF Len(q) # MaxPending THEN Append(q, event)
    ELSE IF event = Overflow THEN Append(Tail(q), event)
    ELSE Append(Tail(Append(Tail(q), Overflow)), event)

Enqueue(event) ==
    /\ queue' = EnqueueBounded(queue, event)
    /\ gap' = (gap \/ Len(queue) = MaxPending)

\* Mutant: seen holds process ids, so a second switch is not reported.
ReportNextByPid ==
    LET event == Head(batch) IN
    /\ batch # <<>>
    /\ batch' = Tail(batch)
    /\ IF \E e \in seen : e[1] = event[1]
       THEN UNCHANGED <<seen, queue, gap>>
       ELSE seen' = seen \cup ({event} \cap Pairs) /\ Enqueue(event)
    /\ UNCHANGED <<procs, host, observer, trace, excused, accepted, wire,
                   extension, known, logged, drops, faults>>

\* enqueue_matches, enqueue_signal: a pair is reported once.
ReportNext ==
    LET event == Head(batch) IN
    /\ batch # <<>>
    /\ batch' = Tail(batch)
    /\ seen' = seen \cup ({event} \cap Pairs)
    /\ IF event \in seen THEN UNCHANGED <<queue, gap>> ELSE Enqueue(event)
    /\ UNCHANGED <<procs, host, observer, trace, excused, accepted, wire,
                   extension, known, logged, drops, faults>>

(***************************************************************************)
(* The host: opening, and the handlers of its message loop.                *)
(***************************************************************************)

\* Chrome starts the host: MonitorEngine::start.
Start ==
    /\ host = "down"
    /\ host' = "opening" /\ observer' = "connect"
    /\ UNCHANGED <<procs, trace, batch, seen, excused, engine, wire, extension,
                   known, logged, drops, faults>>

\* The rest of open, with the alert for a quarantined audit log, and the
\* handshake.
OpenHost ==
    /\ host = "opening"
    /\ host' = "serving"
    /\ \/ Enqueue(Recovered) /\ Fault
       \/ NoFault /\ UNCHANGED <<queue, gap>>
    /\ UNCHANGED <<procs, thread, accepted, wire, extension, known, logged, drops>>

Received == toHost' = Tail(toHost)

\* monitor.event: an event of a group that is gone, or that cannot be audited,
\* is answered with an error; one that was accepted before, or is audited now,
\* with an alert.
HandleEvent ==
    LET i == Head(toHost).id
        unknown == Head(toHost).signal = "reconciliation_failed" /\ ~known
    IN
    /\ host = "serving" /\ toHost # <<>> /\ Head(toHost) # Poll
    /\ Received
    /\ \/ /\ ~unknown
          /\ accepted' = accepted \cup {i}
          /\ logged' = logged \cup {i}
          /\ toExt' = Append(toExt, i)
          /\ NoFault /\ UNCHANGED refused
       \/ /\ IF unknown THEN NoFault ELSE Fault /\ i \notin accepted
          /\ refused' = refused \cup {i}
          /\ UNCHANGED <<accepted, logged, toExt>>
    /\ UNCHANGED <<procs, host, thread, queue, gap, ready,
                   extension, known, drops>>

\* monitor.poll holds the queue's lock throughout.  An event is taken off the
\* queue before it is audited: when the append fails it is lost.
HandlePoll ==
    LET n == IF Len(queue) < MaxPoll THEN Len(queue) ELSE MaxPoll
        first(k) == Range(SubSeq(queue, 1, k))
    IN
    /\ host = "serving" /\ toHost # <<>> /\ Head(toHost) = Poll
    /\ Received
    /\ \/ /\ queue' = SubSeq(queue, n + 1, Len(queue))
          /\ gap' = (gap /\ Overflow \notin first(n))
          /\ NoFault
       \/ \E k \in 1..n :
          /\ Fault
          /\ queue' = SubSeq(queue, k + 1, Len(queue))
          /\ gap' = (gap /\ Overflow \notin first(k))
    /\ UNCHANGED <<procs, host, thread, accepted, toExt, ready, refused,
                   extension, known, logged, drops>>

\* group.remove of the group (see GroupConfig).
RemoveGroup ==
    /\ ready /\ known
    /\ known' = FALSE
    /\ UNCHANGED <<procs, host, thread, engine, wire, extension, logged, drops, faults>>

(***************************************************************************)
(* The extension.                                                          *)
(***************************************************************************)

\* addToBoundedOutbox: one entry per signal; slice(-limit).
AddToBoundedOutbox(box, event) ==
    IF \E e \in Range(box) : e.signal = event.signal THEN box
    ELSE LET longer == Append(box, event)
         IN  SubSeq(longer, 1 + (IF Len(longer) > OutboxLimit THEN 1 ELSE 0), Len(longer))

\* queueMonitorEvent: the outbox after a signal, given the last id in use.
Queued(box, signal, i) ==
    LET next == AddToBoundedOutbox(box, [id |-> i + 1, signal |-> signal])
        overflowed == /\ Len(box) = OutboxLimit /\ Len(next) = OutboxLimit
                      /\ \A e \in Range(box) : e.signal # signal
    IN  IF overflowed
        THEN AddToBoundedOutbox(next, [id |-> i + 2, signal |-> "overflow"])
        ELSE next

QueueMonitorEvent(signal) ==
    LET box == Queued(outbox, signal, ids)
    IN  /\ outbox' = box
        /\ ids' = Max({ids} \cup Ids(box))
        /\ sliced' = sliced \cup (Ids(outbox) \ Ids(box))

\* flushMonitorOutbox: takeUnsent of an outbox, and trySend of each entry.
Flush(box, after) ==
    LET unsent == SelectSeq(box, LAMBDA e : e.id \notin inFlight)
    IN  /\ inFlight' = inFlight \cup Ids(unsent)
        /\ toHost' = toHost \o unsent \o after

\* A reconciliation of the group failed, in any of the handlers that say so.
Occurs ==
    /\ known /\ ids < MaxEvents
    /\ QueueMonitorEvent("reconciliation_failed")
    /\ IF ready THEN Flush(outbox', <<>>) ELSE UNCHANGED <<inFlight, toHost>>
    /\ UNCHANGED <<procs, host, thread, engine, toExt, ready, refused, known, logged,
                   drops, faults>>

\* handleHandshakeAck, the end of it: report the reconnection, flush and poll.
HandshakeReady ==
    /\ host = "serving" /\ ~ready
    /\ ready' = TRUE
    /\ IF \E e \in Range(outbox) : e.signal = "host_disconnect"
       THEN QueueMonitorEvent("reconnect_success")
       ELSE UNCHANGED <<outbox, ids, sliced>>
    /\ Flush(outbox', <<Poll>>)
    /\ UNCHANGED <<procs, host, thread, engine, toExt, refused, known, logged, drops, faults>>

\* pollNativeMonitor, on a timer; at most one poll is under way here.
PollNativeMonitor ==
    /\ ready /\ Poll \notin Range(toHost)
    /\ Flush(outbox, <<Poll>>)
    /\ UNCHANGED <<procs, host, thread, engine, toExt, ready, refused, outbox, ids,
                   sliced, known, logged, drops, faults>>

\* Mutant: an alert acknowledges everything that was sent.
HandleAlertForAll ==
    /\ ready /\ toExt # <<>>
    /\ toExt' = Tail(toExt)
    /\ inFlight' = {}
    /\ outbox' = SelectSeq(outbox, LAMBDA e : e.id \notin inFlight)
    /\ UNCHANGED <<procs, host, thread, engine, toHost, ready, refused, ids, sliced,
                   known, logged, drops, faults>>

\* The outbox without the entry of an event; no other entry has its id.
Without(box, i) == RemoveFirstMatch(box, LAMBDA e : e.id = i)

\* handleMonitorAlert for an event of the extension: acknowledge it and take it
\* out of the outbox.
HandleMonitorAlert ==
    LET i == Head(toExt) IN
    /\ ready /\ toExt # <<>>
    /\ toExt' = Tail(toExt)
    /\ inFlight' = inFlight \ {i}
    /\ outbox' = Without(outbox, i)
    /\ UNCHANGED <<procs, host, thread, engine, toHost, ready, refused, ids, sliced,
                   known, logged, drops, faults>>

\* Mutant: resetConnection is forgotten.
DisconnectKeepsWindow ==
    /\ host # "down" /\ drops < MaxDrops
    /\ drops' = drops + 1
    /\ host' = "down" /\ observer' = "none"
    /\ trace' = <<>> /\ batch' = <<>> /\ seen' = {} /\ excused' = {}
    /\ queue' = <<>> /\ accepted' = {} /\ gap' = FALSE
    /\ toHost' = <<>> /\ toExt' = <<>> /\ ready' = FALSE /\ refused' = {}
    /\ QueueMonitorEvent("host_disconnect")
    /\ UNCHANGED <<procs, inFlight, known, logged, faults>>

\* The port closes.  The host ends with all it had in memory, its thread
\* included; the extension clears its window and notes the event.
Disconnect ==
    /\ host # "down" /\ drops < MaxDrops
    /\ drops' = drops + 1
    /\ host' = "down" /\ observer' = "none"
    /\ trace' = <<>> /\ batch' = <<>> /\ seen' = {} /\ excused' = {}
    /\ queue' = <<>> /\ accepted' = {} /\ gap' = FALSE
    /\ toHost' = <<>> /\ toExt' = <<>> /\ ready' = FALSE /\ refused' = {}
    /\ inFlight' = {}
    /\ QueueMonitorEvent("host_disconnect")
    /\ UNCHANGED <<procs, known, logged, faults>>

Next ==
    \/ \E p \in Pids : StartProcess(p) \/ ExitProcess(p)
    \/ ObserverStep \/ ReportNext
    \/ Start \/ OpenHost \/ HandleEvent \/ HandlePoll \/ RemoveGroup
    \/ Occurs \/ HandshakeReady \/ PollNativeMonitor \/ HandleMonitorAlert \/ Disconnect

Spec == Init /\ [][Next]_vars

\* Chrome starts the host again a second after it is gone, the host's loop
\* handles every message, the extension every answer, and its timer polls.
FairSpec ==
    /\ Spec
    /\ WF_vars(Start) /\ WF_vars(OpenHost) /\ WF_vars(HandshakeReady)
    /\ WF_vars(HandleEvent \/ HandlePoll)
    /\ WF_vars(PollNativeMonitor) /\ WF_vars(HandleMonitorAlert)

(***************************************************************************)
(* Properties.                                                             *)
(***************************************************************************)

\* While the thread watches, every running process with a debugging switch is
\* known to it: a start event waits, or each of its switches is on the way to
\* the queue or was put there.  The others started between the baseline and
\* the subscription, took over a reported PID, or met a WMI failure.
Accounted ==
    observer = "watch" =>
        \A p \in Pids \ excused : \A s \in cmd[p] :
            p \in Range(trace) \/ <<p, s>> \in Range(batch) \cup seen

\* Events that enqueue_bounded threw away leave an overflow marker in the
\* queue until a poll takes one, also when the queue overflows again and again
\* and the marker itself would be the next to go.
OverflowReported == gap => Overflow \in Range(queue)

\* Every event of the extension stays in the outbox until the host has
\* audited it, through lost connections and hosts that forget what they
\* accepted, unless the outbox itself was full.
OutboxKept == \A i \in 1..ids : i \in Ids(outbox) \cup logged \cup sliced

\* The outbox drains whenever no new events come: flushMonitorOutbox sends an
\* entry on every new connection until its alert comes back, so what is left
\* in the end is what the host of the last connection refused.
Delivered == []<>(Ids(outbox) \subseteq refused)
============================================================================
