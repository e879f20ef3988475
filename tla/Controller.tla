----------------------------- MODULE Controller -----------------------------
(***************************************************************************)
(* The controller of the extension (extension/src/background.ts) for one   *)
(* account group: leases, evictions, the guarded removal of cookies, the   *)
(* durable operation reference, timers, loss of the port and restarts of   *)
(* the service worker, against a site that changes its cookies at any time *)
(* and a host that may die.                                                *)
(*                                                                         *)
(* Every task of the extension runs alone (enqueue), so a task is one      *)
(* action; only the guarded removal of cookies is several, because the     *)
(* site runs between them.  A task that cannot send stops there.           *)
(* The host's handlers (dispatcher.rs) are atomic here and their writes    *)
(* succeed: GroupRuntime has their steps.  Its journal is the last         *)
(* operation, the only one that can be unresolved (AtMostOneUnresolved)    *)
(* and the only one that the extension still asks for.  The extension has  *)
(* the permission for the scope, and the group is not monitor-only.        *)
(* A set of cookies is a function from names to values, 0 for no cookie.   *)
(***************************************************************************)
EXTENDS Naturals, Sequences, FiniteSets

CONSTANTS
    Names,      \* numbers that stand for the identities of cookies
    MaxMoves,   \* bound: changes that the site makes and moves of the user
    MaxQueue,   \* bound: messages to the host when a begin is repeated
    MaxDrops    \* bound: ports that close, hosts that die, workers that restart

ASSUME ControllerAssumption == Names \subseteq Nat /\ IsFiniteSet(Names)

VARIABLES
    \* the browser
    jar,        \* the cookies of the scope
    changed,    \* names whose cookies.onChanged event is not yet handled
    \* chrome.storage.local
    ext,        \* GroupRuntimeState
    ref,        \* OperationReference
    \* memory of the service worker
    port,       \* "none", "open" or "ready"
    inbox,      \* tasks for messages of the host and for the end of the port
    seen,       \* removalSnapshots: <<>> or the cookies of the last precheck
    loop,       \* the guarded removal under way
    timers,     \* pending timers: repeated begins and the retry after an injection
    \* the host
    host,       \* its process, lease metadata and pending operation
    op,         \* the last operation of the journal
    vault,      \* the cookies in the vault object, Empty without one
    toHost,     \* messages on their way to the host
    \* counters: changes of the site, attempt and lease identities issued, moves of
    \* the user, losses
    values, attempts, leases, users, drops

hosts == <<host, op, vault, leases>>
bounds == <<values, users, drops>>
vars == <<jar, changed, ext, ref, port, inbox, seen, loop, timers, host, op, vault, toHost,
          values, attempts, leases, users, drops>>

Empty == [n \in Names |-> 0]
Count(s) == Cardinality({n \in Names : s[n] # 0})

NoRef == [op |-> 0, attempt |-> 0, kind |-> "none", lease |-> 0, phase |-> "none"]
NoLoop == [at |-> "idle", plan |-> Empty, left |-> {}, name |-> 0, value |-> 0, ok |-> FALSE]
NoOp == [id |-> 0, attempt |-> 0, kind |-> "none", lease |-> 0, reason |-> "none",
         phase |-> "none", snapshot |-> Empty]
NoPending == [on |-> FALSE, confirmed |-> FALSE, counted |-> FALSE, chunk |-> <<>>]
InitialGroup == [state |-> "uninitialized", lease |-> 0, recon |-> FALSE, evicting |-> FALSE,
                 asked |-> "none", inval |-> FALSE, chained |-> FALSE, tries |-> 0]

Unresolved == op.phase \in {"NotCommitted", "BrowserRemovalPending"}

-----------------------------------------------------------------------------
(* Messages.                                                               *)

LeaseRequest(purpose) == [type |-> "lease.request", purpose |-> purpose]
OperationBegin(r, reason) ==
    [type |-> "operation.begin", attempt |-> r.attempt, kind |-> r.kind, lease |-> r.lease,
     reason |-> reason]
StatusQuery(r) == [type |-> "operation.status.query", op |-> r.op]
SnapshotChunk(r, purpose, cookies) ==
    [type |-> "cookies.snapshot.chunk", op |-> r.op, purpose |-> purpose, cookies |-> cookies]
RemovePrepare(r) == [type |-> "evict.remove.prepare", op |-> r.op]
EvictResult(r, success, remaining) ==
    [type |-> "evict.result", op |-> r.op, success |-> success, remaining |-> remaining]
InjectResult(lease, success) == [type |-> "inject.result", lease |-> lease, success |-> success]
SessionInvalidate(lease) == [type |-> "session.invalidate", lease |-> lease]

Ack(h) == [type |-> "handshake.ack", state |-> h.state, lease |-> h.lease]
LeaseGrant(lease) == [type |-> "lease.grant", lease |-> lease]
Inject(lease, cookies) == [type |-> "cookies.inject", lease |-> lease, cookies |-> cookies]
SnapshotRequired(o) == [type |-> "operation.snapshot_required", op |-> o.id, attempt |-> o.attempt]
Confirmed(o) == [type |-> "evict.confirmed", op |-> o.id, retain |-> o.kind = "enrollment"]
Authorized(o) == [type |-> "evict.remove.authorized", op |-> o.id]
Completed(o, success) == [type |-> "operation.completed", op |-> o.id, success |-> success]
Status(o) ==
    [type |-> "operation.status", op |-> o.id,
     action |-> CASE o.phase = "NotCommitted" -> "send_snapshot"
                  [] o.phase = "BrowserRemovalPending" -> "prepare_removal"
                  [] o.phase \in {"Completed", "Aborted"} -> "completed"
                  [] OTHER -> "reconciliation_required"]
Told(type) == [type |-> type]

-----------------------------------------------------------------------------
(* The host.                                                               *)

\* A handler returns; its replies are lost when the port is closed.
Reply(h, replies) ==
    /\ host' = h
    /\ inbox' = IF port = "none" THEN inbox ELSE inbox \o replies

Refuse == Reply(host, <<Told("operation.error")>>) /\ UNCHANGED <<op, vault, leases>>

\* handle_lease_request: an enrolment is granted to a new group, an injection to
\* a sealed one unless the user, the platform or a write refuses.
HostLease(m) ==
    LET enroll == m.purpose = "enroll" /\ host.state = "uninitialized" /\ vault = Empty
        inject == m.purpose = "inject" /\ host.state = "sealed" /\ vault # Empty
        id == leases + 1
    IN  IF host.pending.on \/ Unresolved \/ ~(enroll \/ inject)
        THEN Reply(host, <<Told("lease.deny")>>) /\ UNCHANGED <<op, vault, leases>>
        ELSE \/ /\ leases' = id
                /\ Reply([host EXCEPT !.lease = id, !.state = IF enroll THEN @ ELSE "leased"],
                         IF enroll THEN <<LeaseGrant(id)>> ELSE <<LeaseGrant(id), Inject(id, vault)>>)
                /\ UNCHANGED <<op, vault>>
             \/ inject /\ Refuse

\* handle_operation_begin
HostBegin(m) ==
    LET new == [id |-> op.id + 1, attempt |-> m.attempt, kind |-> m.kind, lease |-> m.lease,
                reason |-> m.reason, phase |-> "NotCommitted", snapshot |-> Empty]
        known == op.attempt = m.attempt
        same == <<op.kind, op.lease, op.reason>> = <<m.kind, m.lease, m.reason>>
        valid == /\ CASE m.kind = "enrollment" -> host.state = "uninitialized"
                      [] m.kind = "eviction" -> host.state = "leased" /\ host.lease = m.lease
                                                    /\ m.lease # 0
                      [] OTHER -> host.state # "uninitialized"
                 /\ ~host.pending.on /\ ~Unresolved
    IN  \/ /\ known /\ same
           /\ Reply(host, <<IF op.phase = "NotCommitted" THEN SnapshotRequired(op) ELSE Status(op)>>)
           /\ UNCHANGED <<op, vault, leases>>
        \/ ((known /\ ~same) \/ (~known /\ ~valid)) /\ Refuse
        \/ /\ ~known /\ valid
           /\ op' = new
           /\ Reply([host EXCEPT !.state = "evicting", !.pending = [NoPending EXCEPT !.on = TRUE]],
                    <<SnapshotRequired(new)>>)
           /\ UNCHANGED <<vault, leases>>

\* handle_operation_status: resumes the operation after a restart.
HostStatus(m) ==
    /\ Reply([host EXCEPT !.pending =
                 IF host.pending.on \/ ~Unresolved THEN @
                 ELSE [on |-> TRUE, confirmed |-> op.phase = "BrowserRemovalPending",
                       counted |-> op.phase = "BrowserRemovalPending", chunk |-> <<>>]],
             <<Status(op)>>)
    /\ UNCHANGED <<op, vault, leases>>

\* The host ends the pending operation in this phase and this state.
HostFinish(phase, state, lease, replies) ==
    /\ op' = [op EXCEPT !.phase = phase]
    /\ Reply([host EXCEPT !.state = state, !.lease = lease, !.pending = NoPending], replies)
    /\ UNCHANGED <<vault, leases>>

\* handle_snapshot_chunk: the snapshot is written to the vault, or an enrolment
\* of no cookies is aborted.
HostCommit(m) ==
    IF m.cookies = Empty /\ op.kind = "enrollment"
    THEN HostFinish("Aborted", "uninitialized", 0, <<Told("session.invalidated")>>)
    ELSE /\ op' = [op EXCEPT !.phase = "BrowserRemovalPending", !.snapshot = m.cookies]
         /\ vault' = IF m.cookies = Empty THEN vault ELSE m.cookies
         /\ Reply([host EXCEPT !.pending = [@ EXCEPT !.confirmed = TRUE, !.counted = TRUE,
                                                     !.chunk = <<m.cookies>>]],
                  <<Confirmed(op)>>)
         /\ UNCHANGED leases

\* handle_removal_snapshot_chunk, with verify_snapshot.
HostPrecheck(m) ==
    IF m.cookies = op.snapshot
    THEN /\ Reply([host EXCEPT !.pending.chunk = <<m.cookies>>], <<Authorized(op)>>)
         /\ UNCHANGED <<op, vault, leases>>
    ELSE HostFinish("ReconciliationRequired", "degraded", host.lease, <<Completed(op, FALSE)>>)

\* handle_snapshot_chunk_v7: a repeated chunk is ignored when it is the same and
\* refused otherwise; a chunk that does not fit is remembered and refused.
HostSnapshot(m) ==
    LET pending == host.pending
        misfit == \/ pending.confirmed <=> m.purpose = "commit"
                  \/ m.purpose = "commit" /\ m.cookies = Empty /\ op.kind # "enrollment" /\ vault = Empty
    IN  IF ~pending.on \/ m.op # op.id \/ pending.chunk \notin {<<>>, <<m.cookies>>}
        THEN Refuse
        ELSE IF pending.chunk = <<m.cookies>> \/ misfit
        THEN /\ Reply([host EXCEPT !.pending.chunk = <<m.cookies>>],
                      IF pending.chunk = <<>> THEN <<Told("operation.error")>> ELSE <<>>)
             /\ UNCHANGED <<op, vault, leases>>
        ELSE IF m.purpose = "commit" THEN HostCommit(m) ELSE HostPrecheck(m)

\* handle_remove_prepare
HostPrepare(m) ==
    IF host.pending.on /\ m.op = op.id /\ host.pending.confirmed
    THEN /\ Reply([host EXCEPT !.pending = [@ EXCEPT !.counted = FALSE, !.chunk = <<>>]], <<>>)
         /\ UNCHANGED <<op, vault, leases>>
    ELSE Refuse

\* handle_evict_result_v7
HostResult(m) ==
    LET enrollment == op.kind = "enrollment"
        retained == /\ enrollment /\ m.success /\ host.pending.counted
                    /\ m.remaining = Count(op.snapshot) /\ m.remaining > 0
        removed == ~enrollment /\ m.success /\ m.remaining = 0
        reported == m.success /\ (enrollment <=> m.remaining > 0)
    IN  IF ~host.pending.on \/ m.op # op.id \/ ~host.pending.confirmed THEN Refuse
        ELSE IF retained THEN HostFinish("Completed", "leased", host.lease, <<Completed(op, reported)>>)
        ELSE IF removed THEN HostFinish("Completed", "sealed", 0, <<Completed(op, reported)>>)
        ELSE HostFinish("ReconciliationRequired", "degraded", host.lease, <<Completed(op, reported)>>)

\* handle_inject_result
HostInject(m) ==
    IF host.state # "leased" \/ host.lease # m.lease THEN Refuse
    ELSE /\ Reply(IF m.success THEN host ELSE [host EXCEPT !.state = "degraded"], <<>>)
         /\ UNCHANGED <<op, vault, leases>>

\* handle_session_invalidate
HostInvalidate(m) ==
    IF host.pending.on \/ (host.state # "uninitialized" /\ m.lease \notin {0, host.lease})
    THEN Refuse
    ELSE /\ vault' = IF host.state = "uninitialized" THEN vault ELSE Empty
         /\ Reply([host EXCEPT !.state = "uninitialized", !.lease = IF host.state = "uninitialized" THEN @ ELSE 0],
                  <<Told("session.invalidated")>>)
         /\ UNCHANGED <<op, leases>>

HostHandle ==
    /\ host.up /\ toHost # <<>>
    /\ toHost' = Tail(toHost)
    /\ LET m == Head(toHost)
       IN  \/ m.type = "lease.request" /\ HostLease(m)
           \/ m.type = "operation.begin" /\ HostBegin(m)
           \/ m.type = "operation.status.query" /\ HostStatus(m)
           \/ m.type = "cookies.snapshot.chunk" /\ HostSnapshot(m)
           \/ m.type = "evict.remove.prepare" /\ HostPrepare(m)
           \/ m.type = "evict.result" /\ HostResult(m)
           \/ m.type = "inject.result" /\ HostInject(m)
           \/ m.type = "session.invalidate" /\ HostInvalidate(m)
    /\ UNCHANGED <<jar, changed, ext, ref, port, seen, loop, timers, attempts, bounds>>

-----------------------------------------------------------------------------
(* Asking the host: what a task leaves in storage and sends.               *)

TerminalPhase == {"none", "completed", "reconciliation_required"}

\* statusQuery and recoveryQuery: the host has named the operation and it is
\* not over.
Bound(r) == r.op # 0 /\ r.phase \notin TerminalPhase

\* OperationCoordinator.begin for a reference that is over or not yet issued.
Begun(e, r, kind) ==
    IF r.phase \notin TerminalPhase /\ r.lease = e.lease /\ r.kind = kind THEN r
    ELSE [NoRef EXCEPT !.attempt = attempts + 1, !.kind = kind, !.lease = e.lease,
                       !.phase = "begin_pending"]

\* A task that leaves this group and reference and sends nothing; its timers.
Quiet(e, r) == [ext |-> e, ref |-> r, out |-> <<>>, timer |-> {}]

\* sendOperationBegin of a new or repeated attempt.
Begin(e, r, kind, reason) ==
    LET begun == Begun(e, r, kind)
    IN  [ext |-> e, ref |-> begun, out |-> <<OperationBegin(begun, reason)>>,
         timer |-> {[attempt |-> begun.attempt, reason |-> reason, retry |-> 0]}]

\* requestLease
RequestLease(e, r, purpose) ==
    IF \/ e.inval \/ e.asked # "none" \/ e.evicting
       \/ e.state # (IF purpose = "enroll" THEN "uninitialized" ELSE "sealed")
    THEN Quiet(e, r)
    ELSE [Quiet([e EXCEPT !.asked = purpose, !.state = "unlocking"], r)
             EXCEPT !.out = <<LeaseRequest(purpose)>>]

\* requestEviction.  The reason "idle" stands for the four user-idle triggers,
\* "startup" for startup_reconciliation and "degraded" for degraded_cookie_detected.
RequestEviction(e, r, reason) ==
    LET valid == \/ e.state = "leased"
                 \/ e.state = "degraded" /\ reason = "degraded"
                 \/ e.state # "uninitialized" /\ reason = "startup"
        busy == e.inval \/ e.asked # "none" \/ e.evicting
        gone == reason = "idle" /\ jar = Empty
        evicting == [e EXCEPT !.evicting = TRUE, !.state = "evicting"]
    IN  CASE ~busy /\ gone /\ e.state = "leased" ->
                [Quiet([e EXCEPT !.inval = TRUE], r) EXCEPT !.out = <<SessionInvalidate(e.lease)>>]
          [] ~busy /\ ~gone /\ reason = "idle" /\ e.state = "uninitialized" ->
                RequestLease([e EXCEPT !.chained = TRUE], r, "enroll")
          [] ~busy /\ ~gone /\ valid ->
                IF Bound(r)
                THEN [Quiet(evicting, r) EXCEPT !.out = <<StatusQuery(r)>>]
                ELSE Begin(evicting, r, IF reason = "idle" THEN "eviction" ELSE "reconciliation",
                           reason)
          [] OTHER -> Quiet(e, r)

\* A timer of an attempt that is no longer the reference's, or no longer pending,
\* never does anything again.
Live(ts, r) == {t \in ts : t.attempt = 0 \/ (t.attempt = r.attempt /\ r.phase = "begin_pending")}

\* A task stores its result and sends; when it cannot send, the send throws, and
\* the timer that comes after it is not set.
DoIf(ready, t) ==
    /\ ext' = t.ext /\ ref' = t.ref
    /\ attempts' = IF t.ref.attempt > attempts THEN t.ref.attempt ELSE attempts
    /\ toHost' = IF ready THEN toHost \o t.out ELSE toHost
    /\ timers' = Live(IF ready THEN timers \cup t.timer ELSE timers, t.ref)

Do(t) == DoIf(port = "ready", t)

\* A task that throws before it has changed anything.
Throw == Do(Quiet(ext, ref))

Sending(e, r, messages) == [Quiet(e, r) EXCEPT !.out = messages]

-----------------------------------------------------------------------------
(* Messages of the host.                                                   *)

Received == inbox' = Tail(inbox)
NoChange == UNCHANGED <<jar, port, seen, loop>>

\* client.close(): the end of the port is handled like any other, at the latest
\* when the poll of the monitor next sends.
Close == port' = "none" /\ inbox' = Append(Tail(inbox), Told("disconnect"))

\* handleHandshakeAck: the host's state is adopted, an issued operation is asked
\* for, and decideStartup chooses one action.  A sealed scope is emptied, and a
\* tab that is open on it is taken through the unlock gate (offerUnlockOnTab).  A
\* pending invalidation chooses requestSessionInvalidation, which returns because
\* it is pending.
HandleAck(m) ==
    LET e == [ext EXCEPT !.state = m.state, !.lease = m.lease, !.asked = "none", !.evicting = FALSE,
                         !.recon = m.state \in {"unlocking", "evicting", "degraded"},
                         !.inval = @ /\ m.state # "uninitialized"]
        query == IF Bound(ref) THEN <<StatusQuery(ref)>> ELSE <<>>
        Then(t) == DoIf(port # "none", [t EXCEPT !.out = query \o @])
        Evict(reason) == Then(RequestEviction(e, ref, reason))
        clean == e.state = "sealed" /\ ~e.inval /\ jar # Empty /\ port # "none"
    IN  /\ Received
        /\ port' = IF port = "open" THEN "ready" ELSE port
        /\ jar' = IF clean THEN Empty ELSE jar
        /\ UNCHANGED <<seen, loop>>
        /\ CASE port = "none" -> Do(Quiet(e, ref))
             [] port # "none" /\ ~e.inval /\ e.state = "leased" ->
                   IF jar = Empty THEN Evict("startup") ELSE Evict("idle") \/ Then(Quiet(e, ref))
             [] clean -> Then(Quiet(e, ref)) \/ Then(RequestLease(e, ref, "inject"))
             [] port # "none" /\ ~e.inval /\ e.recon -> Evict("startup")
             [] OTHER -> Then(Quiet(e, ref))

\* lease.grant; the lease of an enrolment begins its operation.
HandleGrant(m) ==
    LET e == [ext EXCEPT !.lease = m.lease, !.asked = "none"]
    IN  /\ Received /\ NoChange
        /\ IF ext.asked = "enroll" /\ ~Bound(ref)
           THEN Do(Begin([e EXCEPT !.evicting = TRUE, !.state = "evicting"], ref, "enrollment", "enroll"))
           ELSE Do(Quiet(e, ref))

\* injectCookies: restored, or removed again when a cookie did not round-trip.
HandleInject(m) ==
    \/ /\ Received
       /\ jar' = [n \in Names |-> IF m.cookies[n] # 0 THEN m.cookies[n] ELSE jar[n]]
       /\ Do(Sending([ext EXCEPT !.state = "leased", !.lease = m.lease], ref,
                     <<InjectResult(m.lease, TRUE)>>))
       /\ UNCHANGED <<port, seen, loop>>
    \/ /\ Received
       /\ jar' = Empty
       /\ Do([Sending([ext EXCEPT !.state = "degraded", !.lease = m.lease], ref,
                      <<InjectResult(m.lease, FALSE)>>)
              EXCEPT !.timer = {[attempt |-> 0, reason |-> "startup", retry |-> 0]}])
       /\ UNCHANGED <<port, seen, loop>>

\* Mutant of AfterHostError: a refused unlock leaves the group unlocking.
AfterHostErrorUnlocking(e) ==
    IF e.asked = "enroll" \/ e.state = "evicting" THEN "degraded" ELSE e.state

\* stateAfterHostError
AfterHostError(e) ==
    CASE e.asked = "inject" -> "sealed"
      [] e.asked # "inject" /\ (e.asked = "enroll" \/ e.state \in {"unlocking", "evicting"}) -> "degraded"
      [] OTHER -> e.state

\* The state after lease.deny.
AfterDeny(e) ==
    CASE e.evicting -> "degraded"
      [] ~e.evicting /\ e.asked = "enroll" -> "uninitialized"
      [] ~e.evicting /\ e.asked = "inject" -> "sealed"
      [] OTHER -> e.state

\* lease.deny and operation.error
HandleRefusal(m) ==
    LET error == m.type = "operation.error"
        state == IF error THEN AfterHostError(ext) ELSE AfterDeny(ext)
    IN  /\ Received /\ NoChange
        /\ Do(Quiet([ext EXCEPT !.asked = "none", !.evicting = FALSE, !.state = state,
                                !.recon = IF error THEN state = "degraded" ELSE @], ref))

\* handleOperationSnapshotRequired: the identity is stored, or the port closed.
HandleSnapshotRequired(m) ==
    LET r == [ref EXCEPT !.op = m.op, !.phase = "snapshot_required"]
        e == IF port = "ready" THEN [ext EXCEPT !.state = "evicting", !.evicting = TRUE] ELSE ext
    IN  /\ UNCHANGED <<jar, seen, loop>>
        /\ IF ref.phase # "none" /\ ref.attempt = m.attempt
           THEN Do(Sending(e, r, <<SnapshotChunk(r, "commit", jar)>>)) /\ Received /\ UNCHANGED port
           ELSE Throw /\ Close

\* prepareGuardedRemoval
Prepare ==
    LET r == [ref EXCEPT !.phase = "removal_precheck"]
    IN  /\ Received
        /\ seen' = <<jar>>
        /\ Do(Sending(ext, r, <<RemovePrepare(r), SnapshotChunk(r, "removal_precheck", jar)>>))
        /\ UNCHANGED <<jar, port, loop>>

\* handleEvictConfirmedV7
HandleConfirmed(m) ==
    IF m.retain
    THEN /\ Received /\ NoChange
         /\ Do(Sending(ext, [ref EXCEPT !.phase = "committed"],
                       <<EvictResult(ref, Count(jar) > 0, Count(jar))>>))
    ELSE Prepare

\* handleOperationStatus
HandleStatus(m) ==
    CASE m.action = "send_snapshot" ->
            Received /\ NoChange /\ Do(Sending(ext, ref, <<SnapshotChunk(ref, "commit", jar)>>))
      [] m.action = "prepare_removal" -> Prepare
      [] m.action = "completed" -> Received /\ NoChange /\ Do(Quiet(ext, NoRef))
      [] OTHER -> /\ Received /\ NoChange
                  /\ Do(Quiet([ext EXCEPT !.state = "degraded", !.recon = TRUE],
                              [ref EXCEPT !.phase = "reconciliation_required"]))

\* Mutant of Succeeded: evictionRequestPending is left set.
SucceededPending(e, kind) ==
    [e EXCEPT !.state = IF kind = "enrollment" THEN "leased" ELSE "sealed",
              !.recon = FALSE, !.chained = FALSE, !.tries = 0,
              !.lease = IF kind = "enrollment" THEN @ ELSE 0]

\* Mutant of Succeeded: the kind of the operation is not looked at.
SucceededLeased(e, kind) ==
    [e EXCEPT !.state = "leased", !.recon = FALSE, !.evicting = FALSE, !.chained = FALSE, !.tries = 0]

\* The group after an operation of this kind that succeeded, and after one that
\* did not.
Succeeded(e, kind) ==
    [e EXCEPT !.state = IF kind = "enrollment" THEN "leased" ELSE "sealed",
              !.recon = FALSE, !.evicting = FALSE, !.chained = FALSE, !.tries = 0,
              !.lease = IF kind = "enrollment" THEN @ ELSE 0]
Failed(e) == [e EXCEPT !.state = "degraded", !.recon = TRUE, !.evicting = FALSE, !.tries = @ + 1]

\* handleOperationCompleted, with chainedEvictionAfterCompletion and
\* shouldRetryReconciliation.
HandleCompleted(m) ==
    LET done == Succeeded(ext, ref.kind)
        failed == Failed(ext)
        chained == m.success /\ ref.kind = "enrollment" /\ ext.chained
        over == [ref EXCEPT !.phase = "reconciliation_required"]
    IN  /\ Received /\ NoChange
        /\ Do(CASE chained -> RequestEviction(done, NoRef, "idle")
                [] m.success /\ ~chained -> Quiet(done, NoRef)
                [] ~m.success /\ failed.tries <= 2 -> RequestEviction(failed, over, "degraded")
                [] OTHER -> Quiet(failed, over))

\* session.invalidated
HandleInvalidated ==
    /\ Received
    /\ jar' = Empty
    /\ Do(Quiet(InitialGroup, NoRef))
    /\ UNCHANGED <<port, seen, loop>>

\* onDisconnect, with stateAfterDisconnect: the cookies of an active lease are
\* removed from the browser.
HandleDisconnect ==
    LET active == ext.state \in {"leased", "evicting"}
    IN  /\ Received
        /\ jar' = IF active THEN Empty ELSE jar
        /\ Do(Quiet(IF active THEN [ext EXCEPT !.state = "degraded", !.recon = TRUE] ELSE ext, ref))
        /\ UNCHANGED <<port, seen, loop>>

-----------------------------------------------------------------------------
(* The guarded removal.                                                    *)

\* handleRemovalAuthorized: the plan is the last precheck's snapshot.
HandleAuthorized(m) ==
    /\ Received
    /\ Do(Quiet(ext, [ref EXCEPT !.phase = "removal_authorized"]))
    /\ loop' = [NoLoop EXCEPT !.at = "look", !.plan = seen[1], !.left = Names]
    /\ UNCHANGED <<jar, port, seen>>

\* Mutant of Expected: only the identity of a cookie is compared.
ExpectedIdentity(n) == n \in loop.left /\ loop.plan[n] # 0

\* GuardedRemovalPlan.next: a cookie is one of the rest of the plan.
Expected(n) == n \in loop.left /\ loop.plan[n] = jar[n]

\* One turn of the loop up to removeCookie: the cookies are read and the first
\* one of the plan that is there is chosen.
Look ==
    LET there == {n \in Names : jar[n] # 0}
        n == CHOOSE x \in there : \A y \in there : x <= y
    IN  /\ loop.at = "look"
        /\ loop' = IF \E x \in there : ~Expected(x) THEN [loop EXCEPT !.at = "end", !.ok = FALSE]
                   ELSE IF there = {} THEN [loop EXCEPT !.at = "end", !.ok = TRUE]
                   ELSE [loop EXCEPT !.at = "remove", !.name = n, !.value = jar[n],
                                     !.left = {x \in loop.left : x > n}]
        /\ UNCHANGED <<jar, changed, ext, ref, port, inbox, seen, timers, hosts, toHost, attempts, bounds>>

\* removeCookie, whatever the site has put there since.
Remove ==
    /\ loop.at = "remove"
    /\ jar' = [jar EXCEPT ![loop.name] = 0]
    /\ loop' = [loop EXCEPT !.at = "look"]
    /\ UNCHANGED <<changed, ext, ref, port, inbox, seen, timers, hosts, toHost, attempts, bounds>>

\* The result; without a port nothing is stored.
Report ==
    LET success == loop.ok /\ jar = Empty
    IN  /\ loop.at = "end"
        /\ loop' = NoLoop
        /\ IF port = "ready"
           THEN /\ seen' = <<>>
                /\ Do(Sending([ext EXCEPT !.state = IF success THEN "sealed" ELSE "degraded",
                                          !.recon = ~success], ref,
                              <<EvictResult(ref, success, Count(jar))>>))
           ELSE Throw /\ UNCHANGED seen
        /\ UNCHANGED <<jar, changed, port, inbox, hosts, bounds>>

\* assertBinding
BoundMessage(m) == ref.op # 0 /\ ref.op = m.op

Receive ==
    /\ loop.at = "idle" /\ inbox # <<>>
    /\ LET m == Head(inbox)
       IN  \/ m.type = "handshake.ack" /\ HandleAck(m)
           \/ m.type = "lease.grant" /\ HandleGrant(m)
           \/ m.type = "cookies.inject" /\ HandleInject(m)
           \/ m.type \in {"lease.deny", "operation.error"} /\ HandleRefusal(m)
           \/ m.type = "operation.snapshot_required" /\ HandleSnapshotRequired(m)
           \/ m.type = "session.invalidated" /\ HandleInvalidated
           \/ m.type = "disconnect" /\ HandleDisconnect
           \/ m.type = "evict.confirmed" /\ BoundMessage(m) /\ HandleConfirmed(m)
           \/ m.type = "operation.status" /\ BoundMessage(m) /\ HandleStatus(m)
           \/ m.type = "operation.completed" /\ BoundMessage(m) /\ HandleCompleted(m)
           \/ m.type = "evict.remove.authorized" /\ BoundMessage(m) /\ seen # <<>> /\ HandleAuthorized(m)
           \/ /\ \/ /\ m.type \in {"evict.confirmed", "operation.status", "operation.completed",
                                   "evict.remove.authorized"}
                    /\ ~BoundMessage(m)
                 \/ m.type = "evict.remove.authorized" /\ seen = <<>>
              /\ Received /\ Throw /\ NoChange
    /\ changed' = IF Head(inbox).type = "cookies.inject"
                  THEN changed \cup {n \in Names : Head(inbox).cookies[n] # 0} ELSE changed
    /\ UNCHANGED <<hosts, bounds>>

-----------------------------------------------------------------------------
(* Other tasks of the controller.                                          *)

Task(t) ==
    /\ loop.at = "idle"
    /\ Do(t)
    /\ UNCHANGED <<port, inbox, seen, loop, hosts, values, drops>>

\* The timer of sendOperationBegin: repeated twice, then the port is closed.
RetryBegin(t) ==
    LET waiting == ref.attempt = t.attempt /\ ref.phase = "begin_pending" /\ port = "ready"
    IN  /\ loop.at = "idle" /\ t \in timers /\ t.attempt # 0
        /\ Len(toHost) < MaxQueue
        /\ IF waiting /\ t.retry < 2
           THEN /\ toHost' = Append(toHost, OperationBegin(ref, t.reason))
                /\ timers' = (timers \ {t}) \cup {[t EXCEPT !.retry = @ + 1]}
                /\ UNCHANGED <<port, inbox>>
           ELSE /\ timers' = timers \ {t}
                /\ IF waiting THEN port' = "none" /\ inbox' = Append(inbox, Told("disconnect"))
                   ELSE UNCHANGED <<port, inbox>>
                /\ UNCHANGED toHost
        /\ UNCHANGED <<jar, changed, ext, ref, seen, loop, hosts, attempts, bounds>>

\* The timer after an injection that failed.
RetryInjection(t) ==
    LET result == RequestEviction(ext, ref, "startup")
    IN  /\ loop.at = "idle" /\ t \in timers /\ t.attempt = 0
        /\ ext' = result.ext /\ ref' = result.ref
        /\ attempts' = IF result.ref.attempt > attempts THEN result.ref.attempt ELSE attempts
        /\ toHost' = IF port = "ready" THEN toHost \o result.out ELSE toHost
        /\ timers' = Live((timers \ {t}) \cup (IF port = "ready" THEN result.timer ELSE {}), result.ref)
        /\ UNCHANGED <<jar, changed, port, inbox, seen, loop, hosts, bounds>>

\* The last tab closes, the user is idle, the screen is locked.
GoIdle ==
    /\ values + users < MaxMoves /\ users' = users + 1
    /\ ext.state \in {"leased", "uninitialized"}
    /\ Task(RequestEviction(ext, ref, "idle"))
    /\ UNCHANGED <<jar, changed>>

\* The lease expires.
Expire ==
    /\ ext.state = "leased" /\ ~ext.inval
    /\ Task(RequestEviction(ext, ref, "idle"))
    /\ UNCHANGED <<jar, changed, users>>

\* A tab of the scope is loaded.
Navigate ==
    /\ values + users < MaxMoves /\ users' = users + 1
    /\ \/ ext.state = "sealed" /\ ~ext.recon /\ Task(RequestLease(ext, ref, "inject"))
       \/ ext.state = "degraded" /\ Task(RequestEviction(ext, ref, "startup"))
    /\ UNCHANGED <<jar, changed>>

\* cookies.onChanged
OnChanged(n) ==
    /\ n \in changed
    /\ changed' = changed \ {n}
    /\ jar' = IF ext.state = "sealed" THEN [jar EXCEPT ![n] = 0] ELSE jar
    /\ Task(IF ext.state = "degraded" THEN RequestEviction(ext, ref, "degraded") ELSE Quiet(ext, ref))
    /\ UNCHANGED users

-----------------------------------------------------------------------------
(* The site, failures and restarts.                                        *)

Elsewhere == UNCHANGED <<ext, ref, timers, attempts>>

\* The site sets or drops a cookie.
SiteSets(n) ==
    /\ values + users < MaxMoves /\ values' = values + 1
    /\ \/ jar' = [jar EXCEPT ![n] = 1 + values'] /\ changed' = changed \cup {n}
       \/ jar[n] # 0 /\ jar' = [jar EXCEPT ![n] = 0] /\ UNCHANGED changed
    /\ UNCHANGED <<port, inbox, seen, loop, hosts, toHost, users, drops>> /\ Elsewhere

\* The port closes; a host that lives on handles what it was sent.
Drop ==
    /\ port # "none" /\ drops < MaxDrops /\ drops' = drops + 1
    /\ port' = "none" /\ inbox' = Append(inbox, Told("disconnect"))
    /\ UNCHANGED <<jar, changed, seen, loop, hosts, toHost, values, users>> /\ Elsewhere

\* The worker is stopped: its tasks, timers and snapshots are gone.
WorkerStops ==
    /\ drops < MaxDrops /\ drops' = drops + 1
    /\ port' = "none" /\ inbox' = <<>> /\ seen' = <<>> /\ loop' = NoLoop /\ timers' = {}
    /\ changed' = {}
    /\ UNCHANGED <<jar, ext, ref, attempts, hosts, toHost, values, users>>

\* The host of a closed port ends, at the end of its input or killed before.
HostEnds ==
    /\ port = "none" /\ host.up
    /\ host' = [host EXCEPT !.up = FALSE, !.pending = NoPending]
    /\ toHost' = <<>>
    /\ UNCHANGED <<jar, changed, port, inbox, seen, loop, op, vault, leases, bounds>> /\ Elsewhere

\* The host as its next start leaves it: load_or_initialize, startup_recover and
\* repair_lease_v1_projection.
Restarted ==
    LET reset == host.state # "uninitialized" /\ vault = Empty
        degraded == Unresolved /\ ~reset /\ host.state # "uninitialized"
    IN  [host EXCEPT !.up = TRUE,
                     !.state = IF reset THEN "uninitialized" ELSE IF degraded THEN "degraded" ELSE @,
                     !.lease = IF reset THEN 0 ELSE @]

\* connect, a second after the end of the last port was handled.
Connect ==
    /\ port = "none" /\ inbox = <<>> /\ loop.at = "idle" /\ ~host.up
    /\ host' = Restarted
    /\ op' = IF op.phase = "NotCommitted" THEN [op EXCEPT !.phase = "Aborted"] ELSE op
    /\ port' = "open" /\ inbox' = <<Ack(Restarted)>>
    /\ UNCHANGED <<jar, changed, seen, loop, vault, leases, toHost, bounds>> /\ Elsewhere

-----------------------------------------------------------------------------
Init ==
    /\ jar \in [Names -> {0, 1}] /\ changed = {}
    /\ ext = InitialGroup /\ ref = NoRef
    /\ port = "none" /\ inbox = <<>> /\ seen = <<>> /\ loop = NoLoop /\ timers = {}
    /\ host = [up |-> FALSE, state |-> "uninitialized", lease |-> 0, pending |-> NoPending]
    /\ op = NoOp /\ vault = Empty /\ toHost = <<>>
    /\ values = 0 /\ attempts = 0 /\ leases = 0 /\ users = 0 /\ drops = 0

Timer == \E t \in timers : RetryBegin(t) \/ RetryInjection(t)
Event == \E n \in Names : OnChanged(n)
Site == \E n \in Names : SiteSets(n)

Next ==
    \/ HostHandle \/ HostEnds \/ Connect
    \/ Receive \/ Look \/ Remove \/ Report
    \/ Timer \/ Event \/ GoIdle \/ Expire \/ Navigate
    \/ Site \/ Drop \/ WorkerStops

Spec == Init /\ [][Next]_vars

FairSpec ==
    /\ Spec
    /\ WF_vars(HostHandle) /\ WF_vars(HostEnds) /\ WF_vars(Connect)
    /\ WF_vars(Receive) /\ WF_vars(Look \/ Remove \/ Report)
    /\ WF_vars(Timer) /\ WF_vars(Event) /\ WF_vars(Expire)

-----------------------------------------------------------------------------
(* Properties.                                                             *)

\* A cookie value that the guarded removal deletes from the browser is in the
\* vault at that moment, although the site may change its cookies between any
\* two steps of handleRemovalAuthorized and ports, workers and hosts may be lost:
\* as long as the plan is the snapshot that the host authorized, and also while
\* the host still waits for the removal and no other precheck is on its way.  (A
\* status that is asked for twice has two prechecks under way, and the plan is
\* then that of the second one: see README.)  Only a session that is invalidated
\* once its operation has ended has no vault.  A value that the site puts there
\* between the reading of the cookies and chrome.cookies.remove is removed unseen;
\* the claim is about the others.
RemovedIsVaulted ==
    [][/\ Remove
       /\ jar[loop.name] = loop.value
       /\ \/ loop.plan = op.snapshot
          \/ /\ port = "ready" /\ op.phase = "BrowserRemovalPending"
             /\ ~\E q \in DOMAIN toHost : /\ toHost[q].type = "cookies.snapshot.chunk"
                                          /\ toHost[q].purpose = "removal_precheck"
       => vault[loop.name] = loop.value \/ (vault = Empty /\ ~Unresolved)]_vars

\* When nothing is on its way, a group that the extension takes for leased is
\* leased for the host too, under the same lease: stale answers, repeated begins
\* and restarts never leave cookies in the browser under a lease that the host
\* does not know and would not evict.
LeasedAgrees ==
    /\ port = "ready" /\ inbox = <<>> /\ toHost = <<>> /\ loop.at = "idle"
    /\ ext.state = "leased"
    => host.state = "leased" /\ host.lease = ext.lease

\* The transient states of the controller end: an unlock is granted, denied or
\* refused, and an eviction ends or its operation reference is at least dropped,
\* whatever port, worker or host is lost on the way.
TransientEnds ==
    /\ ext.state = "unlocking" ~> ext.state # "unlocking"
    /\ ext.state = "evicting" ~> (ext.state # "evicting" \/ ref = NoRef)

\* A lease does not outlast the triggers that end it: no flag of an earlier
\* request (pendingLeaseRequest, evictionRequestPending) makes requestEviction
\* return for ever.  A pending invalidation does (see README).
LeaseEnds == ext.state = "leased" ~> (ext.state # "leased" \/ ext.inval)
=============================================================================
