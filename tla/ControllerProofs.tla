-------------------------- MODULE ControllerProofs --------------------------
(***************************************************************************)
(* Proofs about Controller, for any set of cookie names, any number of     *)
(* changes by the site, of moves of the user, of repeated begins and of    *)
(* lost ports, workers and hosts.                                          *)
(*                                                                         *)
(* Every step is first put into one of a few classes (Step): a handler of  *)
(* the host by its outcome, a reply by what its handler leaves, a task, a  *)
(* turn of the removal loop, a loss.  Types, the order of attempts         *)
(* (Order), what the host's records say of one another (HostFacts) and the *)
(* guarded removal (Removal) are then shown to be kept class by class.     *)
(* For the lease (Agreement) the classes are first reduced to what they do *)
(* to the queues and to a few fields (Shape); each of its parts is then    *)
(* shown to be kept by every shape.                                        *)
(***************************************************************************)
EXTENDS Controller, FiniteSetTheorems, SequenceTheorems, TLAPS

-----------------------------------------------------------------------------
(* Queues.                                                                 *)

\* t is s with one element more at its end, and s without its first element.
Grown(s, t, e) ==
    /\ Len(t) = Len(s) + 1 /\ t[Len(s) + 1] = e
    /\ \A i \in 1 .. Len(s) : t[i] = s[i]
Shrunk(s, t) ==
    /\ Len(s) > 0 /\ Len(t) = Len(s) - 1
    /\ \A i \in 1 .. Len(t) : t[i] = s[i + 1]

\* What Tail and Head are.
LEMMA TailShrinks ==
    ASSUME NEW S, NEW s \in Seq(S), s # <<>>
    PROVE  Tail(s) \in Seq(S) /\ Shrunk(s, Tail(s)) /\ Head(s) = s[1] /\ s[1] \in S
  BY HeadTailProperties, EmptySeq, LenProperties, ElementOfSeq DEF Shrunk

\* What a reply or a message at the end of a queue does.
LEMMA CatGrows ==
    ASSUME NEW S, NEW s \in Seq(S), NEW e \in S
    PROVE  s \o <<e>> \in Seq(S) /\ Grown(s, s \o <<e>>, e) /\ Append(s, e) = s \o <<e>>
  <1>1. s \o <<e>> = Append(s, e)
    BY AppendIsConcat
  <1> QED BY <1>1, AppendProperties, LenProperties DEF Grown

\* Two messages at the end of a queue are one after the other.
LEMMA CatTwice ==
    ASSUME NEW S, NEW s \in Seq(S), NEW e \in S, NEW f \in S
    PROVE  s \o <<e, f>> = (s \o <<e>>) \o <<f>>
  <1>1. <<e>> \in Seq(S) /\ <<e, f>> \in Seq(S) /\ <<f>> \in Seq(S)
    OBVIOUS
  <1>2. <<e>> \o <<f>> = Append(<<e>>, f)
    BY <1>1, AppendIsConcat
  <1>3. Append(<<e>>, f) = <<e, f>>
    <2>1. /\ Len(<<e>>) = 1 /\ <<e>>[1] = e /\ Len(<<e, f>>) = 2
          /\ <<e, f>>[1] = e /\ <<e, f>>[2] = f
      OBVIOUS
    <2>2. /\ Append(<<e>>, f) \in Seq(S) /\ Len(Append(<<e>>, f)) = 2
          /\ Append(<<e>>, f)[1] = e /\ Append(<<e>>, f)[2] = f
      BY <1>1, <2>1, AppendProperties
    <2>3. \A i \in 1 .. 2 : Append(<<e>>, f)[i] = <<e, f>>[i]
      BY <2>1, <2>2
    <2> DEFINE a == Append(<<e>>, f)
               b == <<e, f>>
    <2>4. a \in Seq(S) /\ b \in Seq(S) /\ Len(a) = Len(b) /\ \A i \in 1 .. Len(a) : a[i] = b[i]
      BY <1>1, <2>1, <2>2, <2>3
    <2> HIDE DEF a, b
    <2>5. a = b
      BY <2>4, SeqEqual
    <2> QED BY <2>5 DEF a, b
  <1>4. s \o (<<e>> \o <<f>>) = (s \o <<e>>) \o <<f>>
    BY <1>1, ConcatAssociative
  <1> QED BY <1>2, <1>3, <1>4

\* Nothing at the end of a queue.
LEMMA CatNothing ==
    ASSUME NEW S, NEW s \in Seq(S)
    PROVE  s \o <<>> = s /\ <<>> \o s = s
  BY ConcatEmptySeq

\* A finite set of numbers has a least one: the cookie that a turn of the
\* guarded removal chooses is there.
LEMMA Least ==
    ASSUME NEW S \in SUBSET Nat, IsFiniteSet(S), S # {} PROVE \E x \in S : \A y \in S : x <= y
  <1> DEFINE Below(x) == {y \in S : y < x}
             T == {Below(x) : x \in S}
  <1>1. IsWellFoundedOn(StrictSubsetOrdering(S), FiniteSubsetsOf(S))
    BY FS_StrictSubsetOrderingWellFounded
  <1>2. T \subseteq FiniteSubsetsOf(S) /\ T # {}
    <2>1. FiniteSubsetsOf(S) = SUBSET S
      BY FS_FiniteSubsetsOfFinite
    <2>2. T # {}
      OBVIOUS
    <2>3. \A x \in S : Below(x) \subseteq S
      OBVIOUS
    <2>4. T \subseteq SUBSET S
      BY <2>3
    <2> QED BY <2>1, <2>2, <2>4
  <1>3. \A x \in S : Below(x) \in T
    OBVIOUS
  <1>4. \A b \in T : \E x \in S : b = Below(x)
    OBVIOUS
  <1> HIDE DEF T
  <1>5. PICK b \in T : \A c \in T : <<c, b>> \notin StrictSubsetOrdering(S)
    BY <1>1, <1>2, WFMin
  <1>6. PICK x \in S : b = Below(x)
    BY <1>5, <1>4
  <1>7. ASSUME NEW y \in S PROVE x <= y
    <2>1. SUFFICES ASSUME y < x PROVE FALSE
      OBVIOUS
    <2>2. Below(y) \subseteq Below(x) /\ y \in Below(x) /\ y \notin Below(y)
      <3>1. y \in Nat /\ x \in Nat /\ \A z \in S : z \in Nat
        OBVIOUS
      <3>2. \A z \in S : z < y => z < x
        BY <2>1, <3>1
      <3>3. ~(y < y)
        BY <3>1
      <3> QED BY <2>1, <3>2, <3>3
    <2>3. <<Below(y), Below(x)>> \in StrictSubsetOrdering(S)
      BY <2>2 DEF StrictSubsetOrdering
    <2> QED BY <1>5, <1>3, <1>6, <2>3
  <1> QED BY <1>7

-----------------------------------------------------------------------------
(* Types.                                                                  *)

Cookies == [Names -> Nat]
Kinds == {"enrollment", "eviction", "reconciliation"}
Reasons == {"enroll", "idle", "startup", "degraded"}
HostStates == {"uninitialized", "sealed", "leased", "evicting", "degraded"}

Groups == [state : HostStates \cup {"unlocking"}, lease : Nat, recon : BOOLEAN, evicting : BOOLEAN,
           asked : {"none", "enroll", "inject"}, inval : BOOLEAN, chained : BOOLEAN, tries : Nat]
References ==
    {r \in [op : Nat, attempt : Nat, kind : Kinds \cup {"none"}, lease : Nat,
            phase : {"none", "begin_pending", "snapshot_required", "committed", "removal_precheck",
                     "removal_authorized", "reconciliation_required"}] :
        /\ r.kind = "none" <=> r.phase = "none"
        /\ r.kind = "none" <=> r.attempt = 0
        /\ r.op # 0 => r.phase \notin {"none", "begin_pending"}}
Pendings == [on : BOOLEAN, confirmed : BOOLEAN, counted : BOOLEAN, chunk : Seq(Cookies)]
HostsSet == [up : BOOLEAN, state : HostStates, lease : Nat, pending : Pendings]
Ops == [id : Nat, attempt : Nat, kind : Kinds \cup {"none"}, lease : Nat, reason : Reasons \cup {"none"},
        phase : {"none", "NotCommitted", "BrowserRemovalPending", "Completed", "Aborted",
                 "ReconciliationRequired"}, snapshot : Cookies]
Loops == [at : {"idle", "look", "remove", "end"}, plan : Cookies, left : SUBSET Names, name : Nat,
          value : Nat, ok : BOOLEAN]
Timers == [attempt : Nat, reason : Reasons, retry : Nat]

Requests ==
    [type : {"lease.request"}, purpose : {"enroll", "inject"}]
      \cup [type : {"operation.begin"}, attempt : Nat, kind : Kinds, lease : Nat, reason : Reasons]
      \cup [type : {"operation.status.query", "evict.remove.prepare"}, op : Nat]
      \cup [type : {"cookies.snapshot.chunk"}, op : Nat, purpose : {"commit", "removal_precheck"},
            cookies : Cookies]
      \cup [type : {"evict.result"}, op : Nat, success : BOOLEAN, remaining : Nat]
      \cup [type : {"inject.result"}, lease : Nat, success : BOOLEAN]
      \cup [type : {"session.invalidate"}, lease : Nat]
Replies ==
    [type : {"handshake.ack"}, state : HostStates, lease : Nat]
      \cup [type : {"lease.grant"}, lease : Nat]
      \cup [type : {"cookies.inject"}, lease : Nat, cookies : Cookies]
      \cup [type : {"operation.snapshot_required"}, op : Nat, attempt : Nat]
      \cup [type : {"evict.confirmed"}, op : Nat, retain : BOOLEAN]
      \cup [type : {"evict.remove.authorized"}, op : Nat]
      \cup [type : {"operation.completed"}, op : Nat, success : BOOLEAN]
      \cup [type : {"operation.status"}, op : Nat,
            action : {"send_snapshot", "prepare_removal", "completed", "reconciliation_required"}]
      \cup [type : {"lease.deny", "operation.error", "session.invalidated", "disconnect"}]

\* The variables have the types of the code's records and messages, and no
\* reference has an attempt that was not issued.
TypeOK ==
    /\ jar \in Cookies /\ changed \in SUBSET Names
    /\ ext \in Groups /\ ref \in References
    /\ port \in {"none", "open", "ready"} /\ inbox \in Seq(Replies)
    /\ seen \in Seq(Cookies) /\ loop \in Loops /\ timers \in SUBSET Timers
    /\ host \in HostsSet /\ op \in Ops /\ vault \in Cookies /\ toHost \in Seq(Requests)
    /\ values \in Nat /\ attempts \in Nat /\ leases \in Nat /\ users \in Nat /\ drops \in Nat
    /\ ref.attempt <= attempts

-----------------------------------------------------------------------------
(* What a message does to the host: the outcomes of its handlers.          *)

Says(reply) == inbox' = IF port = "none" THEN inbox ELSE inbox \o <<reply>>
Same == host' = host /\ op' = op /\ vault' = vault /\ leases' = leases
Free == ~host.pending.on /\ ~Unresolved
Serving(m) == host.pending.on /\ m.op = op.id

Refused(m) ==
    /\ Same /\ \E t \in {"lease.deny", "operation.error"} : Says(Told(t))
    /\ m.type = "cookies.snapshot.chunk" => ~Serving(m) \/ host.pending.chunk # <<>>
    /\ m.type = "evict.remove.prepare" => ~Serving(m) \/ ~host.pending.confirmed
    /\ m.type = "session.invalidate" => host.pending.on \/ m.lease \notin {0, host.lease}
Enrolled(m) ==
    /\ m.type = "lease.request" /\ Free /\ host.state = "uninitialized" /\ vault = Empty
    /\ leases' = leases + 1 /\ host' = [host EXCEPT !.lease = leases + 1]
    /\ op' = op /\ vault' = vault /\ Says(LeaseGrant(leases + 1))
Unlocked(m) ==
    /\ m.type = "lease.request" /\ Free /\ host.state = "sealed" /\ vault # Empty
    /\ leases' = leases + 1 /\ host' = [host EXCEPT !.lease = leases + 1, !.state = "leased"]
    /\ op' = op /\ vault' = vault
    /\ inbox' = IF port = "none" THEN inbox
                ELSE (inbox \o <<LeaseGrant(leases + 1)>>) \o <<Inject(leases + 1, vault)>>
Repeated(m) ==
    /\ m.type = "operation.begin" /\ op.attempt = m.attempt /\ Same
    /\ op.phase = "NotCommitted" => Says(SnapshotRequired(op))
    /\ op.phase # "NotCommitted" => Says(Status(op))
Started(m) ==
    /\ m.type = "operation.begin" /\ op.attempt # m.attempt /\ Free
    /\ m.kind = "enrollment" <=> host.state = "uninitialized"
    /\ op' = [id |-> op.id + 1, attempt |-> m.attempt, kind |-> m.kind, lease |-> m.lease,
              reason |-> m.reason, phase |-> "NotCommitted", snapshot |-> Empty]
    /\ host' = [host EXCEPT !.state = "evicting", !.pending = [NoPending EXCEPT !.on = TRUE]]
    /\ vault' = vault /\ leases' = leases /\ Says(SnapshotRequired(op'))
Answered(m) ==
    /\ m.type = "operation.status.query" /\ op' = op /\ vault' = vault /\ leases' = leases
    /\ host' = [host EXCEPT !.pending =
                   IF ~Unresolved \/ host.pending.on THEN @
                   ELSE [on |-> TRUE, confirmed |-> op.phase = "BrowserRemovalPending",
                         counted |-> op.phase = "BrowserRemovalPending", chunk |-> <<>>]]
    /\ Says(Status(op))
Ended(phase, state, lease) ==
    /\ op' = [op EXCEPT !.phase = phase]
    /\ host' = [host EXCEPT !.state = state, !.lease = lease, !.pending = NoPending]
    /\ vault' = vault /\ leases' = leases
Dropped(m) ==
    /\ m.type = "cookies.snapshot.chunk" /\ m.purpose = "commit" /\ Serving(m)
    /\ ~host.pending.confirmed /\ op.kind = "enrollment"
    /\ Ended("Aborted", "uninitialized", 0) /\ Says(Told("session.invalidated"))
Stored(m) ==
    /\ m.type = "cookies.snapshot.chunk" /\ m.purpose = "commit" /\ Serving(m)
    /\ ~host.pending.confirmed
    /\ m.cookies # Empty \/ vault # Empty
    /\ op' = [op EXCEPT !.phase = "BrowserRemovalPending", !.snapshot = m.cookies]
    /\ vault' = IF m.cookies = Empty THEN vault ELSE m.cookies
    /\ host' = [host EXCEPT !.pending = [@ EXCEPT !.confirmed = TRUE, !.counted = TRUE,
                                                 !.chunk = <<m.cookies>>]]
    /\ leases' = leases /\ Says(Confirmed(op))
Checked(m) ==
    /\ m.type = "cookies.snapshot.chunk" /\ m.purpose = "removal_precheck" /\ Serving(m)
    /\ host.pending.confirmed /\ m.cookies = op.snapshot
    /\ host' = [host EXCEPT !.pending.chunk = <<m.cookies>>]
    /\ op' = op /\ vault' = vault /\ leases' = leases /\ Says(Authorized(op))
Lost(m, success) ==
    /\ Serving(m) /\ host.pending.confirmed
    /\ \/ /\ m.type = "cookies.snapshot.chunk" /\ m.purpose = "removal_precheck"
          /\ m.cookies # op.snapshot /\ ~success
       \/ m.type = "evict.result" /\ (success => m.success /\ m.remaining > 0 /\ op.kind = "enrollment")
    /\ Ended("ReconciliationRequired", "degraded", host.lease) /\ Says(Completed(op, success))
Noted(m) ==
    /\ m.type = "cookies.snapshot.chunk" /\ Serving(m)
    /\ \/ host.pending.chunk = <<m.cookies>>
       \/ ~host.pending.confirmed \/ m.purpose = "commit"
    /\ host' = [host EXCEPT !.pending.chunk = <<m.cookies>>]
    /\ op' = op /\ vault' = vault /\ leases' = leases
    /\ inbox' = inbox \/ Says(Told("operation.error"))
Prepared(m) ==
    /\ m.type = "evict.remove.prepare" /\ Serving(m) /\ host.pending.confirmed
    /\ host' = [host EXCEPT !.pending = [@ EXCEPT !.counted = FALSE, !.chunk = <<>>]]
    /\ op' = op /\ vault' = vault /\ leases' = leases /\ inbox' = inbox
Retained(m) ==
    /\ m.type = "evict.result" /\ Serving(m) /\ host.pending.confirmed
    /\ op.kind = "enrollment" /\ m.success /\ m.remaining > 0
    /\ Ended("Completed", "leased", host.lease) /\ Says(Completed(op, TRUE))
Sealed(m) ==
    /\ m.type = "evict.result" /\ Serving(m) /\ host.pending.confirmed
    /\ op.kind # "enrollment"
    /\ Ended("Completed", "sealed", 0) /\ Says(Completed(op, TRUE))
Injected(m) ==
    /\ m.type = "inject.result" /\ host.state = "leased" /\ host.lease = m.lease
    /\ host' = IF m.success THEN host ELSE [host EXCEPT !.state = "degraded"]
    /\ op' = op /\ vault' = vault /\ leases' = leases /\ inbox' = inbox
Invalidated(m) ==
    /\ m.type = "session.invalidate" /\ ~host.pending.on
    /\ host.state = "uninitialized" \/ m.lease \in {0, host.lease}
    /\ vault' = IF host.state = "uninitialized" THEN vault ELSE Empty
    /\ host' = [host EXCEPT !.state = "uninitialized",
                            !.lease = IF host.state = "uninitialized" THEN @ ELSE 0]
    /\ op' = op /\ leases' = leases /\ Says(Told("session.invalidated"))

\* Every step of the host's handlers is one of these outcomes.
Outcome(m) ==
    \/ Refused(m) \/ Enrolled(m) \/ Unlocked(m) \/ Repeated(m) \/ Started(m) \/ Answered(m)
    \/ Dropped(m) \/ Stored(m) \/ Checked(m) \/ (\E success \in BOOLEAN : Lost(m, success))
    \/ Noted(m) \/ Prepared(m) \/ Retained(m) \/ Sealed(m) \/ Injected(m) \/ Invalidated(m)

\* A message that the host handles leaves the queue and has one of the outcomes;
\* the browser and the controller are untouched.
LEMMA HostOutcome ==
    ASSUME TypeOK, HostHandle
    PROVE  /\ host.up /\ toHost # <<>> /\ toHost' = Tail(toHost) /\ Head(toHost) \in Requests
           /\ Outcome(Head(toHost))
           /\ UNCHANGED <<jar, changed, ext, ref, port, seen, loop, timers, attempts, bounds>>
  <1> DEFINE m == Head(toHost)
  <1>1. host.up /\ toHost # <<>> /\ toHost' = Tail(toHost)
        /\ UNCHANGED <<jar, changed, ext, ref, port, seen, loop, timers, attempts, bounds>>
    BY DEF HostHandle
  <1>2. m \in Requests /\ inbox \in Seq(Replies) /\ inbox \o <<>> = inbox
    BY <1>1, TailShrinks, CatNothing DEF TypeOK
  <1>3. ASSUME NEW h, NEW e, Reply(h, <<e>>) PROVE host' = h /\ Says(e)
    BY <1>3 DEF Reply, Says
  <1>4. ASSUME NEW h, Reply(h, <<>>) PROVE host' = h /\ inbox' = inbox
    BY <1>2, <1>4 DEF Reply
  <1> SUFFICES Outcome(m)
    BY <1>1, <1>2
  <1> HIDE DEF m
  <1>5. ASSUME Refuse PROVE Same /\ \E t \in {"lease.deny", "operation.error"} : Says(Told(t))
    BY <1>3, <1>5 DEF Refuse, Same
  <1>6. CASE m.type = "lease.request" /\ HostLease(m)
    <2> DEFINE enroll == m.purpose = "enroll" /\ host.state = "uninitialized" /\ vault = Empty
               inject == m.purpose = "inject" /\ host.state = "sealed" /\ vault # Empty
               id == leases + 1
    <2>1. CASE host.pending.on \/ Unresolved \/ ~(enroll \/ inject)
      <3>1. Reply(host, <<Told("lease.deny")>>) /\ UNCHANGED <<op, vault, leases>>
        BY <1>6, <2>1 DEF HostLease
      <3> QED BY <1>3, <1>6, <3>1 DEF Outcome, Refused, Same
    <2>2. CASE ~(host.pending.on \/ Unresolved \/ ~(enroll \/ inject))
      <3>1. CASE inject /\ Refuse
        BY <1>5, <1>6, <3>1 DEF Outcome, Refused
      <3>2. CASE /\ leases' = id
                 /\ Reply([host EXCEPT !.lease = id, !.state = IF enroll THEN @ ELSE "leased"],
                          IF enroll THEN <<LeaseGrant(id)>> ELSE <<LeaseGrant(id), Inject(id, vault)>>)
                 /\ UNCHANGED <<op, vault>>
        <4>1. CASE enroll
          <5>1. Reply([host EXCEPT !.lease = id, !.state = @], <<LeaseGrant(id)>>)
            BY <3>2, <4>1
          <5>2. [host EXCEPT !.lease = id, !.state = @] = [host EXCEPT !.lease = id]
            BY DEF TypeOK, HostsSet
          <5> QED BY <1>3, <1>6, <2>2, <3>2, <4>1, <5>1, <5>2 DEF Outcome, Enrolled, Free
        <4>2. CASE ~enroll
          <5>1. Reply([host EXCEPT !.lease = id, !.state = "leased"], <<LeaseGrant(id), Inject(id, vault)>>)
            BY <3>2, <4>2
          <5>2. LeaseGrant(id) \in Replies /\ Inject(id, vault) \in Replies
            BY DEF TypeOK, Replies, LeaseGrant, Inject
          <5>3. inbox \o <<LeaseGrant(id), Inject(id, vault)>>
                  = (inbox \o <<LeaseGrant(id)>>) \o <<Inject(id, vault)>>
            BY <1>2, <5>2, CatTwice
          <5> QED BY <1>6, <2>2, <3>2, <4>2, <5>1, <5>3 DEF Outcome, Unlocked, Free, Reply
        <4> QED BY <4>1, <4>2
      <3> QED BY <1>6, <2>2, <3>1, <3>2 DEF HostLease
    <2> QED BY <2>1, <2>2
  <1>7. CASE m.type = "operation.begin" /\ HostBegin(m)
    <2>1. m.kind \in Kinds
      BY <1>2, <1>7 DEF Requests
    <2>2. CASE Refuse
      BY <1>5, <1>7, <2>2 DEF Outcome, Refused
    <2>3. CASE /\ op.attempt = m.attempt
               /\ Reply(host, <<IF op.phase = "NotCommitted" THEN SnapshotRequired(op) ELSE Status(op)>>)
               /\ UNCHANGED <<op, vault, leases>>
      BY <1>3, <1>7, <2>3 DEF Outcome, Repeated, Same
    <2> DEFINE new == [id |-> op.id + 1, attempt |-> m.attempt, kind |-> m.kind, lease |-> m.lease,
                       reason |-> m.reason, phase |-> "NotCommitted", snapshot |-> Empty]
    <2>4. CASE /\ op.attempt # m.attempt /\ Free
               /\ m.kind = "enrollment" <=> host.state = "uninitialized"
               /\ op' = new
               /\ Reply([host EXCEPT !.state = "evicting", !.pending = [NoPending EXCEPT !.on = TRUE]],
                        <<SnapshotRequired(new)>>)
               /\ UNCHANGED <<vault, leases>>
      BY <1>3, <1>7, <2>4 DEF Outcome, Started
    <2> QED BY <1>7, <2>1, <2>2, <2>3, <2>4 DEF HostBegin, Kinds, Free
  <1>8. CASE m.type = "operation.status.query" /\ HostStatus(m)
    BY <1>3, <1>8 DEF Outcome, Answered, HostStatus
  <1>9. CASE m.type = "cookies.snapshot.chunk" /\ HostSnapshot(m)
    <2> DEFINE pending == host.pending
               misfit == \/ pending.confirmed <=> m.purpose = "commit"
                         \/ m.purpose = "commit" /\ m.cookies = Empty /\ op.kind # "enrollment" /\ vault = Empty
    <2>1. m.purpose \in {"commit", "removal_precheck"} /\ m.cookies \in Cookies
      BY <1>2, <1>9 DEF Requests
    <2>2. CASE ~pending.on \/ m.op # op.id \/ pending.chunk \notin {<<>>, <<m.cookies>>}
      BY <1>5, <1>9, <2>2 DEF Outcome, Refused, HostSnapshot, Serving
    <2>3. CASE /\ ~(~pending.on \/ m.op # op.id \/ pending.chunk \notin {<<>>, <<m.cookies>>})
               /\ pending.chunk = <<m.cookies>> \/ misfit
      <3>1. /\ Reply([host EXCEPT !.pending.chunk = <<m.cookies>>],
                      IF pending.chunk = <<>> THEN <<Told("operation.error")>> ELSE <<>>)
            /\ UNCHANGED <<op, vault, leases>>
        BY <1>9, <2>3 DEF HostSnapshot
      <3>2. host' = [host EXCEPT !.pending.chunk = <<m.cookies>>] /\ (inbox' = inbox \/ Says(Told("operation.error")))
        <4>1. CASE pending.chunk = <<>>
          BY <1>3, <3>1, <4>1
        <4>2. CASE pending.chunk # <<>>
          BY <1>4, <3>1, <4>2
        <4> QED BY <4>1, <4>2
      <3> QED BY <1>9, <2>1, <2>3, <3>1, <3>2 DEF Outcome, Noted, Serving
    <2>4. CASE /\ ~(~pending.on \/ m.op # op.id \/ pending.chunk \notin {<<>>, <<m.cookies>>})
               /\ ~(pending.chunk = <<m.cookies>> \/ misfit)
      <3>1. CASE m.purpose = "commit"
        <4>1. HostCommit(m) /\ ~pending.confirmed /\ Serving(m)
          BY <1>9, <2>4, <3>1 DEF HostSnapshot, Serving
        <4>2. CASE m.cookies = Empty /\ op.kind = "enrollment"
          BY <1>3, <1>9, <3>1, <4>1, <4>2 DEF Outcome, Dropped, HostCommit, HostFinish, Ended
        <4>3. CASE ~(m.cookies = Empty /\ op.kind = "enrollment")
          <5>1. m.cookies # Empty \/ vault # Empty
            BY <2>4, <3>1, <4>3
          <5> QED BY <1>3, <1>9, <3>1, <4>1, <4>3, <5>1 DEF Outcome, Stored, HostCommit
        <4> QED BY <4>2, <4>3
      <3>2. CASE m.purpose = "removal_precheck"
        <4>1. HostPrecheck(m) /\ pending.confirmed /\ Serving(m)
          BY <1>9, <2>4, <3>2 DEF HostSnapshot, Serving
        <4>2. CASE m.cookies = op.snapshot
          BY <1>3, <1>9, <3>2, <4>1, <4>2 DEF Outcome, Checked, HostPrecheck
        <4>3. CASE m.cookies # op.snapshot
          BY <1>3, <1>9, <3>2, <4>1, <4>3 DEF Outcome, Lost, HostPrecheck, HostFinish, Ended
        <4> QED BY <4>2, <4>3
      <3> QED BY <2>1, <3>1, <3>2
    <2> QED BY <2>2, <2>3, <2>4
  <1>10. CASE m.type = "evict.remove.prepare" /\ HostPrepare(m)
    <2>1. CASE host.pending.on /\ m.op = op.id /\ host.pending.confirmed
      BY <1>4, <1>10, <2>1 DEF Outcome, Prepared, HostPrepare, Serving
    <2>2. CASE ~(host.pending.on /\ m.op = op.id /\ host.pending.confirmed)
      BY <1>5, <1>10, <2>2 DEF Outcome, Refused, HostPrepare, Serving
    <2> QED BY <2>1, <2>2
  <1>11. CASE m.type = "evict.result" /\ HostResult(m)
    <2> DEFINE enrollment == op.kind = "enrollment"
               retained == /\ enrollment /\ m.success /\ host.pending.counted
                           /\ m.remaining = Count(op.snapshot) /\ m.remaining > 0
               removed == ~enrollment /\ m.success /\ m.remaining = 0
               reported == m.success /\ (enrollment <=> m.remaining > 0)
    <2>1. m.success \in BOOLEAN /\ m.remaining \in Nat
      BY <1>2, <1>11 DEF Requests
    <2>2. CASE ~host.pending.on \/ m.op # op.id \/ ~host.pending.confirmed
      BY <1>5, <1>11, <2>2 DEF Outcome, Refused, HostResult
    <2>3. CASE ~(~host.pending.on \/ m.op # op.id \/ ~host.pending.confirmed)
      <3>1. Serving(m) /\ host.pending.confirmed
        BY <2>3 DEF Serving
      <3>2. CASE retained
        <4>1. HostFinish("Completed", "leased", host.lease, <<Completed(op, reported)>>) /\ reported
          BY <1>11, <2>3, <3>2 DEF HostResult
        <4>2. Completed(op, reported) = Completed(op, TRUE)
          BY <4>1 DEF Completed
        <4> QED BY <1>3, <1>11, <3>1, <3>2, <4>1, <4>2 DEF Outcome, Retained, HostFinish, Ended
      <3>3. CASE ~retained /\ removed
        <4>1. HostFinish("Completed", "sealed", 0, <<Completed(op, reported)>>) /\ reported
          BY <1>11, <2>3, <3>3 DEF HostResult
        <4>2. Completed(op, reported) = Completed(op, TRUE)
          BY <4>1 DEF Completed
        <4> QED BY <1>3, <1>11, <3>1, <3>3, <4>1, <4>2 DEF Outcome, Sealed, HostFinish, Ended
      <3>4. CASE ~retained /\ ~removed
        <4>1. HostFinish("ReconciliationRequired", "degraded", host.lease, <<Completed(op, reported)>>)
          BY <1>11, <2>3, <3>4 DEF HostResult
        <4>2. reported \in BOOLEAN /\ (reported => m.success /\ m.remaining > 0 /\ enrollment)
          BY <2>1, <3>4
        <4>3. Lost(m, reported)
          BY <1>3, <1>11, <3>1, <4>1, <4>2 DEF Lost, HostFinish, Ended
        <4> QED BY <4>2, <4>3 DEF Outcome
      <3> QED BY <3>2, <3>3, <3>4
    <2> QED BY <2>2, <2>3
  <1>12. CASE m.type = "inject.result" /\ HostInject(m)
    <2>1. CASE host.state # "leased" \/ host.lease # m.lease
      BY <1>5, <1>12, <2>1 DEF Outcome, Refused, HostInject
    <2>2. CASE ~(host.state # "leased" \/ host.lease # m.lease)
      BY <1>4, <1>12, <2>2 DEF Outcome, Injected, HostInject
    <2> QED BY <2>1, <2>2
  <1>13. CASE m.type = "session.invalidate" /\ HostInvalidate(m)
    <2>1. CASE host.pending.on \/ (host.state # "uninitialized" /\ m.lease \notin {0, host.lease})
      BY <1>5, <1>13, <2>1 DEF Outcome, Refused, HostInvalidate
    <2>2. CASE ~(host.pending.on \/ (host.state # "uninitialized" /\ m.lease \notin {0, host.lease}))
      BY <1>3, <1>13, <2>2 DEF Outcome, Invalidated, HostInvalidate
    <2> QED BY <2>1, <2>2
  <1> QED BY <1>6, <1>7, <1>8, <1>9, <1>10, <1>11, <1>12, <1>13 DEF HostHandle, m

-----------------------------------------------------------------------------
(* What the controller leaves behind: the outcomes of its requests.        *)

Idle(e) == ~e.inval /\ e.asked = "none" /\ ~e.evicting
Evicting(e) == [e EXCEPT !.evicting = TRUE, !.state = "evicting"]

\* A request of the group e with the reference r does nothing, asks the host to
\* invalidate the session, asks for a lease, asks for the operation or begins one.
Rests(t, e, r) == t.ext = e /\ t.ref = r /\ t.out = <<>>
Invalidates(t, e, r) ==
    /\ Idle(e) /\ e.state = "leased"
    /\ t.ext = [e EXCEPT !.inval = TRUE] /\ t.ref = r /\ t.out = <<SessionInvalidate(e.lease)>>
Unlocks(t, e, r, purpose) ==
    /\ Idle(e) /\ e.state = (IF purpose = "enroll" THEN "uninitialized" ELSE "sealed")
    /\ t.ext = [e EXCEPT !.asked = purpose, !.state = "unlocking", !.chained = @ \/ purpose = "enroll"]
    /\ t.ref = r /\ t.out = <<LeaseRequest(purpose)>>
Queries(t, e, r) ==
    /\ Idle(e) /\ Bound(r) /\ t.ext = Evicting(e) /\ t.ref = r /\ t.out = <<StatusQuery(r)>>
Begins(t, e, r, kind, reason) ==
    /\ Idle(e) /\ ~Bound(r) /\ t.ext = Evicting(e)
    /\ t.ref = Begun(e, r, kind) /\ t.out = <<OperationBegin(t.ref, reason)>>
Requested(t, e, r) ==
    \/ Rests(t, e, r) \/ Invalidates(t, e, r)
    \/ (\E purpose \in {"enroll", "inject"} : Unlocks(t, e, r, purpose))
    \/ Queries(t, e, r)
    \/ (\E kind \in {"eviction", "reconciliation"}, reason \in Reasons : Begins(t, e, r, kind, reason))

\* requestEviction has one of these outcomes; it leaves no group leased that it
\* found idle and leased unless the session is to be invalidated.
LEMMA EvictionRequested ==
    ASSUME NEW e \in Groups, NEW r \in References, NEW reason \in {"idle", "startup", "degraded"},
           NEW t, t = RequestEviction(e, r, reason)
    PROVE  /\ Requested(t, e, r)
           /\ Idle(e) /\ e.state = "leased" => ~Rests(t, e, r)
           /\ t.timer \subseteq {[attempt |-> t.ref.attempt, reason |-> reason, retry |-> 0]}
           /\ t.timer # {} => t.ref = Begun(e, r, IF reason = "idle" THEN "eviction" ELSE "reconciliation")
           /\ Invalidates(t, e, r) => reason = "idle" /\ jar = Empty
  <1> DEFINE valid == \/ e.state = "leased"
                      \/ e.state = "degraded" /\ reason = "degraded"
                      \/ e.state # "uninitialized" /\ reason = "startup"
             busy == e.inval \/ e.asked # "none" \/ e.evicting
             gone == reason = "idle" /\ jar = Empty
             kind == IF reason = "idle" THEN "eviction" ELSE "reconciliation"
  <1>1. busy <=> ~Idle(e)
    BY DEF Idle
  <1>2. CASE ~busy /\ gone /\ e.state = "leased"
    <2>1. t = [Quiet([e EXCEPT !.inval = TRUE], r) EXCEPT !.out = <<SessionInvalidate(e.lease)>>]
      BY <1>2 DEF RequestEviction
    <2>2. /\ t.ext = [e EXCEPT !.inval = TRUE] /\ t.ref = r /\ t.out = <<SessionInvalidate(e.lease)>>
          /\ t.timer = {}
      BY <2>1 DEF Quiet
    <2>3. t.out # <<>>
      BY <2>2
    <2> QED BY <1>1, <1>2, <2>2, <2>3 DEF Requested, Invalidates, Rests
  <1>3. CASE ~busy /\ ~gone /\ reason = "idle" /\ e.state = "uninitialized"
    <2>1. t = RequestLease([e EXCEPT !.chained = TRUE], r, "enroll")
      BY <1>3 DEF RequestEviction
    <2>2. t = [Quiet([[e EXCEPT !.chained = TRUE] EXCEPT !.asked = "enroll", !.state = "unlocking"], r)
                 EXCEPT !.out = <<LeaseRequest("enroll")>>]
      BY <1>3, <2>1 DEF RequestLease, Groups
    <2>3. /\ t.ext = [[e EXCEPT !.chained = TRUE] EXCEPT !.asked = "enroll", !.state = "unlocking"]
          /\ t.ref = r /\ t.out = <<LeaseRequest("enroll")>> /\ t.timer = {}
      BY <2>2 DEF Quiet
    <2>4. t.ext = [e EXCEPT !.asked = "enroll", !.state = "unlocking", !.chained = @ \/ "enroll" = "enroll"]
      BY <2>3 DEF Groups
    <2>5. Unlocks(t, e, r, "enroll")
      BY <1>1, <1>3, <2>3, <2>4 DEF Unlocks
    <2> QED BY <1>3, <2>3, <2>5 DEF Requested, Invalidates, Rests
  <1>4. CASE ~busy /\ ~gone /\ valid /\ ~(reason = "idle" /\ e.state = "uninitialized")
    <2>1. t = IF Bound(r)
              THEN [Quiet(Evicting(e), r) EXCEPT !.out = <<StatusQuery(r)>>]
              ELSE Begin(Evicting(e), r, kind, reason)
      BY <1>4 DEF RequestEviction, Evicting
    <2>2. CASE Bound(r)
      <3>1. t.ext = Evicting(e) /\ t.ref = r /\ t.out = <<StatusQuery(r)>> /\ t.timer = {}
        BY <2>1, <2>2 DEF Quiet
      <3>2. t.out # <<>>
        BY <3>1
      <3>3. Evicting(e).state = "evicting" /\ [e EXCEPT !.inval = TRUE].state = e.state
        BY DEF Evicting, Groups
      <3> QED BY <1>1, <1>4, <2>2, <3>1, <3>2, <3>3 DEF Requested, Queries, Rests, Invalidates
    <2>3. CASE ~Bound(r)
      <3>1. /\ t.ext = Evicting(e) /\ t.ref = Begun(Evicting(e), r, kind)
            /\ t.out = <<OperationBegin(t.ref, reason)>>
            /\ t.timer = {[attempt |-> t.ref.attempt, reason |-> reason, retry |-> 0]}
        BY <2>1, <2>3 DEF Begin
      <3>2. Evicting(e).lease = e.lease
        BY DEF Evicting, Groups
      <3>3. Begun(Evicting(e), r, kind) = Begun(e, r, kind)
        BY <3>2 DEF Begun
      <3>4. t.out # <<>> /\ kind \in {"eviction", "reconciliation"} /\ reason \in Reasons
        BY <3>1 DEF Reasons
      <3>5. Begins(t, e, r, kind, reason)
        BY <1>1, <1>4, <2>3, <3>1, <3>3 DEF Begins
      <3>6. Evicting(e).state = "evicting" /\ [e EXCEPT !.inval = TRUE].state = e.state
        BY DEF Evicting, Groups
      <3> QED BY <1>1, <1>4, <3>1, <3>3, <3>4, <3>5, <3>6 DEF Requested, Rests, Invalidates
    <2> QED BY <2>2, <2>3
  <1>5. CASE /\ ~(~busy /\ gone /\ e.state = "leased")
             /\ ~(~busy /\ ~gone /\ reason = "idle" /\ e.state = "uninitialized")
             /\ ~(~busy /\ ~gone /\ valid)
    <2>1. t = Quiet(e, r)
      BY <1>5 DEF RequestEviction
    <2>2. t.ext = e /\ t.ref = r /\ t.out = <<>> /\ t.timer = {}
      BY <2>1 DEF Quiet
    <2> QED BY <1>1, <1>5, <2>2 DEF Requested, Rests, Invalidates
  <1> QED BY <1>2, <1>3, <1>4, <1>5

\* So has requestLease of an unlock.
LEMMA LeaseRequested ==
    ASSUME NEW e \in Groups, NEW r \in References, NEW t, t = RequestLease(e, r, "inject")
    PROVE  Requested(t, e, r) /\ t.timer = {}
  <1>1. CASE \/ e.inval \/ e.asked # "none" \/ e.evicting \/ e.state # "sealed"
    BY <1>1 DEF Requested, Rests, RequestLease, Quiet
  <1>2. CASE ~(\/ e.inval \/ e.asked # "none" \/ e.evicting \/ e.state # "sealed")
    <2>1. t = [Quiet([e EXCEPT !.asked = "inject", !.state = "unlocking"], r)
                 EXCEPT !.out = <<LeaseRequest("inject")>>]
      BY <1>2 DEF RequestLease
    <2>2. /\ t.ext = [e EXCEPT !.asked = "inject", !.state = "unlocking"] /\ t.ref = r
          /\ t.out = <<LeaseRequest("inject")>> /\ t.timer = {}
      BY <2>1 DEF Quiet
    <2>3. t.ext = [e EXCEPT !.asked = "inject", !.state = "unlocking", !.chained = @ \/ "inject" = "enroll"]
      BY <2>2 DEF Groups
    <2>4. Unlocks(t, e, r, "inject")
      BY <1>2, <2>2, <2>3 DEF Unlocks, Idle
    <2> QED BY <2>2, <2>4 DEF Requested
  <1> QED BY <1>1, <1>2

-----------------------------------------------------------------------------
(* What a message does to the controller: the outcomes of its handlers.    *)

Sends(out) == toHost' = IF port = "ready" THEN toHost \o out ELSE toHost
Leaves(e, r, out) ==
    /\ ext' = e /\ ref' = r /\ Sends(out)
    /\ attempts' = IF r.attempt > attempts THEN r.attempt ELSE attempts
Still == loop' = loop /\ seen' = seen

Granted(m) ==
    /\ m.type = "lease.grant" /\ Still
    /\ Leaves([ext EXCEPT !.lease = m.lease, !.asked = "none"], ref, <<>>)
Enrolling(m, r) ==
    /\ m.type = "lease.grant" /\ Still /\ ext.asked = "enroll" /\ ~Bound(ref)
    /\ r = Begun([ext EXCEPT !.lease = m.lease], ref, "enrollment")
    /\ Leaves([ext EXCEPT !.lease = m.lease, !.asked = "none", !.evicting = TRUE, !.state = "evicting"],
              r, <<OperationBegin(r, "enroll")>>)
Restored(m, success) ==
    /\ m.type = "cookies.inject" /\ Still
    /\ Leaves([ext EXCEPT !.state = IF success THEN "leased" ELSE "degraded", !.lease = m.lease], ref,
              <<InjectResult(m.lease, success)>>)
Denied(m, state, recon) ==
    /\ m.type \in {"lease.deny", "operation.error"} /\ Still
    /\ \/ state \in {ext.state, "degraded"}
       \/ state = "sealed" /\ ext.asked = "inject"
       \/ state = "uninitialized" /\ ext.asked = "enroll" /\ ~ext.evicting
    /\ ext.evicting /\ ext.asked # "inject" /\ ext.state = "evicting" => state = "degraded"
    /\ Leaves([ext EXCEPT !.asked = "none", !.evicting = FALSE, !.state = state, !.recon = recon],
              ref, <<>>)
Required(m, r) ==
    /\ m.type = "operation.snapshot_required" /\ Still
    /\ ref.phase # "none" /\ ref.attempt = m.attempt
    /\ r = [ref EXCEPT !.op = m.op, !.phase = "snapshot_required"]
    /\ Leaves(IF port = "ready" THEN Evicting(ext) ELSE ext, r, <<SnapshotChunk(r, "commit", jar)>>)
Retaining(m, count) ==
    /\ m.type = "evict.confirmed" /\ BoundMessage(m) /\ m.retain /\ Still
    /\ Leaves(ext, [ref EXCEPT !.phase = "committed"], <<EvictResult(ref, count > 0, count)>>)
Preparing(m, r) ==
    /\ \/ m.type = "evict.confirmed" /\ ~m.retain
       \/ m.type = "operation.status" /\ m.action = "prepare_removal"
    /\ BoundMessage(m) /\ loop' = loop /\ seen' = <<jar>>
    /\ r = [ref EXCEPT !.phase = "removal_precheck"]
    /\ Leaves(ext, r, <<RemovePrepare(r), SnapshotChunk(r, "removal_precheck", jar)>>)
Resending(m) ==
    /\ m.type = "operation.status" /\ m.action = "send_snapshot" /\ BoundMessage(m) /\ Still
    /\ Leaves(ext, ref, <<SnapshotChunk(ref, "commit", jar)>>)
Forgetting(m) ==
    /\ m.type = "operation.status" /\ m.action = "completed" /\ BoundMessage(m) /\ Still
    /\ Leaves(ext, NoRef, <<>>)
GivingUp(m) ==
    /\ m.type = "operation.status" /\ BoundMessage(m) /\ Still
    /\ Leaves([ext EXCEPT !.state = "degraded", !.recon = TRUE],
              [ref EXCEPT !.phase = "reconciliation_required"], <<>>)
Finishing(m, t) ==
    /\ m.type = "operation.completed" /\ BoundMessage(m) /\ Still /\ Leaves(t.ext, t.ref, t.out)
    /\ IF m.success
       THEN /\ Requested(t, Succeeded(ext, ref.kind), NoRef)
            /\ ~(ref.kind = "enrollment" /\ ext.chained) => Rests(t, Succeeded(ext, ref.kind), NoRef)
            /\ ref.kind = "enrollment" /\ ext.chained /\ Idle(Succeeded(ext, ref.kind))
                  => ~Rests(t, Succeeded(ext, ref.kind), NoRef)
       ELSE Requested(t, Failed(ext), [ref EXCEPT !.phase = "reconciliation_required"])
Resetting(m) ==
    m.type = "session.invalidated" /\ Still /\ Leaves(InitialGroup, NoRef, <<>>)
Removing(m) ==
    /\ m.type = "evict.remove.authorized" /\ BoundMessage(m) /\ seen # <<>> /\ seen' = seen
    /\ loop' = [NoLoop EXCEPT !.at = "look", !.plan = seen[1], !.left = Names]
    /\ Leaves(ext, [ref EXCEPT !.phase = "removal_authorized"], <<>>)
Ignoring(m) ==
    /\ m.type \in {"evict.confirmed", "operation.status", "operation.completed",
                   "evict.remove.authorized"}
    /\ ~BoundMessage(m) \/ (m.type = "evict.remove.authorized" /\ seen = <<>>)
    /\ Still /\ Leaves(ext, ref, <<>>)
Parting(m) ==
    /\ m.type = "disconnect" /\ Still
    /\ \/ Leaves(ext, ref, <<>>)
       \/ Leaves([ext EXCEPT !.state = "degraded", !.recon = TRUE], ref, <<>>)

\* handleHandshakeAck: the host's state, a query for an issued operation, and the
\* outcome of one request.
Adopted(m) ==
    [ext EXCEPT !.state = m.state, !.lease = m.lease, !.asked = "none", !.evicting = FALSE,
                !.recon = m.state \in {"unlocking", "evicting", "degraded"},
                !.inval = @ /\ m.state # "uninitialized"]
Greeted(m, t) ==
    /\ m.type = "handshake.ack" /\ Still /\ port' = IF port = "open" THEN "ready" ELSE port
    /\ Requested(t, Adopted(m), ref) /\ ~Invalidates(t, Adopted(m), ref)
    /\ ext' = t.ext /\ ref' = t.ref
    /\ attempts' = IF t.ref.attempt > attempts THEN t.ref.attempt ELSE attempts
    /\ toHost' = IF port = "none" THEN toHost
                 ELSE toHost \o ((IF Bound(ref) THEN <<StatusQuery(ref)>> ELSE <<>>) \o t.out)
Closed(m) ==
    /\ m.type = "operation.snapshot_required" /\ port' = "none" /\ Still
    /\ inbox' = Append(Tail(inbox), Told("disconnect")) /\ Leaves(ext, ref, <<>>)

\* Every message that the controller handles has one of these outcomes.
Handling(m) ==
    \/ Granted(m) \/ (\E r \in References : Enrolling(m, r))
    \/ (\E success \in BOOLEAN : Restored(m, success))
    \/ (\E state \in HostStates \cup {"unlocking"}, recon \in BOOLEAN : Denied(m, state, recon))
    \/ (\E r \in References : Required(m, r))
    \/ (\E count \in Nat : Retaining(m, count)) \/ (\E r \in References : Preparing(m, r))
    \/ Resending(m) \/ Forgetting(m) \/ GivingUp(m) \/ (\E t : Finishing(m, t))
    \/ Resetting(m) \/ Removing(m) \/ Ignoring(m) \/ Parting(m)
Handled(m) == Closed(m) \/ (inbox' = Tail(inbox) /\ ((port' = port /\ Handling(m)) \/ \E t : Greeted(m, t)))

\* The number of the cookies.
LEMMA CountType == jar \in Cookies => Count(jar) \in Nat
  <1>1. IsFiniteSet({n \in Names : jar[n] # 0})
    BY ControllerAssumption, FS_Subset
  <1> QED BY <1>1, FS_CardinalityType DEF Count

\* A reference that is begun is one of the type, and its attempt is the old one
\* or a new one.
LEMMA BegunType ==
    ASSUME TypeOK, NEW e \in Groups, NEW r \in References, NEW kind \in Kinds
    PROVE  /\ Begun(e, r, kind) \in References
           /\ Begun(e, r, kind) = r \/ Begun(e, r, kind).attempt = attempts + 1
           /\ Begun(e, r, kind).kind = kind /\ Begun(e, r, kind).phase \notin TerminalPhase
           /\ ~Bound(r) => Begun(e, r, kind).op = 0
  <1>1. attempts + 1 \in Nat /\ attempts + 1 # 0 /\ e.lease \in Nat
    BY DEF TypeOK, Groups
  <1>2. CASE r.phase \notin TerminalPhase /\ r.lease = e.lease /\ r.kind = kind
    BY <1>2 DEF Begun, Bound
  <1>3. CASE ~(r.phase \notin TerminalPhase /\ r.lease = e.lease /\ r.kind = kind)
    <2> DEFINE n == attempts + 1
    <2>1. Begun(e, r, kind) = [op |-> 0, attempt |-> n, kind |-> kind, lease |-> e.lease,
                               phase |-> "begin_pending"]
      BY <1>3 DEF Begun, NoRef
    <2> HIDE DEF n
    <2>2. n \in Nat /\ n # 0 /\ kind # "none"
      BY <1>1 DEF n, Kinds
    <2> QED BY <1>1, <2>1, <2>2 DEF References, TerminalPhase, n
  <1> QED BY <1>2, <1>3

\* So is one whose phase is stored, or the identity that the host gave it.
LEMMA PhaseType ==
    ASSUME NEW r \in References,
           NEW phase \in {"snapshot_required", "committed", "removal_precheck", "removal_authorized",
                          "reconciliation_required"}
    PROVE  /\ r.op # 0 => [r EXCEPT !.phase = phase] \in References
           /\ \A id \in Nat : r.phase # "none" => [r EXCEPT !.op = id, !.phase = phase] \in References
  BY DEF References

\* A reply that the controller takes is handled; the host is untouched.
LEMMA ReceiveHandled ==
    ASSUME TypeOK, Receive
    PROVE  /\ loop.at = "idle" /\ inbox # <<>> /\ Head(inbox) \in Replies /\ Handled(Head(inbox))
           /\ UNCHANGED <<host, op, vault, leases, values, users, drops>>
  <1> DEFINE m == Head(inbox)
  <1>1. /\ loop.at = "idle" /\ inbox # <<>>
        /\ UNCHANGED <<host, op, vault, leases, values, users, drops>>
    BY DEF Receive, hosts, bounds
  <1>2. m \in Replies
    BY <1>1, TailShrinks DEF TypeOK
  <1> SUFFICES Handled(m)
    BY <1>1, <1>2
  <1>3. ASSUME NEW t, Do(t) PROVE Leaves(t.ext, t.ref, t.out)
    BY <1>3 DEF Do, DoIf, Leaves, Sends
  <1>4. ASSUME NEW e, NEW r PROVE /\ Quiet(e, r).ext = e /\ Quiet(e, r).ref = r /\ Quiet(e, r).out = <<>>
                                 /\ Quiet(e, r).timer = {}
    BY DEF Quiet
  <1>5. ASSUME NEW e, NEW r, NEW out
        PROVE  /\ Sending(e, r, out).ext = e /\ Sending(e, r, out).ref = r
               /\ Sending(e, r, out).out = out
    BY DEF Quiet, Sending
  <1>6. ASSUME NEW e, NEW r, Do(Quiet(e, r)) PROVE Leaves(e, r, <<>>)
    BY <1>3, <1>4, <1>6
  <1>7. ASSUME NEW e, NEW r, NEW out, Do(Sending(e, r, out)) PROVE Leaves(e, r, out)
    BY <1>3, <1>5, <1>7
  <1>8. ASSUME NoChange PROVE Still /\ port' = port
    BY <1>8 DEF NoChange, Still
  <1> HIDE DEF m
  <1>9. ext \in Groups /\ ref \in References /\ NoRef \in References
    BY DEF TypeOK, NoRef, References
  <1>10. CASE m.type = "lease.grant" /\ HandleGrant(m)
    <2> DEFINE e == [ext EXCEPT !.lease = m.lease, !.asked = "none"]
               f == [e EXCEPT !.evicting = TRUE, !.state = "evicting"]
    <2>1. inbox' = Tail(inbox) /\ Still /\ port' = port
      BY <1>8, <1>10 DEF HandleGrant, Received
    <2>2. CASE ext.asked = "enroll" /\ ~Bound(ref)
      <3>1. Do(Begin(f, ref, "enrollment", "enroll"))
        BY <1>10, <2>2 DEF HandleGrant
      <3> DEFINE r == Begun(f, ref, "enrollment")
      <3>2. Leaves(f, r, <<OperationBegin(r, "enroll")>>)
        BY <1>3, <3>1 DEF Begin
      <3>3. f.lease = [ext EXCEPT !.lease = m.lease].lease
        BY <1>9 DEF Groups
      <3>4. r = Begun([ext EXCEPT !.lease = m.lease], ref, "enrollment")
        BY <3>3 DEF Begun
      <3>5. r \in References
        <4>1. m.lease \in Nat
          BY <1>2, <1>10 DEF Replies
        <4>2. f \in Groups
          BY <1>9, <4>1 DEF Groups, HostStates
        <4> QED BY <1>9, <4>2, BegunType DEF Kinds
      <3>6. f = [ext EXCEPT !.lease = m.lease, !.asked = "none", !.evicting = TRUE, !.state = "evicting"]
        BY <1>9 DEF Groups
      <3> HIDE DEF r, f
      <3>7. Enrolling(m, r)
        BY <1>10, <2>1, <2>2, <3>2, <3>4, <3>6 DEF Enrolling
      <3> QED BY <2>1, <3>5, <3>7 DEF Handled, Handling
    <2>3. CASE ~(ext.asked = "enroll" /\ ~Bound(ref))
      <3>1. Do(Quiet(e, ref))
        BY <1>10, <2>3 DEF HandleGrant
      <3> QED BY <1>6, <1>10, <2>1, <3>1 DEF Handled, Handling, Granted
    <2> QED BY <2>2, <2>3
  <1>11. CASE m.type = "cookies.inject" /\ HandleInject(m)
    <2>1. inbox' = Tail(inbox) /\ Still /\ port' = port
      BY <1>11 DEF HandleInject, Received, Still
    <2>2. \/ Do(Sending([ext EXCEPT !.state = "leased", !.lease = m.lease], ref, <<InjectResult(m.lease, TRUE)>>))
          \/ Do([Sending([ext EXCEPT !.state = "degraded", !.lease = m.lease], ref, <<InjectResult(m.lease, FALSE)>>)
                    EXCEPT !.timer = {[attempt |-> 0, reason |-> "startup", retry |-> 0]}])
      BY <1>11 DEF HandleInject
    <2>3. \/ Leaves([ext EXCEPT !.state = "leased", !.lease = m.lease], ref, <<InjectResult(m.lease, TRUE)>>)
          \/ Leaves([ext EXCEPT !.state = "degraded", !.lease = m.lease], ref, <<InjectResult(m.lease, FALSE)>>)
      <3> DEFINE x == Sending([ext EXCEPT !.state = "degraded", !.lease = m.lease], ref,
                              <<InjectResult(m.lease, FALSE)>>)
                 y == [x EXCEPT !.timer = {[attempt |-> 0, reason |-> "startup", retry |-> 0]}]
      <3>1. y.ext = x.ext /\ y.ref = x.ref /\ y.out = x.out
        BY DEF Sending, Quiet
      <3>2. Do(y) => Leaves(x.ext, x.ref, x.out)
        BY <1>3, <3>1
      <3> QED BY <1>5, <1>7, <2>2, <3>2
    <2>4. Restored(m, TRUE) \/ Restored(m, FALSE)
      BY <1>11, <2>1, <2>3 DEF Restored
    <2> QED BY <2>1, <2>4 DEF Handled, Handling
  <1>12. CASE m.type \in {"lease.deny", "operation.error"} /\ HandleRefusal(m)
    <2> DEFINE error == m.type = "operation.error"
               state == IF error THEN AfterHostError(ext) ELSE AfterDeny(ext)
               recon == IF error THEN state = "degraded" ELSE ext.recon
    <2>1. inbox' = Tail(inbox) /\ Still /\ port' = port
      BY <1>8, <1>12 DEF HandleRefusal, Received
    <2>2. Do(Quiet([ext EXCEPT !.asked = "none", !.evicting = FALSE, !.state = state,
                               !.recon = IF error THEN state = "degraded" ELSE @], ref))
      BY <1>12 DEF HandleRefusal
    <2>3. Leaves([ext EXCEPT !.asked = "none", !.evicting = FALSE, !.state = state, !.recon = recon], ref, <<>>)
      BY <1>6, <2>2
    <2>4. ext.asked \in {"none", "enroll", "inject"} /\ ext.state \in HostStates \cup {"unlocking"}
          /\ ext.recon \in BOOLEAN /\ ext.evicting \in BOOLEAN
      BY <1>9 DEF Groups
    <2>5. /\ \/ state \in {ext.state, "degraded"}
             \/ state = "sealed" /\ ext.asked = "inject"
             \/ state = "uninitialized" /\ ext.asked = "enroll" /\ ~ext.evicting
          /\ ext.evicting /\ ext.asked # "inject" /\ ext.state = "evicting" => state = "degraded"
      <3>1. CASE error
        BY <2>4, <3>1 DEF AfterHostError
      <3>2. CASE ~error
        BY <2>4, <3>2 DEF AfterDeny
      <3> QED BY <3>1, <3>2
    <2>6. state \in HostStates \cup {"unlocking"} /\ recon \in BOOLEAN
      BY <2>4, <2>5 DEF HostStates
    <2> HIDE DEF state, recon
    <2>7. Denied(m, state, recon)
      BY <1>12, <2>1, <2>3, <2>5 DEF Denied
    <2> QED BY <2>1, <2>6, <2>7 DEF Handled, Handling
  <1>13. CASE m.type = "operation.snapshot_required" /\ HandleSnapshotRequired(m)
    <2> DEFINE r == [ref EXCEPT !.op = m.op, !.phase = "snapshot_required"]
               e == IF port = "ready" THEN [ext EXCEPT !.state = "evicting", !.evicting = TRUE] ELSE ext
    <2>1. Still
      BY <1>13 DEF HandleSnapshotRequired, Still
    <2>2. CASE ref.phase # "none" /\ ref.attempt = m.attempt
      <3>1. Do(Sending(e, r, <<SnapshotChunk(r, "commit", jar)>>)) /\ inbox' = Tail(inbox) /\ port' = port
        BY <1>13, <2>2 DEF HandleSnapshotRequired, Received
      <3>2. Leaves(e, r, <<SnapshotChunk(r, "commit", jar)>>)
        BY <1>7, <3>1
      <3>3. e = IF port = "ready" THEN Evicting(ext) ELSE ext
        BY <1>9 DEF Evicting, Groups
      <3>4. r \in References
        <4>1. m.op \in Nat
          BY <1>2, <1>13 DEF Replies
        <4> QED BY <1>9, <2>2, <4>1, PhaseType
      <3>5. Required(m, r)
        BY <1>13, <2>1, <2>2, <3>2, <3>3 DEF Required
      <3> QED BY <3>1, <3>4, <3>5 DEF Handled, Handling
    <2>3. CASE ~(ref.phase # "none" /\ ref.attempt = m.attempt)
      <3>1. Throw /\ Close
        BY <1>13, <2>3 DEF HandleSnapshotRequired
      <3> QED BY <1>6, <1>13, <2>1, <3>1 DEF Handled, Closed, Throw, Close
    <2> QED BY <2>2, <2>3
  <1>14. ASSUME BoundMessage(m), Prepare,
                \/ m.type = "evict.confirmed" /\ ~m.retain
                \/ m.type = "operation.status" /\ m.action = "prepare_removal"
         PROVE  Handled(m)
    <2> DEFINE r == [ref EXCEPT !.phase = "removal_precheck"]
    <2>1. /\ inbox' = Tail(inbox) /\ seen' = <<jar>> /\ loop' = loop /\ port' = port
          /\ Do(Sending(ext, r, <<RemovePrepare(r), SnapshotChunk(r, "removal_precheck", jar)>>))
      BY <1>14 DEF Prepare, Received
    <2>2. r \in References
      BY <1>9, <1>14, PhaseType DEF BoundMessage
    <2> HIDE DEF r
    <2>3. Leaves(ext, r, <<RemovePrepare(r), SnapshotChunk(r, "removal_precheck", jar)>>)
      BY <1>7, <2>1
    <2>4. Preparing(m, r)
      BY <1>14, <2>1, <2>3 DEF Preparing, r
    <2> QED BY <2>1, <2>2, <2>4 DEF Handled, Handling
  <1>15. CASE m.type = "evict.confirmed" /\ BoundMessage(m) /\ HandleConfirmed(m)
    <2>1. CASE m.retain
      <3>1. /\ inbox' = Tail(inbox) /\ Still /\ port' = port
            /\ Do(Sending(ext, [ref EXCEPT !.phase = "committed"],
                          <<EvictResult(ref, Count(jar) > 0, Count(jar))>>))
        BY <1>8, <1>15, <2>1 DEF HandleConfirmed, Received
      <3>2. Leaves(ext, [ref EXCEPT !.phase = "committed"], <<EvictResult(ref, Count(jar) > 0, Count(jar))>>)
        BY <1>7, <3>1
      <3>3. Count(jar) \in Nat
        BY CountType DEF TypeOK
      <3>4. Retaining(m, Count(jar))
        BY <1>15, <2>1, <3>1, <3>2 DEF Retaining
      <3> QED BY <3>1, <3>3, <3>4 DEF Handled, Handling
    <2>2. CASE ~m.retain
      BY <1>14, <1>15, <2>2 DEF HandleConfirmed
    <2> QED BY <2>1, <2>2
  <1>16. CASE m.type = "operation.status" /\ BoundMessage(m) /\ HandleStatus(m)
    <2>1. CASE m.action = "send_snapshot"
      <3>1. /\ inbox' = Tail(inbox) /\ Still /\ port' = port
            /\ Do(Sending(ext, ref, <<SnapshotChunk(ref, "commit", jar)>>))
        BY <1>8, <1>16, <2>1 DEF HandleStatus, Received
      <3> QED BY <1>7, <1>16, <2>1, <3>1 DEF Handled, Handling, Resending
    <2>2. CASE m.action = "prepare_removal"
      BY <1>14, <1>16, <2>2 DEF HandleStatus
    <2>3. CASE m.action = "completed"
      <3>1. /\ inbox' = Tail(inbox) /\ Still /\ port' = port /\ Do(Quiet(ext, NoRef))
        BY <1>8, <1>16, <2>3 DEF HandleStatus, Received
      <3> QED BY <1>6, <1>16, <2>3, <3>1 DEF Handled, Handling, Forgetting
    <2>4. CASE m.action \notin {"send_snapshot", "prepare_removal", "completed"}
      <3>1. /\ inbox' = Tail(inbox) /\ Still /\ port' = port
            /\ Do(Quiet([ext EXCEPT !.state = "degraded", !.recon = TRUE],
                        [ref EXCEPT !.phase = "reconciliation_required"]))
        BY <1>8, <1>16, <2>4 DEF HandleStatus, Received
      <3> QED BY <1>6, <1>16, <2>4, <3>1 DEF Handled, Handling, GivingUp
    <2> QED BY <2>1, <2>2, <2>3, <2>4
  <1>17. CASE m.type = "operation.completed" /\ BoundMessage(m) /\ HandleCompleted(m)
    <2> DEFINE done == Succeeded(ext, ref.kind)
               failed == Failed(ext)
               chained == m.success /\ ref.kind = "enrollment" /\ ext.chained
               over == [ref EXCEPT !.phase = "reconciliation_required"]
               T == CASE chained -> RequestEviction(done, NoRef, "idle")
                      [] m.success /\ ~chained -> Quiet(done, NoRef)
                      [] ~m.success /\ failed.tries <= 2 -> RequestEviction(failed, over, "degraded")
                      [] OTHER -> Quiet(failed, over)
    <2>1. /\ inbox' = Tail(inbox) /\ Still /\ port' = port /\ Do(T)
      BY <1>8, <1>17 DEF HandleCompleted, Received
    <2>2. done \in Groups /\ failed \in Groups /\ over \in References /\ m.success \in BOOLEAN
      <3>1. m.success \in BOOLEAN
        BY <1>2, <1>17 DEF Replies
      <3>2. done \in Groups
        BY <1>9 DEF Succeeded, Groups, HostStates
      <3>3. failed \in Groups
        <4>1. ext.tries + 1 \in Nat
          BY <1>9 DEF Groups
        <4> QED BY <1>9, <4>1 DEF Failed, Groups, HostStates
      <3>4. over \in References
        BY <1>9, <1>17, PhaseType DEF BoundMessage
      <3> QED BY <3>1, <3>2, <3>3, <3>4
    <2> HIDE DEF done, failed, over
    <2>3. CASE chained
      <3> DEFINE t == RequestEviction(done, NoRef, "idle")
      <3>1. Do(t) /\ m.success
        BY <2>1, <2>3
      <3>2. Requested(t, done, NoRef) /\ (Idle(done) /\ done.state = "leased" => ~Rests(t, done, NoRef))
        BY <1>9, <2>2, EvictionRequested
      <3>3. done.state = "leased"
        BY <1>9, <2>3 DEF done, Succeeded, Groups
      <3> HIDE DEF t
      <3>4. Finishing(m, t)
        BY <1>3, <1>17, <2>1, <2>3, <3>1, <3>2, <3>3 DEF Finishing, done
      <3> QED BY <2>1, <3>4 DEF Handled, Handling
    <2>4. CASE m.success /\ ~chained
      <3> DEFINE t == Quiet(done, NoRef)
      <3>1. Do(t)
        BY <2>1, <2>4
      <3>2. Rests(t, done, NoRef)
        BY <1>4 DEF Rests
      <3> HIDE DEF t
      <3>4. Finishing(m, t)
        BY <1>3, <1>17, <2>1, <2>4, <3>1, <3>2 DEF Finishing, done, Requested
      <3> QED BY <2>1, <3>4 DEF Handled, Handling
    <2>5. CASE ~m.success
      <3>1. PICK t : Do(t) /\ Requested(t, failed, over)
        <4>1. CASE failed.tries <= 2
          <5>1. Requested(RequestEviction(failed, over, "degraded"), failed, over)
            BY <2>2, EvictionRequested
          <5>2. Do(RequestEviction(failed, over, "degraded"))
            BY <2>1, <2>5, <4>1
          <5> QED BY <5>1, <5>2
        <4>2. CASE ~(failed.tries <= 2)
          <5>1. Do(Quiet(failed, over))
            BY <2>1, <2>5, <4>2
          <5> QED BY <1>4, <5>1 DEF Requested, Rests
        <4> QED BY <4>1, <4>2
      <3>2. Finishing(m, t)
        BY <1>3, <1>17, <2>1, <2>5, <3>1 DEF Finishing, failed, over
      <3> QED BY <2>1, <3>2 DEF Handled, Handling
    <2> QED BY <2>2, <2>3, <2>4, <2>5
  <1>18. CASE m.type = "session.invalidated" /\ HandleInvalidated
    BY <1>6, <1>18 DEF HandleInvalidated, Received, Handled, Handling, Resetting, Still
  <1>19. CASE m.type = "disconnect" /\ HandleDisconnect
    <2>1. inbox' = Tail(inbox) /\ Still /\ port' = port
      BY <1>19 DEF HandleDisconnect, Received, Still
    <2>2. \/ Do(Quiet([ext EXCEPT !.state = "degraded", !.recon = TRUE], ref))
          \/ Do(Quiet(ext, ref))
      BY <1>19 DEF HandleDisconnect
    <2> QED BY <1>6, <1>19, <2>1, <2>2 DEF Handled, Handling, Parting
  <1>20. CASE m.type = "evict.remove.authorized" /\ BoundMessage(m) /\ seen # <<>> /\ HandleAuthorized(m)
    BY <1>6, <1>20 DEF HandleAuthorized, Received, Handled, Handling, Removing
  <1>21. CASE /\ \/ /\ m.type \in {"evict.confirmed", "operation.status", "operation.completed",
                                   "evict.remove.authorized"}
                    /\ ~BoundMessage(m)
                 \/ m.type = "evict.remove.authorized" /\ seen = <<>>
              /\ Received /\ Throw /\ NoChange
    BY <1>6, <1>8, <1>21 DEF Throw, Received, Handled, Handling, Ignoring
  <1>22. CASE m.type = "handshake.ack" /\ HandleAck(m)
    <2> DEFINE e == Adopted(m)
               query == IF Bound(ref) THEN <<StatusQuery(ref)>> ELSE <<>>
               Then(t) == DoIf(port # "none", [t EXCEPT !.out = query \o @])
               clean == e.state = "sealed" /\ ~e.inval /\ jar # Empty /\ port # "none"
    <2>1. e \in Groups /\ m.state \in HostStates
      <3>1. m.state \in HostStates /\ m.lease \in Nat
        BY <1>2, <1>22 DEF Replies
      <3> DEFINE recon == m.state \in {"unlocking", "evicting", "degraded"}
                 inval == ext.inval /\ m.state # "uninitialized"
      <3>2. recon \in BOOLEAN /\ inval \in BOOLEAN
        OBVIOUS
      <3>3. e = [ext EXCEPT !.state = m.state, !.lease = m.lease, !.asked = "none", !.evicting = FALSE,
                            !.recon = recon, !.inval = inval]
        BY DEF Adopted
      <3> HIDE DEF recon, inval, e
      <3>4. e \in Groups
        BY <1>9, <3>1, <3>2, <3>3 DEF Groups
      <3> QED BY <3>1, <3>4
    <2>2. inbox' = Tail(inbox) /\ Still /\ port' = IF port = "open" THEN "ready" ELSE port
      BY <1>22 DEF HandleAck, Received, Still
    <2>3. \/ port = "none" /\ Do(Quiet(e, ref))
          \/ /\ port # "none"
             /\ \/ Then(Quiet(e, ref)) \/ Then(RequestLease(e, ref, "inject"))
                \/ Then(RequestEviction(e, ref, "startup"))
                \/ jar # Empty /\ Then(RequestEviction(e, ref, "idle"))
      BY <1>22 DEF HandleAck, Adopted
    <2> HIDE DEF e
    <2>4. PICK t : /\ Requested(t, e, ref) /\ ~Invalidates(t, e, ref) /\ DOMAIN t = {"ext", "ref", "out", "timer"}
                   /\ \/ port = "none" /\ Do(t) 
                      \/ port # "none" /\ Then(t)
      <3>1. /\ Requested(Quiet(e, ref), e, ref) /\ ~Invalidates(Quiet(e, ref), e, ref)
            /\ DOMAIN Quiet(e, ref) = {"ext", "ref", "out", "timer"}
        BY <1>4 DEF Requested, Rests, Invalidates, Quiet
      <3>2. ASSUME NEW reason \in {"idle", "startup"}, reason = "startup" \/ jar # Empty
            PROVE  /\ Requested(RequestEviction(e, ref, reason), e, ref)
                   /\ ~Invalidates(RequestEviction(e, ref, reason), e, ref)
        BY <1>9, <2>1, <3>2, EvictionRequested
      <3>3. /\ Requested(RequestLease(e, ref, "inject"), e, ref)
            /\ ~Invalidates(RequestLease(e, ref, "inject"), e, ref)
        <4>1. Requested(RequestLease(e, ref, "inject"), e, ref)
          BY <1>9, <2>1, LeaseRequested
        <4>2. RequestLease(e, ref, "inject").out \in {<<>>, <<LeaseRequest("inject")>>}
          BY DEF RequestLease, Quiet
        <4>3. SessionInvalidate(e.lease) # LeaseRequest("inject")
          BY DEF LeaseRequest, SessionInvalidate
        <4>4. <<SessionInvalidate(e.lease)>> \notin {<<>>, <<LeaseRequest("inject")>>}
          BY <4>3
        <4> QED BY <4>1, <4>2, <4>4 DEF Invalidates
      <3>4. /\ DOMAIN RequestLease(e, ref, "inject") = {"ext", "ref", "out", "timer"}
            /\ DOMAIN RequestEviction(e, ref, "startup") = {"ext", "ref", "out", "timer"}
            /\ DOMAIN RequestEviction(e, ref, "idle") = {"ext", "ref", "out", "timer"}
        BY DEF RequestLease, RequestEviction, Quiet, Begin
      <3> QED BY <2>3, <3>1, <3>2, <3>3, <3>4
    <2>5. /\ ext' = t.ext /\ ref' = t.ref
          /\ attempts' = IF t.ref.attempt > attempts THEN t.ref.attempt ELSE attempts
          /\ toHost' = IF port = "none" THEN toHost ELSE toHost \o (query \o t.out)
      <3>1. CASE port = "none"
        BY <2>4, <3>1 DEF Do, DoIf
      <3>2. CASE port # "none"
        <4> DEFINE u == [t EXCEPT !.out = query \o @]
        <4>1. u.ext = t.ext /\ u.ref = t.ref /\ u.out = query \o t.out
          BY <2>4
        <4>2. DoIf(port # "none", u)
          BY <2>4, <3>2
        <4> HIDE DEF u
        <4> QED BY <3>2, <4>1, <4>2 DEF DoIf
      <3> QED BY <3>1, <3>2
    <2>6. Greeted(m, t)
      BY <1>22, <2>2, <2>4, <2>5 DEF Greeted, e
    <2> QED BY <2>2, <2>6 DEF Handled
  <1> QED BY <1>10, <1>11, <1>12, <1>13, <1>15, <1>16, <1>17, <1>18, <1>19, <1>20, <1>21, <1>22
          DEF Receive, m

-----------------------------------------------------------------------------
(* The other steps, by what they change.                                   *)

Apart == UNCHANGED <<host, op, vault, leases>>
Quietly == UNCHANGED <<ext, ref, attempts>>

HostStep == /\ host.up /\ toHost # <<>> /\ toHost' = Tail(toHost) /\ Outcome(Head(toHost))
            /\ Quietly /\ port' = port /\ Still
ReceiveStep == loop.at = "idle" /\ inbox # <<>> /\ Handled(Head(inbox)) /\ Apart
TaskStep(t) ==
    /\ loop.at = "idle" /\ Requested(t, ext, ref) /\ Leaves(t.ext, t.ref, t.out)
    /\ inbox' = inbox /\ port' = port /\ Still /\ Apart
RepeatStep(reason) ==
    /\ loop.at = "idle" /\ port = "ready" /\ ref.phase = "begin_pending"
    /\ toHost' = toHost \o <<OperationBegin(ref, reason)>>
    /\ inbox' = inbox /\ port' = port /\ Still /\ Apart /\ Quietly
HangStep ==
    /\ port' = "none" /\ port # "none" /\ inbox' = inbox \o <<Told("disconnect")>>
    /\ toHost' = toHost /\ Still /\ Apart /\ Quietly
Chosen(l) == l.at = "remove" => l.name \in Names /\ l.value # 0 /\ l.value = l.plan[l.name]
TurnStep ==
    /\ loop.at # "idle" /\ loop' \in Loops /\ loop'.at # "idle" /\ loop'.plan = loop.plan
    /\ Chosen(loop')
    /\ inbox' = inbox /\ port' = port /\ toHost' = toHost /\ seen' = seen /\ Apart /\ Quietly
ReportStep(success, count) ==
    /\ loop.at # "idle" /\ loop' = NoLoop /\ inbox' = inbox /\ port' = port /\ Apart
    /\ IF port = "ready"
       THEN /\ Leaves([ext EXCEPT !.state = IF success THEN "sealed" ELSE "degraded", !.recon = ~success],
                      ref, <<EvictResult(ref, success, count)>>)
            /\ seen' = <<>> /\ (success => count = 0)
       ELSE Quietly /\ seen' = seen /\ toHost' = toHost
StopStep ==
    /\ port' = "none" /\ inbox' = <<>> /\ seen' = <<>> /\ loop' = NoLoop /\ toHost' = toHost
    /\ Apart /\ Quietly
EndStep ==
    /\ port = "none" /\ port' = port /\ host' = [host EXCEPT !.up = FALSE, !.pending = NoPending]
    /\ toHost' = <<>> /\ UNCHANGED <<inbox, op, vault, leases>> /\ Still /\ Quietly
ConnectStep ==
    /\ port = "none" /\ inbox = <<>> /\ loop.at = "idle" /\ ~host.up /\ host' = Restarted
    /\ op' = IF op.phase = "NotCommitted" THEN [op EXCEPT !.phase = "Aborted"] ELSE op
    /\ port' = "open" /\ inbox' = <<Ack(Restarted)>>
    /\ UNCHANGED <<vault, leases, toHost>> /\ Still /\ Quietly
RestStep == inbox' = inbox /\ port' = port /\ toHost' = toHost /\ Still /\ Apart /\ Quietly

\* Every step is one of these.
Step ==
    \/ HostStep \/ ReceiveStep \/ (\E t : TaskStep(t)) \/ (\E reason \in Reasons : RepeatStep(reason))
    \/ HangStep \/ TurnStep \/ (\E success \in BOOLEAN, count \in Nat : ReportStep(success, count))
    \/ StopStep \/ EndStep \/ ConnectStep \/ RestStep

\* Every step of the specification is in one of the classes.
LEMMA NextStep == ASSUME TypeOK, [Next]_vars PROVE Step
  <1>1. ext \in Groups /\ ref \in References /\ toHost \in Seq(Requests) /\ inbox \in Seq(Replies)
    BY DEF TypeOK
  <1>2. ASSUME NEW t, Do(t) PROVE Leaves(t.ext, t.ref, t.out)
    BY <1>2 DEF Do, DoIf, Leaves, Sends
  <1>3. ASSUME Do(Quiet(ext, ref)) PROVE Quietly /\ toHost' = toHost
    <2>1. /\ Quiet(ext, ref).ext = ext /\ Quiet(ext, ref).ref = ref /\ Quiet(ext, ref).out = <<>>
      BY DEF Quiet
    <2>2. Leaves(ext, ref, <<>>) /\ toHost \o <<>> = toHost
      BY <1>1, <1>2, <1>3, <2>1, CatNothing
    <2>3. ~(ref.attempt > attempts)
      BY DEF TypeOK, References
    <2> QED BY <2>2, <2>3 DEF Leaves, Sends, Quietly
  <1>4. ASSUME NEW t, Requested(t, ext, ref), Task(t) PROVE Step
    BY <1>2, <1>4 DEF Task, Step, TaskStep, Still, Apart, hosts
  <1>5. ASSUME NEW reason \in {"idle", "startup", "degraded"}
        PROVE  Requested(RequestEviction(ext, ref, reason), ext, ref)
    BY <1>1, EvictionRequested
  <1>6. Requested(RequestLease(ext, ref, "inject"), ext, ref) /\ Requested(Quiet(ext, ref), ext, ref)
    BY <1>1, LeaseRequested DEF Requested, Rests, Quiet
  <1>7. CASE HostHandle
    BY <1>7, HostOutcome DEF Step, HostStep, Quietly, Still
  <1>8. CASE Receive
    BY <1>8, ReceiveHandled DEF Step, ReceiveStep, Apart
  <1>9. CASE GoIdle \/ Expire \/ Navigate \/ Event
    <2>1. CASE GoIdle \/ Expire \/ Navigate
      BY <1>4, <1>5, <1>6, <2>1 DEF GoIdle, Expire, Navigate
    <2>2. CASE Event
      <3>1. PICK n \in Names : OnChanged(n)
        BY <2>2 DEF Event
      <3>2. Task(RequestEviction(ext, ref, "degraded")) \/ Task(Quiet(ext, ref))
        BY <3>1 DEF OnChanged
      <3> QED BY <1>4, <1>5, <1>6, <3>2
    <2> QED BY <1>9, <2>1, <2>2
  <1>10. CASE Timer
    <2>1. PICK t \in timers : RetryBegin(t) \/ RetryInjection(t)
      BY <1>10 DEF Timer
    <2>2. t.reason \in Reasons
      BY DEF TypeOK, Timers
    <2>3. CASE RetryInjection(t)
      <3> DEFINE result == RequestEviction(ext, ref, "startup")
      <3>1. Leaves(result.ext, result.ref, result.out)
        BY <2>3 DEF RetryInjection, Leaves, Sends
      <3>2. /\ loop.at = "idle" /\ inbox' = inbox /\ port' = port /\ seen' = seen /\ loop' = loop
            /\ UNCHANGED <<host, op, vault, leases>>
        BY <2>3 DEF RetryInjection, hosts
      <3>3. Requested(result, ext, ref)
        BY <1>5
      <3> HIDE DEF result
      <3> QED BY <3>1, <3>2, <3>3 DEF Step, TaskStep, Still, Apart
    <2>4. CASE RetryBegin(t)
      <3>1. /\ loop.at = "idle" /\ UNCHANGED <<ext, ref, seen, loop, host, op, vault, leases, attempts>>
        BY <2>4 DEF RetryBegin, hosts
      <3>2. \/ /\ ref.phase = "begin_pending" /\ port = "ready"
               /\ toHost' = Append(toHost, OperationBegin(ref, t.reason)) /\ UNCHANGED <<port, inbox>>
            \/ port = "ready" /\ port' = "none" /\ inbox' = Append(inbox, Told("disconnect")) /\ toHost' = toHost
            \/ UNCHANGED <<port, inbox, toHost>>
        BY <2>4 DEF RetryBegin
      <3>3. ASSUME NEW e PROVE Append(toHost, e) = toHost \o <<e>> /\ Append(inbox, e) = inbox \o <<e>>
        BY <1>1, AppendIsConcat
      <3> QED BY <2>2, <3>1, <3>2, <3>3 DEF Step, RepeatStep, HangStep, RestStep, Still, Apart, Quietly
    <2> QED BY <2>1, <2>3, <2>4
  <1>11. CASE Look \/ Remove
    <2>1. /\ loop.at # "idle" /\ loop' \in Loops /\ loop'.at # "idle" /\ loop'.plan = loop.plan
          /\ Chosen(loop')
      <3>1. loop \in Loops /\ jar \in Cookies
        BY DEF TypeOK
      <3>2. CASE Look
        <4> DEFINE there == {x \in Names : jar[x] # 0}
                   n == CHOOSE x \in there : \A y \in there : x <= y
        <4>1. CASE (\E x \in there : ~Expected(x)) \/ there = {}
          <5>1. loop' = [loop EXCEPT !.at = "end", !.ok = FALSE] \/ loop' = [loop EXCEPT !.at = "end", !.ok = TRUE]
            BY <3>2, <4>1 DEF Look
          <5> QED BY <3>1, <3>2, <5>1 DEF Look, Loops, Chosen
        <4>2. CASE ~((\E x \in there : ~Expected(x)) \/ there = {})
          <5>1. there \subseteq Nat /\ IsFiniteSet(there)
            BY ControllerAssumption, FS_Subset
          <5>2. \E x \in there : \A y \in there : x <= y
            BY <4>2, <5>1, Least
          <5>3. n \in there
            BY <5>2
          <5>4. n \in Names /\ n \in Nat /\ jar[n] # 0 /\ jar[n] \in Nat /\ loop.plan[n] = jar[n]
            <6>1. n \in Names /\ jar[n] # 0 /\ Expected(n)
              BY <4>2, <5>3
            <6> QED BY <3>1, <6>1, ControllerAssumption DEF Expected, Cookies
          <5>5. loop' = [loop EXCEPT !.at = "remove", !.name = n, !.value = jar[n],
                                     !.left = {x \in loop.left : x > n}]
            BY <3>2, <4>2 DEF Look
          <5> HIDE DEF n
          <5>6. {x \in loop.left : x > n} \in SUBSET Names
            BY <3>1 DEF Loops
          <5>7. loop' \in Loops
            BY <3>1, <5>4, <5>5, <5>6 DEF Loops
          <5>8. /\ loop'.at = "remove" /\ loop'.plan = loop.plan /\ loop'.name = n /\ loop'.value = jar[n]
                /\ loop.at # "idle"
            BY <3>1, <3>2, <5>5 DEF Look, Loops
          <5> QED BY <5>4, <5>7, <5>8 DEF Chosen
        <4> QED BY <4>1, <4>2
      <3>3. CASE Remove
        BY <3>1, <3>3 DEF Remove, Loops, Chosen
      <3> QED BY <1>11, <3>2, <3>3
    <2> QED BY <1>11, <2>1 DEF Step, TurnStep, Look, Remove, hosts, bounds, Apart, Quietly
  <1>12. CASE Report
    <2> DEFINE success == loop.ok /\ jar = Empty
    <2>1. /\ loop.at # "idle" /\ loop' = NoLoop /\ UNCHANGED <<port, inbox, host, op, vault, leases>>
      BY <1>12 DEF Report, hosts
    <2>2. success \in BOOLEAN /\ Count(jar) \in Nat
      BY CountType DEF TypeOK
    <2>3. success => Count(jar) = 0
      <3>1. Count(Empty) = Cardinality({})
        BY DEF Count, Empty
      <3> QED BY <3>1, FS_EmptySet
    <2>4. CASE port = "ready"
      <3> DEFINE x == Sending([ext EXCEPT !.state = IF success THEN "sealed" ELSE "degraded", !.recon = ~success],
                              ref, <<EvictResult(ref, success, Count(jar))>>)
      <3>1. seen' = <<>> /\ Do(x)
        BY <1>12, <2>4 DEF Report
      <3>2. /\ x.ext = [ext EXCEPT !.state = IF success THEN "sealed" ELSE "degraded", !.recon = ~success]
            /\ x.ref = ref /\ x.out = <<EvictResult(ref, success, Count(jar))>>
        BY DEF Sending, Quiet
      <3> HIDE DEF x, success
      <3>3. ReportStep(success, Count(jar))
        BY <1>2, <2>1, <2>2, <2>3, <2>4, <3>1, <3>2 DEF ReportStep, Apart
      <3> QED BY <2>2, <3>3 DEF Step
    <2>5. CASE port # "ready"
      <3>1. Do(Quiet(ext, ref)) /\ seen' = seen
        BY <1>12, <2>5 DEF Report, Throw
      <3>2. ReportStep(success, Count(jar))
        BY <1>3, <2>1, <2>5, <3>1 DEF ReportStep, Apart
      <3> QED BY <2>2, <3>2 DEF Step
    <2> QED BY <2>4, <2>5
  <1>13. CASE Drop
    <2>1. inbox' = inbox \o <<Told("disconnect")>>
      BY <1>1, <1>13, AppendIsConcat DEF Drop
    <2> QED BY <1>13, <2>1 DEF Drop, Elsewhere, Step, HangStep, Still, Apart, Quietly, hosts
  <1>14. CASE WorkerStops
    BY <1>14 DEF WorkerStops, Step, StopStep, Apart, Quietly, hosts
  <1>15. CASE HostEnds
    BY <1>15 DEF HostEnds, Elsewhere, Step, EndStep, Still, Quietly
  <1>16. CASE Connect
    BY <1>16 DEF Connect, Elsewhere, Step, ConnectStep, Still, Quietly
  <1>17. CASE Site \/ UNCHANGED vars
    <2>1. CASE Site
      BY <2>1 DEF Site, SiteSets, Elsewhere, hosts, Step, RestStep, Still, Apart, Quietly
    <2>2. CASE UNCHANGED vars
      BY <2>2 DEF vars, Step, RestStep, Still, Apart, Quietly
    <2> QED BY <1>17, <2>1, <2>2
  <1> QED BY <1>7, <1>8, <1>9, <1>10, <1>11, <1>12, <1>13, <1>14, <1>15, <1>16, <1>17 DEF Next

-----------------------------------------------------------------------------
(* Types are kept.                                                         *)

\* A task leaves a well-typed group, reference and list of messages.
LEMMA RequestedType ==
    ASSUME TypeOK, NEW e \in Groups, NEW r \in References, NEW t, Requested(t, e, r)
    PROVE  t.ext \in Groups /\ t.ref \in References /\ t.out \in Seq(Requests)
  <1>1. CASE Rests(t, e, r)
    BY <1>1 DEF Rests
  <1>2. CASE Invalidates(t, e, r)
    <2>1. SessionInvalidate(e.lease) \in Requests
      BY DEF SessionInvalidate, Requests, Groups
    <2>2. [e EXCEPT !.inval = TRUE] \in Groups
      BY DEF Groups
    <2> QED BY <1>2, <2>1, <2>2 DEF Invalidates
  <1>3. ASSUME NEW purpose \in {"enroll", "inject"}, Unlocks(t, e, r, purpose)
        PROVE  t.ext \in Groups /\ t.ref \in References /\ t.out \in Seq(Requests)
    <2>1. LeaseRequest(purpose) \in Requests
      BY DEF LeaseRequest, Requests
    <2> DEFINE chained == e.chained \/ purpose = "enroll"
    <2>2. chained \in BOOLEAN
      BY DEF Groups
    <2>3. t.ext = [e EXCEPT !.asked = purpose, !.state = "unlocking", !.chained = chained]
      BY <1>3 DEF Unlocks
    <2> HIDE DEF chained
    <2>4. t.ext \in Groups
      BY <2>2, <2>3 DEF Groups
    <2> QED BY <1>3, <2>1, <2>4 DEF Unlocks
  <1>4. Evicting(e) \in Groups
    BY DEF Evicting, Groups, HostStates
  <1>5. CASE Queries(t, e, r)
    <2>1. StatusQuery(r) \in Requests
      BY DEF StatusQuery, Requests, References
    <2> QED BY <1>4, <1>5, <2>1 DEF Queries
  <1>6. ASSUME NEW kind \in {"eviction", "reconciliation"}, NEW reason \in Reasons,
               Begins(t, e, r, kind, reason)
        PROVE  t.ext \in Groups /\ t.ref \in References /\ t.out \in Seq(Requests)
    <2>1. t.ref \in References /\ t.ref.kind \in Kinds
      BY <1>6, BegunType DEF Begins, Kinds
    <2>2. OperationBegin(t.ref, reason) \in Requests
      BY <2>1 DEF OperationBegin, Requests, References
    <2> QED BY <1>4, <1>6, <2>1, <2>2 DEF Begins
  <1> QED BY <1>1, <1>2, <1>3, <1>5, <1>6 DEF Requested

\* What a task leaves is well typed, and no attempt is used before it is counted.
LEMMA LeavesType ==
    ASSUME TypeOK, NEW e \in Groups, NEW r \in References, NEW out \in Seq(Requests), Leaves(e, r, out)
    PROVE  /\ ext' \in Groups /\ ref' \in References /\ toHost' \in Seq(Requests)
           /\ attempts' \in Nat /\ ref'.attempt <= attempts'
  <1>1. toHost \o out \in Seq(Requests)
    BY ConcatProperties DEF TypeOK
  <1>2. r.attempt \in Nat /\ attempts \in Nat /\ toHost \in Seq(Requests)
    BY DEF TypeOK, References
  <1> QED BY <1>1, <1>2 DEF Leaves, Sends

\* The part of the types that the host changes.
LEMMA HostTypes ==
    ASSUME TypeOK, HostStep
    PROVE  /\ inbox' \in Seq(Replies) /\ host' \in HostsSet /\ op' \in Ops /\ vault' \in Cookies
           /\ toHost' \in Seq(Requests) /\ leases' \in Nat
  <1> DEFINE m == Head(toHost)
  <1>1. m \in Requests /\ Outcome(m) /\ toHost' \in Seq(Requests)
    BY TailShrinks DEF TypeOK, HostStep
  <1>2. ASSUME NEW e \in Replies, Says(e) PROVE inbox' \in Seq(Replies)
    BY <1>2, CatGrows DEF Says, TypeOK
  <1>3. /\ host \in HostsSet /\ op \in Ops /\ vault \in Cookies /\ leases \in Nat /\ inbox \in Seq(Replies)
        /\ Empty \in Cookies
    BY DEF TypeOK, Empty, Cookies
  <1>4. /\ NoPending \in Pendings /\ [NoPending EXCEPT !.on = TRUE] \in Pendings
        /\ host.pending \in Pendings
    <2>1. <<>> \in Seq(Cookies)
      OBVIOUS
    <2> QED BY <1>3, <2>1 DEF NoPending, Pendings, HostsSet
  <1>4a. ASSUME NEW c \in Seq(Cookies)
         PROVE  /\ [host.pending EXCEPT !.chunk = c] \in Pendings
                /\ [host.pending EXCEPT !.confirmed = TRUE, !.counted = TRUE, !.chunk = c] \in Pendings
    BY <1>4, <1>4a DEF Pendings
  <1>4b. ASSUME NEW c \in Cookies PROVE <<c>> \in Seq(Cookies)
    OBVIOUS
  <1>5. /\ Told("lease.deny") \in Replies /\ Told("operation.error") \in Replies
        /\ Told("session.invalidated") \in Replies
    BY DEF Told, Replies
  <1>6. Status(op) \in Replies /\ SnapshotRequired(op) \in Replies /\ Authorized(op) \in Replies
    <2>1. op.id \in Nat /\ op.attempt \in Nat
      BY <1>3 DEF Ops
    <2>2. Status(op).action \in {"send_snapshot", "prepare_removal", "completed", "reconciliation_required"}
      BY DEF Status
    <2>3. Status(op) = [type |-> "operation.status", op |-> op.id, action |-> Status(op).action]
      BY DEF Status
    <2>4. Status(op) \in Replies
      BY <2>1, <2>2, <2>3 DEF Replies
    <2> QED BY <2>1, <2>4 DEF SnapshotRequired, Authorized, Replies
  <1>7. ASSUME NEW success \in BOOLEAN PROVE Completed(op, success) \in Replies
    BY <1>3 DEF Completed, Replies, Ops
  <1>8. Confirmed(op) \in Replies
    <2> DEFINE retain == op.kind = "enrollment"
    <2>1. retain \in BOOLEAN /\ op.id \in Nat
      BY <1>3 DEF Ops
    <2>2. Confirmed(op) = [type |-> "evict.confirmed", op |-> op.id, retain |-> retain]
      BY DEF Confirmed
    <2> HIDE DEF retain
    <2> QED BY <2>1, <2>2 DEF Replies
  <1>9. ASSUME NEW phase \in {"Completed", "Aborted", "ReconciliationRequired"}, NEW state \in HostStates,
               NEW lease \in Nat, Ended(phase, state, lease)
        PROVE  host' \in HostsSet /\ op' \in Ops /\ vault' \in Cookies /\ leases' \in Nat
    BY <1>3, <1>4, <1>9 DEF Ended, HostsSet, Ops
  <1>10. host.lease \in Nat /\ 0 \in Nat /\ leases + 1 \in Nat /\ op.id + 1 \in Nat
    BY <1>3 DEF HostsSet, Ops
  <1> HIDE DEF m
  <1>11. CASE Refused(m)
    BY <1>2, <1>3, <1>5, <1>11, <1>1 DEF Refused, Same
  <1>12. CASE Enrolled(m)
    <2>1. LeaseGrant(leases + 1) \in Replies
      BY <1>10 DEF LeaseGrant, Replies
    <2> QED BY <1>1, <1>2, <1>3, <1>10, <1>12, <2>1 DEF Enrolled, HostsSet
  <1>13. CASE Unlocked(m)
    <2>1. LeaseGrant(leases + 1) \in Replies /\ Inject(leases + 1, vault) \in Replies
      BY <1>3, <1>10 DEF LeaseGrant, Inject, Replies
    <2>2. (inbox \o <<LeaseGrant(leases + 1)>>) \o <<Inject(leases + 1, vault)>> \in Seq(Replies)
      BY <1>3, <2>1, CatGrows
    <2> QED BY <1>1, <1>3, <1>10, <1>13, <2>2 DEF Unlocked, HostsSet, HostStates
  <1>14. CASE Repeated(m)
    BY <1>1, <1>2, <1>3, <1>6, <1>14 DEF Repeated, Same
  <1>15. CASE Started(m)
    <2>1. op' \in Ops
      BY <1>1, <1>3, <1>10, <1>15 DEF Started, Ops, Requests
    <2>2. SnapshotRequired(op') \in Replies
      BY <2>1 DEF SnapshotRequired, Replies, Ops
    <2> QED BY <1>1, <1>2, <1>3, <1>4, <1>15, <2>1, <2>2 DEF Started, HostsSet, HostStates
  <1>16. CASE Answered(m)
    <2> DEFINE committed == op.phase = "BrowserRemovalPending"
    <2>1. committed \in BOOLEAN
      OBVIOUS
    <2> HIDE DEF committed
    <2>2. [on |-> TRUE, confirmed |-> committed, counted |-> committed, chunk |-> <<>>] \in Pendings
      BY <2>1 DEF Pendings
    <2>3. host' \in HostsSet
      BY <1>3, <1>4, <1>16, <2>2 DEF Answered, HostsSet, committed
    <2> QED BY <1>1, <1>2, <1>3, <1>6, <1>16, <2>3 DEF Answered
  <1>17. CASE Dropped(m)
    BY <1>1, <1>2, <1>5, <1>9, <1>10, <1>17 DEF Dropped, HostStates
  <1>18. CASE Stored(m)
    <2>1. m.cookies \in Cookies
      BY <1>1, <1>18 DEF Stored, Requests
    <2> DEFINE p == [host.pending EXCEPT !.confirmed = TRUE, !.counted = TRUE, !.chunk = <<m.cookies>>]
    <2>2. p \in Pendings
      BY <1>4a, <1>4b, <2>1
    <2>3. host' = [host EXCEPT !.pending = p]
      BY <1>18 DEF Stored
    <2> HIDE DEF p
    <2>4. host' \in HostsSet
      BY <1>3, <2>2, <2>3 DEF HostsSet
    <2>5. op' \in Ops /\ vault' \in Cookies
      BY <1>3, <1>18, <2>1 DEF Stored, Ops
    <2> QED BY <1>1, <1>2, <1>3, <1>8, <1>18, <2>4, <2>5 DEF Stored
  <1>19. CASE Checked(m)
    <2>1. m.cookies \in Cookies
      BY <1>1, <1>19 DEF Checked, Requests
    <2> DEFINE p == [host.pending EXCEPT !.chunk = <<m.cookies>>]
    <2>3. p \in Pendings
      BY <1>4a, <1>4b, <2>1
    <2>4. host' = [host EXCEPT !.pending = p]
      BY <1>19 DEF Checked
    <2> HIDE DEF p
    <2>2. host' \in HostsSet
      BY <1>3, <2>3, <2>4 DEF HostsSet
    <2> QED BY <1>1, <1>2, <1>3, <1>6, <1>19, <2>2 DEF Checked
  <1>20. ASSUME NEW success \in BOOLEAN, Lost(m, success)
         PROVE  /\ inbox' \in Seq(Replies) /\ host' \in HostsSet /\ op' \in Ops /\ vault' \in Cookies
                /\ leases' \in Nat
    BY <1>2, <1>7, <1>9, <1>10, <1>20 DEF Lost, HostStates
  <1>21. CASE Noted(m)
    <2>1. m.cookies \in Cookies
      BY <1>1, <1>21 DEF Noted, Requests
    <2> DEFINE p == [host.pending EXCEPT !.chunk = <<m.cookies>>]
    <2>3. p \in Pendings
      BY <1>4a, <1>4b, <2>1
    <2>4. host' = [host EXCEPT !.pending = p]
      BY <1>21 DEF Noted
    <2> HIDE DEF p
    <2>2. host' \in HostsSet
      BY <1>3, <2>3, <2>4 DEF HostsSet
    <2> QED BY <1>1, <1>2, <1>3, <1>5, <1>21, <2>2 DEF Noted
  <1>22. CASE Prepared(m)
    <2> DEFINE p == [host.pending EXCEPT !.counted = FALSE, !.chunk = <<>>]
    <2>3. p \in Pendings
      <3>1. <<>> \in Seq(Cookies)
        OBVIOUS
      <3> QED BY <1>4, <3>1 DEF Pendings
    <2>4. host' = [host EXCEPT !.pending = p]
      BY <1>22 DEF Prepared
    <2> HIDE DEF p
    <2>1. host' \in HostsSet
      BY <1>3, <2>3, <2>4 DEF HostsSet
    <2> QED BY <1>1, <1>3, <1>22, <2>1 DEF Prepared
  <1>23. CASE Retained(m) \/ Sealed(m)
    BY <1>1, <1>2, <1>7, <1>9, <1>10, <1>23 DEF Retained, Sealed, HostStates
  <1>24. CASE Injected(m)
    BY <1>1, <1>3, <1>24 DEF Injected, HostsSet, HostStates
  <1>25. CASE Invalidated(m)
    BY <1>1, <1>2, <1>3, <1>5, <1>10, <1>25 DEF Invalidated, HostsSet, HostStates
  <1> QED BY <1>1, <1>11, <1>12, <1>13, <1>14, <1>15, <1>16, <1>17, <1>18, <1>19, <1>20, <1>21, <1>22,
             <1>23, <1>24, <1>25 DEF Outcome

\* The part of the types that a message for the controller changes.
LEMMA ReceiveTypes ==
    ASSUME TypeOK, ReceiveStep
    PROVE  /\ ext' \in Groups /\ ref' \in References /\ toHost' \in Seq(Requests)
           /\ attempts' \in Nat /\ ref'.attempt <= attempts'
           /\ inbox' \in Seq(Replies) /\ port' \in {"none", "open", "ready"}
           /\ seen' \in Seq(Cookies) /\ loop' \in Loops
  <1> DEFINE m == Head(inbox)
             Typed == /\ ext' \in Groups /\ ref' \in References /\ toHost' \in Seq(Requests)
                      /\ attempts' \in Nat /\ ref'.attempt <= attempts'
             Kept == seen' \in Seq(Cookies) /\ loop' \in Loops
  <1>1. m \in Replies /\ Handled(m) /\ Tail(inbox) \in Seq(Replies)
    BY TailShrinks DEF TypeOK, ReceiveStep
  <1>2. /\ ext \in Groups /\ ref \in References /\ toHost \in Seq(Requests) /\ attempts \in Nat
        /\ port \in {"none", "open", "ready"} /\ seen \in Seq(Cookies) /\ loop \in Loops /\ jar \in Cookies
    BY DEF TypeOK
  <1>3. NoRef \in References /\ InitialGroup \in Groups /\ <<>> \in Seq(Requests)
    BY DEF NoRef, References, InitialGroup, Groups, HostStates
  <1>4. ASSUME NEW e \in Groups, NEW r \in References, NEW out \in Seq(Requests), Leaves(e, r, out)
        PROVE  Typed
    BY <1>4, LeavesType
  <1>5. ASSUME Still PROVE Kept
    BY <1>2, <1>5 DEF Still
  <1>6. ASSUME NEW phase \in {"snapshot_required", "committed", "removal_precheck", "removal_authorized",
                              "reconciliation_required"}, ref.op # 0
        PROVE  [ref EXCEPT !.phase = phase] \in References
    BY <1>2, <1>6, PhaseType
  <1>7. ASSUME NEW e \in Groups, NEW r \in References, NEW t, Requested(t, e, r), Leaves(t.ext, t.ref, t.out)
        PROVE  Typed
    BY <1>4, <1>7, RequestedType
  <1>8. ASSUME NEW r \in References, NEW purpose \in {"commit", "removal_precheck"}
        PROVE  SnapshotChunk(r, purpose, jar) \in Requests /\ RemovePrepare(r) \in Requests
    BY <1>2, <1>8 DEF SnapshotChunk, RemovePrepare, Requests, References
  <1>9. ASSUME NEW e \in Requests PROVE <<e>> \in Seq(Requests)
    OBVIOUS
  <1>10. SUFFICES ASSUME Handling(m) PROVE Typed /\ Kept
    <2>1. CASE Closed(m)
      <3>1. inbox' \in Seq(Replies)
        <4>1. Told("disconnect") \in Replies
          BY DEF Told, Replies
        <4> QED BY <1>1, <2>1, <4>1, CatGrows DEF Closed
      <3> QED BY <1>2, <1>3, <1>4, <1>5, <2>1, <3>1 DEF Closed
    <2>2. ASSUME NEW t, Greeted(m, t) PROVE Typed /\ Kept /\ port' \in {"none", "open", "ready"}
      <3> DEFINE recon == m.state \in {"unlocking", "evicting", "degraded"}
                 inval == ext.inval /\ m.state # "uninitialized"
      <3>1. recon \in BOOLEAN /\ inval \in BOOLEAN /\ m.state \in HostStates /\ m.lease \in Nat
        BY <1>1, <1>2, <2>2 DEF Groups, Replies, Greeted
      <3>2. Adopted(m) = [ext EXCEPT !.state = m.state, !.lease = m.lease, !.asked = "none",
                                     !.evicting = FALSE, !.recon = recon, !.inval = inval]
        BY DEF Adopted
      <3> HIDE DEF recon, inval
      <3>3. Adopted(m) \in Groups
        BY <1>2, <3>1, <3>2 DEF Groups
      <3>4. t.ext \in Groups /\ t.ref \in References /\ t.out \in Seq(Requests)
        BY <1>2, <2>2, <3>3, RequestedType DEF Greeted
      <3>5. (IF Bound(ref) THEN <<StatusQuery(ref)>> ELSE <<>>) \in Seq(Requests)
        <4>1. StatusQuery(ref) \in Requests
          BY <1>2 DEF StatusQuery, Requests, References
        <4> QED BY <1>3, <1>9, <4>1
      <3>6. toHost \o ((IF Bound(ref) THEN <<StatusQuery(ref)>> ELSE <<>>) \o t.out) \in Seq(Requests)
        BY <1>2, <3>4, <3>5, ConcatProperties
      <3>7. t.ref.attempt \in Nat
        BY <3>4 DEF References
      <3> QED BY <1>2, <1>5, <2>2, <3>4, <3>6, <3>7 DEF Greeted
    <2> QED BY <1>1, <1>2, <1>10, <2>1, <2>2 DEF Handled
  <1> HIDE DEF m
  <1>11. CASE Granted(m)
    <2>1. [ext EXCEPT !.lease = m.lease, !.asked = "none"] \in Groups
      BY <1>1, <1>2, <1>11 DEF Granted, Groups, Replies
    <2> QED BY <1>2, <1>3, <1>4, <1>5, <1>11, <2>1 DEF Granted
  <1>12. ASSUME NEW r \in References, Enrolling(m, r) PROVE Typed /\ Kept
    <2>1. /\ [ext EXCEPT !.lease = m.lease] \in Groups
          /\ [ext EXCEPT !.lease = m.lease, !.asked = "none", !.evicting = TRUE, !.state = "evicting"] \in Groups
      BY <1>1, <1>2, <1>12 DEF Enrolling, Groups, Replies, HostStates
    <2>2. r.kind \in Kinds
      BY <1>2, <1>12, <2>1, BegunType DEF Enrolling, Kinds
    <2>3. OperationBegin(r, "enroll") \in Requests
      BY <2>2 DEF OperationBegin, Requests, References, Reasons
    <2> QED BY <1>4, <1>5, <1>9, <1>12, <2>1, <2>3 DEF Enrolling
  <1>13. ASSUME NEW success \in BOOLEAN, Restored(m, success) PROVE Typed /\ Kept
    <2>1. m.lease \in Nat
      BY <1>1, <1>13 DEF Restored, Replies
    <2>2. [ext EXCEPT !.state = IF success THEN "leased" ELSE "degraded", !.lease = m.lease] \in Groups
      BY <1>2, <2>1 DEF Groups, HostStates
    <2>3. InjectResult(m.lease, success) \in Requests
      BY <2>1, <1>13 DEF InjectResult, Requests
    <2> QED BY <1>2, <1>4, <1>5, <1>9, <1>13, <2>2, <2>3 DEF Restored
  <1>14. ASSUME NEW state \in HostStates \cup {"unlocking"}, NEW recon \in BOOLEAN, Denied(m, state, recon)
         PROVE  Typed /\ Kept
    <2>1. [ext EXCEPT !.asked = "none", !.evicting = FALSE, !.state = state, !.recon = recon] \in Groups
      BY <1>2 DEF Groups
    <2> QED BY <1>2, <1>3, <1>4, <1>5, <1>14, <2>1 DEF Denied
  <1>15. ASSUME NEW r \in References, Required(m, r) PROVE Typed /\ Kept
    <2>1. Evicting(ext) \in Groups
      BY <1>2 DEF Evicting, Groups, HostStates
    <2>2. <<SnapshotChunk(r, "commit", jar)>> \in Seq(Requests)
      BY <1>8, <1>9
    <2> QED BY <1>2, <1>4, <1>5, <1>15, <2>1, <2>2 DEF Required
  <1>16. ASSUME NEW count \in Nat, Retaining(m, count) PROVE Typed /\ Kept
    <2> DEFINE success == count > 0
    <2>1. success \in BOOLEAN
      OBVIOUS
    <2> HIDE DEF success
    <2>2. EvictResult(ref, success, count) \in Requests
      BY <1>2, <2>1 DEF EvictResult, Requests, References
    <2>3. Leaves(ext, [ref EXCEPT !.phase = "committed"], <<EvictResult(ref, success, count)>>) /\ Still
      BY <1>16 DEF Retaining, success
    <2> QED BY <1>2, <1>4, <1>5, <1>6, <1>9, <1>16, <2>2, <2>3 DEF Retaining, BoundMessage
  <1>17. ASSUME NEW r \in References, Preparing(m, r) PROVE Typed /\ Kept
    <2>1. <<RemovePrepare(r), SnapshotChunk(r, "removal_precheck", jar)>> \in Seq(Requests)
      <3> DEFINE a == RemovePrepare(r)
                 b == SnapshotChunk(r, "removal_precheck", jar)
      <3>1. a \in Requests /\ b \in Requests
        BY <1>8
      <3> HIDE DEF a, b
      <3> QED BY <3>1 DEF a, b
    <2>2. <<jar>> \in Seq(Cookies)
      BY <1>2
    <2> QED BY <1>2, <1>4, <1>17, <2>1, <2>2 DEF Preparing
  <1>18. CASE Resending(m)
    BY <1>2, <1>4, <1>5, <1>8, <1>9, <1>18 DEF Resending
  <1>19. CASE Forgetting(m) \/ Resetting(m) \/ Ignoring(m)
    BY <1>2, <1>3, <1>4, <1>5, <1>19 DEF Forgetting, Resetting, Ignoring
  <1>20. [ext EXCEPT !.state = "degraded", !.recon = TRUE] \in Groups
    BY <1>2 DEF Groups, HostStates
  <1>21. CASE GivingUp(m) \/ Parting(m)
    BY <1>2, <1>3, <1>4, <1>5, <1>6, <1>20, <1>21 DEF GivingUp, Parting, BoundMessage
  <1>22. ASSUME NEW t, Finishing(m, t) PROVE Typed /\ Kept
    <2>1. Succeeded(ext, ref.kind) \in Groups
      BY <1>2 DEF Succeeded, Groups, HostStates
    <2>2. Failed(ext) \in Groups
      <3>1. ext.tries + 1 \in Nat
        BY <1>2 DEF Groups
      <3> QED BY <1>2, <3>1 DEF Failed, Groups, HostStates
    <2>3. PICK e \in Groups, r \in References : Requested(t, e, r)
      BY <1>3, <1>6, <1>22, <2>1, <2>2 DEF Finishing, BoundMessage
    <2> QED BY <1>5, <1>7, <1>22, <2>3 DEF Finishing
  <1>23. CASE Removing(m)
    <2>1. seen[1] \in Cookies
      BY <1>2, <1>23, TailShrinks DEF Removing
    <2>2. loop' \in Loops
      <3>1. Empty \in Cookies
        BY DEF Empty, Cookies
      <3> QED BY <1>23, <2>1, <3>1 DEF Removing, NoLoop, Loops
    <2> QED BY <1>2, <1>3, <1>4, <1>6, <1>23, <2>2 DEF Removing, BoundMessage
  <1> QED BY <1>10, <1>11, <1>12, <1>13, <1>14, <1>15, <1>16, <1>17, <1>18, <1>19, <1>21, <1>22, <1>23
          DEF Handling

\* The part of the types that any step changes.
LEMMA StepTypes ==
    ASSUME TypeOK, Step
    PROVE  /\ ext' \in Groups /\ ref' \in References /\ toHost' \in Seq(Requests)
           /\ attempts' \in Nat /\ ref'.attempt <= attempts'
           /\ inbox' \in Seq(Replies) /\ port' \in {"none", "open", "ready"}
           /\ seen' \in Seq(Cookies) /\ loop' \in Loops
           /\ host' \in HostsSet /\ op' \in Ops /\ vault' \in Cookies /\ leases' \in Nat
  <1> DEFINE Goal ==
           /\ ext' \in Groups /\ ref' \in References /\ toHost' \in Seq(Requests)
           /\ attempts' \in Nat /\ ref'.attempt <= attempts'
           /\ inbox' \in Seq(Replies) /\ port' \in {"none", "open", "ready"}
           /\ seen' \in Seq(Cookies) /\ loop' \in Loops
           /\ host' \in HostsSet /\ op' \in Ops /\ vault' \in Cookies /\ leases' \in Nat
  <1>1. /\ ext \in Groups /\ ref \in References /\ toHost \in Seq(Requests) /\ attempts \in Nat
        /\ ref.attempt <= attempts /\ inbox \in Seq(Replies) /\ port \in {"none", "open", "ready"}
        /\ seen \in Seq(Cookies) /\ loop \in Loops /\ host \in HostsSet /\ op \in Ops
        /\ vault \in Cookies /\ leases \in Nat
    BY DEF TypeOK
  <1>2. CASE HostStep
    BY <1>1, <1>2, HostTypes DEF HostStep, Quietly, Still
  <1>3. CASE ReceiveStep
    BY <1>1, <1>3, ReceiveTypes DEF ReceiveStep, Apart
  <1>4. ASSUME NEW t, TaskStep(t) PROVE Goal
    <2>1. t.ext \in Groups /\ t.ref \in References /\ t.out \in Seq(Requests)
      BY <1>1, <1>4, RequestedType DEF TaskStep
    <2> QED BY <1>1, <1>4, <2>1, LeavesType DEF TaskStep, Still, Apart
  <1>5. ASSUME NEW reason \in Reasons, RepeatStep(reason) PROVE Goal
    <2>1. OperationBegin(ref, reason) \in Requests
      BY <1>1, <1>5 DEF OperationBegin, Requests, References, RepeatStep
    <2> QED BY <1>1, <1>5, <2>1, CatGrows DEF RepeatStep, Still, Apart, Quietly
  <1>6. Told("disconnect") \in Replies
    BY DEF Told, Replies
  <1>7. CASE HangStep
    BY <1>1, <1>6, <1>7, CatGrows DEF HangStep, Still, Apart, Quietly
  <1>8. CASE TurnStep
    BY <1>1, <1>8 DEF TurnStep, Apart, Quietly
  <1>9. /\ NoLoop \in Loops /\ <<>> \in Seq(Cookies) /\ <<>> \in Seq(Requests) /\ <<>> \in Seq(Replies)
        /\ NoPending \in Pendings
    <2>1. Empty \in Cookies /\ <<>> \in Seq(Cookies)
      BY DEF Empty, Cookies
    <2> QED BY <2>1 DEF NoLoop, Loops, NoPending, Pendings
  <1>10. ASSUME NEW success \in BOOLEAN, NEW count \in Nat, ReportStep(success, count) PROVE Goal
    <2>1. CASE port = "ready"
      <3> DEFINE e == [ext EXCEPT !.state = IF success THEN "sealed" ELSE "degraded", !.recon = ~success]
      <3>1. e \in Groups
        BY <1>1, <1>10 DEF Groups, HostStates
      <3>2. EvictResult(ref, success, count) \in Requests
        BY <1>1, <1>10 DEF EvictResult, Requests, References
      <3>3. <<EvictResult(ref, success, count)>> \in Seq(Requests)
        BY <3>2
      <3>4. Leaves(e, ref, <<EvictResult(ref, success, count)>>)
        BY <1>10, <2>1 DEF ReportStep
      <3> HIDE DEF e
      <3>5. /\ ext' \in Groups /\ ref' \in References /\ toHost' \in Seq(Requests)
            /\ attempts' \in Nat /\ ref'.attempt <= attempts'
        BY <1>1, <3>1, <3>3, <3>4, LeavesType
      <3> QED BY <1>1, <1>9, <1>10, <2>1, <3>5 DEF ReportStep, Apart
    <2>2. CASE port # "ready"
      BY <1>1, <1>9, <1>10, <2>2 DEF ReportStep, Apart, Quietly
    <2> QED BY <2>1, <2>2
  <1>11. CASE StopStep
    BY <1>1, <1>9, <1>11 DEF StopStep, Apart, Quietly
  <1>12. CASE EndStep
    <2>1. host' \in HostsSet
      BY <1>1, <1>9, <1>12 DEF EndStep, HostsSet
    <2> QED BY <1>1, <1>9, <1>12, <2>1 DEF EndStep, Still, Quietly
  <1>13. CASE ConnectStep
    <2>1. Restarted \in HostsSet
      BY <1>1 DEF Restarted, HostsSet, HostStates
    <2>2. Ack(Restarted) \in Replies
      BY <2>1 DEF Ack, Replies, HostsSet
    <2>3. op' \in Ops
      BY <1>1, <1>13 DEF ConnectStep, Ops
    <2>4. <<Ack(Restarted)>> \in Seq(Replies)
      BY <2>2
    <2> QED BY <1>1, <1>13, <2>1, <2>3, <2>4 DEF ConnectStep, Still, Quietly
  <1>14. CASE RestStep
    BY <1>1, <1>14 DEF RestStep, Still, Apart, Quietly
  <1> QED BY <1>2, <1>3, <1>4, <1>5, <1>7, <1>8, <1>10, <1>11, <1>12, <1>13, <1>14 DEF Step

\* The types of the browser's cookies, its events and the counters.
LEMMA BrowserTypes ==
    ASSUME TypeOK, [Next]_vars
    PROVE  /\ jar' \in Cookies /\ changed' \in SUBSET Names
           /\ values' \in Nat /\ users' \in Nat /\ drops' \in Nat
  <1>1. /\ jar \in Cookies /\ changed \in SUBSET Names /\ Empty \in Cookies
        /\ values \in Nat /\ users \in Nat /\ drops \in Nat
    BY DEF TypeOK, Empty, Cookies
  <1>2. /\ users + 1 \in Nat /\ drops + 1 \in Nat /\ values + 1 \in Nat
        /\ \A n : \A v \in Nat : [jar EXCEPT ![n] = v] \in Cookies
    <2>1. ASSUME NEW n, NEW v \in Nat PROVE [jar EXCEPT ![n] = v] \in Cookies
      BY <1>1 DEF Cookies
    <2> QED BY <1>1, <2>1
  <1>3. CASE HostHandle \/ HostEnds \/ Connect \/ Report \/ Look \/ UNCHANGED vars
    BY <1>1, <1>3 DEF HostHandle, HostEnds, Connect, Report, Look, vars, bounds
  <1>4. CASE Receive
    <2> DEFINE m == Head(inbox)
    <2>1. m \in Replies /\ UNCHANGED <<values, users, drops>>
      BY <1>4, TailShrinks DEF Receive, TypeOK, bounds
    <2>2. changed' \in SUBSET Names
      BY <1>1, <1>4 DEF Receive
    <2>3. CASE m.type = "cookies.inject"
      <3>1. m.cookies \in Cookies
        BY <2>1, <2>3 DEF Replies
      <3> DEFINE restored == [n \in Names |-> IF m.cookies[n] # 0 THEN m.cookies[n] ELSE jar[n]]
      <3>2. restored \in Cookies
        BY <1>1, <3>1 DEF Cookies
      <3>3. jar' = restored \/ jar' = Empty
        BY <1>4, <2>3 DEF Receive, HandleInject
      <3> QED BY <1>1, <2>1, <2>2, <3>2, <3>3
    <2>4. CASE m.type # "cookies.inject"
      <3>1. jar' \in {jar, Empty}
        BY <1>4, <2>4 DEF Receive, HandleAck, HandleGrant, HandleRefusal, HandleSnapshotRequired,
             HandleInvalidated, HandleDisconnect, HandleConfirmed, HandleStatus, HandleCompleted,
             HandleAuthorized, Prepare, NoChange
      <3> QED BY <1>1, <2>1, <2>2, <3>1
    <2> QED BY <2>3, <2>4
  <1>5. CASE Remove
    BY <1>1, <1>2, <1>5 DEF Remove, bounds
  <1>6. CASE Timer
    <2>1. UNCHANGED <<jar, changed, values, users, drops>>
      BY <1>6 DEF Timer, RetryBegin, RetryInjection, bounds
    <2> QED BY <1>1, <2>1
  <1>7. CASE Event
    <2>1. PICK n \in Names : OnChanged(n)
      BY <1>7 DEF Event
    <2> QED BY <1>1, <1>2, <2>1 DEF OnChanged, Task
  <1>8. CASE GoIdle \/ Expire \/ Navigate
    BY <1>1, <1>2, <1>8 DEF GoIdle, Expire, Navigate, Task
  <1>9. CASE Site
    <2>1. PICK n \in Names : SiteSets(n)
      BY <1>9 DEF Site
    <2>2. 1 + values' \in Nat /\ values' \in Nat
      BY <1>1, <1>2, <2>1 DEF SiteSets
    <2>3. jar' \in Cookies
      BY <1>1, <1>2, <2>1, <2>2 DEF SiteSets
    <2> QED BY <1>1, <2>1, <2>2, <2>3 DEF SiteSets
  <1>10. CASE Drop \/ WorkerStops
    BY <1>1, <1>2, <1>10 DEF Drop, WorkerStops
  <1> QED BY <1>3, <1>4, <1>5, <1>6, <1>7, <1>8, <1>9, <1>10 DEF Next

\* A timer keeps one of the reasons of requestEviction.
LEMMA TimerTypes ==
    ASSUME TypeOK, [Next]_vars PROVE timers' \in SUBSET Timers
  <1>1. /\ ext \in Groups /\ ref \in References /\ NoRef \in References /\ timers \subseteq Timers
    BY DEF TypeOK, NoRef, References
  <1>2. ASSUME NEW ready, NEW t, t.timer \subseteq Timers, DoIf(ready, t) PROVE timers' \in SUBSET Timers
    BY <1>1, <1>2 DEF DoIf, Live
  <1>3. ASSUME NEW e, NEW r, NEW out PROVE Quiet(e, r).timer = {} /\ Sending(e, r, out).timer = {}
    BY DEF Quiet, Sending
  <1>4. ASSUME NEW n \in Nat, NEW reason \in Reasons
        PROVE  [attempt |-> n, reason |-> reason, retry |-> 0] \in Timers
    BY <1>4 DEF Timers
  <1>5. ASSUME NEW e \in Groups, NEW r \in References, NEW reason \in {"idle", "startup", "degraded"}
        PROVE  RequestEviction(e, r, reason).timer \subseteq Timers
    <2> DEFINE t == RequestEviction(e, r, reason)
    <2>1. /\ Requested(t, e, r)
          /\ t.timer \subseteq {[attempt |-> t.ref.attempt, reason |-> reason, retry |-> 0]}
      BY EvictionRequested
    <2> HIDE DEF t
    <2>2. t.ref \in References
      BY <2>1, RequestedType
    <2>3. t.ref.attempt \in Nat /\ reason \in Reasons
      BY <2>2 DEF References, Reasons
    <2> QED BY <1>4, <2>1, <2>3 DEF t
  <1>6. ASSUME NEW e \in Groups, NEW r \in References PROVE RequestLease(e, r, "inject").timer \subseteq Timers
    BY LeaseRequested
  <1>7. CASE Receive
    <2> DEFINE m == Head(inbox)
    <2>1. m \in Replies
      BY <1>7, TailShrinks DEF Receive, TypeOK
    <2>2. CASE m.type = "lease.grant"
      <3> DEFINE e == [ext EXCEPT !.lease = m.lease, !.asked = "none"]
                 f == [e EXCEPT !.evicting = TRUE, !.state = "evicting"]
      <3>1. f \in Groups
        BY <1>1, <2>1, <2>2 DEF Groups, Replies, HostStates
      <3>2. Begin(f, ref, "enrollment", "enroll").timer \subseteq Timers
        <4>1. Begun(f, ref, "enrollment").attempt \in Nat
          BY <1>1, <3>1, BegunType DEF References, Kinds
        <4> QED BY <1>4, <4>1 DEF Begin, Reasons
      <3>3. Do(Begin(f, ref, "enrollment", "enroll")) \/ Do(Quiet(e, ref))
        BY <1>7, <2>2 DEF Receive, HandleGrant
      <3> HIDE DEF e, f
      <3> QED BY <1>2, <1>3, <3>2, <3>3 DEF Do
    <2>3. CASE m.type = "cookies.inject"
      <3> DEFINE q == [Sending([ext EXCEPT !.state = "degraded", !.lease = m.lease], ref,
                               <<InjectResult(m.lease, FALSE)>>)
                       EXCEPT !.timer = {[attempt |-> 0, reason |-> "startup", retry |-> 0]}]
                 w == Sending([ext EXCEPT !.state = "leased", !.lease = m.lease], ref,
                              <<InjectResult(m.lease, TRUE)>>)
      <3>1. Do(q) \/ Do(w)
        BY <1>7, <2>3 DEF Receive, HandleInject
      <3>2. q.timer = {[attempt |-> 0, reason |-> "startup", retry |-> 0]} /\ w.timer = {}
        BY <1>3 DEF Sending, Quiet
      <3>3. q.timer \subseteq Timers
        BY <1>4, <3>2 DEF Reasons
      <3> HIDE DEF q, w
      <3> QED BY <1>2, <3>1, <3>2, <3>3 DEF Do
    <2>4. CASE m.type = "operation.completed" /\ BoundMessage(m)
      <3> DEFINE done == Succeeded(ext, ref.kind)
                 failed == Failed(ext)
                 over == [ref EXCEPT !.phase = "reconciliation_required"]
      <3>1. done \in Groups
        BY <1>1 DEF Succeeded, Groups, HostStates
      <3>2. failed \in Groups
        <4>1. ext.tries + 1 \in Nat
          BY <1>1 DEF Groups
        <4> QED BY <1>1, <4>1 DEF Failed, Groups, HostStates
      <3>3. over \in References
        BY <1>1, <2>4, PhaseType DEF BoundMessage
      <3>4. \/ Do(RequestEviction(done, NoRef, "idle")) \/ Do(Quiet(done, NoRef))
            \/ Do(RequestEviction(failed, over, "degraded")) \/ Do(Quiet(failed, over))
        BY <1>7, <2>4 DEF Receive, HandleCompleted
      <3> HIDE DEF done, failed, over
      <3> QED BY <1>1, <1>2, <1>3, <1>5, <3>1, <3>2, <3>3, <3>4 DEF Do
    <2>5. CASE m.type = "handshake.ack"
      <3> DEFINE e == Adopted(m)
                 query == IF Bound(ref) THEN <<StatusQuery(ref)>> ELSE <<>>
      <3>1. e \in Groups
        <4> DEFINE recon == m.state \in {"unlocking", "evicting", "degraded"}
                   inval == ext.inval /\ m.state # "uninitialized"
        <4>1. recon \in BOOLEAN /\ inval \in BOOLEAN /\ m.state \in HostStates /\ m.lease \in Nat
          BY <1>1, <2>1, <2>5 DEF Groups, Replies
        <4>2. e = [ext EXCEPT !.state = m.state, !.lease = m.lease, !.asked = "none",
                              !.evicting = FALSE, !.recon = recon, !.inval = inval]
          BY DEF Adopted
        <4> HIDE DEF recon, inval, e
        <4> QED BY <1>1, <4>1, <4>2 DEF Groups
      <3>2. \E t \in {Quiet(e, ref), RequestLease(e, ref, "inject"), RequestEviction(e, ref, "startup"),
                      RequestEviction(e, ref, "idle")} :
               Do(t) \/ DoIf(port # "none", [t EXCEPT !.out = query \o @])
        BY <1>7, <2>5 DEF Receive, HandleAck, Adopted
      <3> HIDE DEF e, query
      <3>3. PICK t \in {Quiet(e, ref), RequestLease(e, ref, "inject"), RequestEviction(e, ref, "startup"),
                        RequestEviction(e, ref, "idle")} :
               Do(t) \/ DoIf(port # "none", [t EXCEPT !.out = query \o @])
        BY <3>2
      <3>4. t.timer \subseteq Timers
        BY <1>1, <1>3, <1>5, <1>6, <3>1
      <3>5. [t EXCEPT !.out = query \o @].timer = t.timer
        OBVIOUS
      <3> QED BY <1>2, <3>3, <3>4, <3>5 DEF Do
    <2>6. CASE /\ m.type \notin {"lease.grant", "cookies.inject", "handshake.ack"}
               /\ ~(m.type = "operation.completed" /\ BoundMessage(m))
      <3>1. \E e, r, out : Do(Quiet(e, r)) \/ Do(Sending(e, r, out))
        BY <1>7, <2>6 DEF Receive, HandleRefusal, HandleSnapshotRequired,
             HandleInvalidated, HandleDisconnect, HandleConfirmed, HandleStatus,
             HandleAuthorized, Prepare, Throw
      <3> QED BY <1>2, <1>3, <3>1 DEF Do
    <2> QED BY <2>2, <2>3, <2>4, <2>5, <2>6
  <1>8. CASE Report
    <2>1. \E e, r, out : Do(Quiet(e, r)) \/ Do(Sending(e, r, out))
      BY <1>8 DEF Report, Throw
    <2> QED BY <1>2, <1>3, <2>1 DEF Do
  <1>9. CASE Timer
    <2>1. PICK t \in timers : RetryBegin(t) \/ RetryInjection(t)
      BY <1>9 DEF Timer
    <2>2. t \in Timers
      BY <1>1
    <2>3. [t EXCEPT !.retry = @ + 1] \in Timers
      <3>1. t.retry + 1 \in Nat
        BY <2>2 DEF Timers
      <3> QED BY <2>2, <3>1 DEF Timers
    <2>4. CASE RetryBegin(t)
      BY <1>1, <2>3, <2>4 DEF RetryBegin
    <2>5. CASE RetryInjection(t)
      BY <1>1, <1>5, <2>5 DEF RetryInjection, Live
    <2> QED BY <2>1, <2>4, <2>5
  <1>10. CASE GoIdle \/ Expire \/ Navigate \/ Event
    <2>1. \E t \in {Quiet(ext, ref), RequestLease(ext, ref, "inject"), RequestEviction(ext, ref, "startup"),
                    RequestEviction(ext, ref, "idle"), RequestEviction(ext, ref, "degraded")} : Do(t)
      BY <1>10 DEF GoIdle, Expire, Navigate, Event, OnChanged, Task
    <2>2. PICK t \in {Quiet(ext, ref), RequestLease(ext, ref, "inject"), RequestEviction(ext, ref, "startup"),
                      RequestEviction(ext, ref, "idle"), RequestEviction(ext, ref, "degraded")} : Do(t)
      BY <2>1
    <2>3. t.timer \subseteq Timers
      BY <1>1, <1>3, <1>5, <1>6
    <2> QED BY <1>2, <2>2, <2>3 DEF Do
  <1>11. CASE HostHandle \/ HostEnds \/ Connect \/ Look \/ Remove \/ Site \/ Drop \/ UNCHANGED vars
    <2>1. timers' = timers
      BY <1>11 DEF HostHandle, HostEnds, Connect, Look, Remove, Site, SiteSets, Drop, vars, Elsewhere
    <2> QED BY <1>1, <2>1
  <1>12. CASE WorkerStops
    BY <1>12 DEF WorkerStops
  <1> QED BY <1>7, <1>8, <1>9, <1>10, <1>11, <1>12 DEF Next

\* The types hold and are kept.
LEMMA TypesStart == Init => TypeOK
  <1>1. Empty \in Cookies /\ [Names -> {0, 1}] \subseteq Cookies
    BY DEF Empty, Cookies
  <1>2. InitialGroup \in Groups /\ NoRef \in References /\ 0 \in Nat
    BY DEF InitialGroup, Groups, HostStates, NoRef, References
  <1>3. NoLoop \in Loops /\ NoPending \in Pendings
    <2>1. <<>> \in Seq(Cookies)
      OBVIOUS
    <2> QED BY <1>1, <2>1 DEF NoLoop, Loops, NoPending, Pendings
  <1>4. NoOp \in Ops
    BY <1>1 DEF NoOp, Ops
  <1>5. Init => host \in HostsSet
    BY <1>3 DEF Init, HostsSet, HostStates
  <1>6. NoRef.attempt <= 0
    BY DEF NoRef
  <1> QED BY <1>1, <1>2, <1>3, <1>4, <1>5, <1>6 DEF Init, TypeOK

\* Every step keeps the type invariant.
LEMMA TypesKept == ASSUME TypeOK, [Next]_vars PROVE TypeOK'
  BY NextStep, StepTypes, BrowserTypes, TimerTypes DEF TypeOK

-----------------------------------------------------------------------------
(* The order of attempts.                                                  *)

HasOp == {"evict.confirmed", "operation.status", "operation.completed", "evict.remove.authorized",
          "operation.snapshot_required"}
OfOp == {"cookies.snapshot.chunk", "evict.remove.prepare", "evict.result"}

\* The reference is over, or for an attempt that is not older than the journal's
\* and for the journal's own operation once it has an identity.
Referred(r, o, n) ==
    /\ o.attempt <= n
    /\ o.attempt = 0 <=> o.id = 0
    /\ o.attempt = 0 <=> o.kind = "none"
    /\ o.phase = "NotCommitted" => o.attempt # 0
    /\ r.attempt # 0 => o.attempt <= r.attempt
    /\ r.attempt # 0 /\ r.attempt = o.attempt => r.kind = o.kind
    /\ r.op # 0 => r.op = o.id /\ r.attempt = o.attempt
    /\ r.op = 0 => r.phase \in {"none", "begin_pending"}

\* The begins on their way are in the order of their attempts, none older than
\* the journal's operation or newer than the reference, and one kind each.
Queued(s, r, o, n) ==
    \A q \in 1 .. Len(s) : s[q].type = "operation.begin" =>
        /\ s[q].attempt # 0 /\ o.attempt <= s[q].attempt /\ s[q].attempt <= n
        /\ r.attempt # 0 => s[q].attempt <= r.attempt
        /\ s[q].attempt = r.attempt => s[q].kind = r.kind
        /\ s[q].attempt = o.attempt => s[q].kind = o.kind
        /\ \A p \in 1 .. Len(s) : p < q /\ s[p].type = "operation.begin" =>
              /\ s[p].attempt <= s[q].attempt
              /\ s[p].attempt = s[q].attempt => s[p].kind = s[q].kind

\* No message names a later operation than the journal's, and a snapshot is
\* required for the journal's attempt or an older one.
Past(s, o) ==
    \A i \in 1 .. Len(s) :
        /\ s[i].type \in HasOp \cup OfOp => s[i].op <= o.id
        /\ s[i].type = "operation.snapshot_required" =>
              /\ 0 < s[i].attempt /\ s[i].attempt <= o.attempt
              /\ s[i].attempt = o.attempt => s[i].op = o.id

Order ==
    /\ Referred(ref, op, attempts) /\ Queued(toHost, ref, op, attempts)
    /\ Past(toHost, op) /\ Past(inbox, op)

\* What the controller sends is about the reference that it leaves.
Carried(e, r) ==
    /\ e.type = "operation.begin" =>
          e.attempt = r.attempt /\ e.kind = r.kind /\ r.op = 0 /\ r.phase = "begin_pending"
    /\ e.type \in OfOp => e.op = r.op
Moves ==
    \E out \in Seq(Requests) :
        /\ toHost' = toHost \o out /\ \A i \in 1 .. Len(out) : Carried(out[i], ref')
        /\ \/ /\ ref'.attempt = ref.attempt /\ ref'.kind = ref.kind /\ attempts' = attempts
              /\ ref'.op = ref.op \/ (ref'.op = op.id /\ ref.attempt = op.attempt /\ op.id # 0)
           \/ ref' = NoRef /\ attempts' = attempts
           \/ ref'.attempt = attempts + 1 /\ attempts' = attempts + 1 /\ ref'.op = 0
        /\ ref'.op = 0 => ref'.phase \in {"none", "begin_pending"}

\* A request of the controller moves so.
LEMMA RequestMoves ==
    ASSUME TypeOK, Order, NEW e \in Groups, NEW r \in References, NEW t, Requested(t, e, r),
           r = NoRef \/ (r.attempt = ref.attempt /\ r.kind = ref.kind /\ r.op = ref.op),
           r.op = 0 => r.phase \in {"none", "begin_pending"}
    PROVE  /\ \A i \in 1 .. Len(t.out) : Carried(t.out[i], t.ref)
           /\ \/ t.ref.attempt = ref.attempt /\ t.ref.kind = ref.kind /\ t.ref.op = ref.op
              \/ t.ref = NoRef
              \/ t.ref.attempt = attempts + 1 /\ t.ref.op = 0
           /\ t.ref.op = 0 => t.ref.phase \in {"none", "begin_pending"}
  <1>1. CASE Rests(t, e, r)
    BY <1>1 DEF Rests
  <1>2. CASE Invalidates(t, e, r)
    BY <1>2 DEF Invalidates, Carried, SessionInvalidate, OfOp
  <1>3. ASSUME NEW purpose, Unlocks(t, e, r, purpose)
        PROVE  t.ref = r /\ \A i \in 1 .. Len(t.out) : Carried(t.out[i], t.ref)
    BY <1>3 DEF Unlocks, Carried, LeaseRequest, OfOp
  <1>4. CASE Queries(t, e, r)
    BY <1>4 DEF Queries, Carried, StatusQuery, OfOp
  <1>5. ASSUME NEW kind \in {"eviction", "reconciliation"}, NEW reason, Begins(t, e, r, kind, reason)
        PROVE  /\ t.ref = r \/ t.ref.attempt = attempts + 1
               /\ t.ref.op = 0 /\ t.ref.phase = "begin_pending"
               /\ \A i \in 1 .. Len(t.out) : Carried(t.out[i], t.ref)
    <2>1. /\ t.ref \in References
          /\ t.ref = r \/ t.ref.attempt = attempts + 1
          /\ t.ref.op = 0 /\ t.ref.phase \notin TerminalPhase
      BY <1>5, BegunType DEF Begins, Kinds
    <2>2. t.ref.phase = "begin_pending"
      BY <2>1, <1>5 DEF Begins, Begun, TerminalPhase, NoRef
    <2> QED BY <1>5, <2>1, <2>2 DEF Begins, Carried, OperationBegin, OfOp
  <1> QED BY <1>1, <1>2, <1>3, <1>4, <1>5 DEF Requested

\* So does every step of the controller.
LEMMA ControlMoves ==
    ASSUME TypeOK, Order,
           \/ ReceiveStep \/ (\E t : TaskStep(t)) \/ (\E reason \in Reasons : RepeatStep(reason))
           \/ HangStep \/ TurnStep \/ (\E success \in BOOLEAN, count \in Nat : ReportStep(success, count))
           \/ StopStep \/ RestStep
    PROVE  Moves
  <1>1. /\ ext \in Groups /\ ref \in References /\ toHost \in Seq(Requests) /\ attempts \in Nat
        /\ jar \in Cookies /\ toHost \o <<>> = toHost /\ ref.attempt <= attempts /\ <<>> \in Seq(Requests)
        /\ NoRef \in References
    BY CatNothing DEF TypeOK, NoRef, References
  <1>2. Referred(ref, op, attempts)
    BY DEF Order
  <1> DEFINE Fits(r) == /\ \/ r.attempt = ref.attempt /\ r.kind = ref.kind /\ r.op = ref.op
                           \/ /\ r.attempt = ref.attempt /\ r.kind = ref.kind /\ ref.attempt = op.attempt
                              /\ r.op = op.id /\ op.id # 0
                           \/ r = NoRef
                           \/ r.attempt = attempts + 1 /\ r.op = 0
                        /\ r.op = 0 => r.phase \in {"none", "begin_pending"}
  <1>3. ASSUME NEW r, NEW out \in Seq(Requests), Fits(r), ref' = r,
               attempts' = IF r.attempt > attempts THEN r.attempt ELSE attempts,
               toHost' = toHost \o out, \A i \in 1 .. Len(out) : Carried(out[i], r)
        PROVE  Moves
    <2>1. NoRef.attempt = 0 /\ ref.attempt \in Nat
      BY <1>1 DEF NoRef, References
    <2>2. \/ /\ ref'.attempt = ref.attempt /\ ref'.kind = ref.kind /\ attempts' = attempts
             /\ ref'.op = ref.op \/ (ref'.op = op.id /\ ref.attempt = op.attempt /\ op.id # 0)
          \/ ref' = NoRef /\ attempts' = attempts
          \/ ref'.attempt = attempts + 1 /\ attempts' = attempts + 1 /\ ref'.op = 0
      BY <1>1, <1>3, <2>1
    <2>3. ref'.op = 0 => ref'.phase \in {"none", "begin_pending"}
      BY <1>3
    <2>4. toHost' = toHost \o out /\ \A i \in 1 .. Len(out) : Carried(out[i], ref')
      BY <1>3
    <2> QED BY <1>3, <2>2, <2>3, <2>4 DEF Moves
  <1>4. ASSUME NEW r, NEW out \in Seq(Requests), NEW e, Fits(r), Leaves(e, r, out),
               \A i \in 1 .. Len(out) : Carried(out[i], r)
        PROVE  Moves
    <2>1. CASE port = "ready"
      BY <1>3, <1>4, <2>1 DEF Leaves, Sends
    <2>2. CASE port # "ready"
      <3>1. toHost' = toHost \o <<>> /\ \A i \in 1 .. Len(<<>>) : Carried(<<>>[i], r)
        BY <1>1, <1>4, <2>2 DEF Leaves, Sends
      <3> QED BY <1>1, <1>3, <1>4, <3>1 DEF Leaves
    <2> QED BY <2>1, <2>2
  <1>5. ASSUME NEW r, NEW e, Fits(r), Leaves(e, r, <<>>) PROVE Moves
    <2> HIDE DEF Fits
    <2>1. \A i \in 1 .. Len(<<>>) : Carried(<<>>[i], r)
      OBVIOUS
    <2> QED BY <1>1, <1>4, <1>5, <2>1
  <1>6. ASSUME NEW r, NEW e, NEW m \in Requests, Fits(r), Leaves(e, r, <<m>>), Carried(m, r) PROVE Moves
    <2> HIDE DEF Fits
    <2>1. <<m>> \in Seq(Requests) /\ \A i \in 1 .. Len(<<m>>) : Carried(<<m>>[i], r)
      BY <1>6
    <2> QED BY <1>4, <1>6, <2>1
  <1>7. Fits(ref) /\ Fits(NoRef)
    BY <1>2 DEF Referred, NoRef
  <1>8. ASSUME NEW phase, ref.op # 0 PROVE Fits([ref EXCEPT !.phase = phase]) /\ [ref EXCEPT !.phase = phase].op = ref.op
    BY <1>1, <1>8 DEF References
  <1>9. ASSUME Quietly, toHost' = toHost PROVE Moves
    <2>1. ~(ref.attempt > attempts)
      BY <1>1 DEF References
    <2> QED BY <1>1, <1>5, <1>7, <1>9, <2>1 DEF Quietly, Leaves, Sends
  <1>10. CASE HangStep \/ TurnStep \/ StopStep \/ RestStep
    BY <1>9, <1>10 DEF HangStep, TurnStep, StopStep, RestStep
  <1>11. ASSUME NEW t, TaskStep(t) PROVE Moves
    <2>1. t.ext \in Groups /\ t.ref \in References /\ t.out \in Seq(Requests)
      BY <1>1, <1>11, RequestedType DEF TaskStep
    <2>2. Fits(t.ref) /\ \A i \in 1 .. Len(t.out) : Carried(t.out[i], t.ref)
      BY <1>1, <1>2, <1>11, RequestMoves DEF TaskStep, Referred
    <2> QED BY <1>4, <1>11, <2>1, <2>2 DEF TaskStep
  <1>12. ASSUME NEW reason \in Reasons, RepeatStep(reason) PROVE Moves
    <2>1. OperationBegin(ref, reason) \in Requests
      BY <1>1, <1>12 DEF OperationBegin, Requests, References, RepeatStep
    <2>2. Carried(OperationBegin(ref, reason), ref)
      BY <1>1, <1>12 DEF Carried, OperationBegin, OfOp, RepeatStep, References
    <2>3. ~(ref.attempt > attempts)
      BY <1>1 DEF References
    <2> QED BY <1>6, <1>7, <1>12, <2>1, <2>2, <2>3 DEF RepeatStep, Leaves, Sends, Quietly
  <1>13. ASSUME NEW success \in BOOLEAN, NEW count \in Nat, ReportStep(success, count) PROVE Moves
    <2>1. CASE port = "ready"
      <3>1. EvictResult(ref, success, count) \in Requests
        BY <1>1, <1>13 DEF EvictResult, Requests, References
      <3>2. Carried(EvictResult(ref, success, count), ref)
        BY DEF Carried, EvictResult, OfOp
      <3> QED BY <1>6, <1>7, <1>13, <2>1, <3>1, <3>2 DEF ReportStep
    <2>2. CASE port # "ready"
      BY <1>9, <1>13, <2>2 DEF ReportStep
    <2> QED BY <2>1, <2>2
  <1>14. CASE ReceiveStep
    <2> DEFINE m == Head(inbox)
    <2>1. m \in Replies /\ Handled(m) /\ m = inbox[1] /\ inbox \in Seq(Replies) /\ Len(inbox) \in Nat /\ Len(inbox) > 0
      BY <1>14, TailShrinks DEF TypeOK, ReceiveStep, Shrunk
    <2> HIDE DEF m
    <2>2. CASE Closed(m)
      BY <1>5, <1>7, <2>2 DEF Closed
    <2>3. ASSUME NEW t, Greeted(m, t) PROVE Moves
      <3> DEFINE query == IF Bound(ref) THEN <<StatusQuery(ref)>> ELSE <<>>
      <3>1. t.ref \in References /\ t.out \in Seq(Requests) /\ Adopted(m) \in Groups
        <4> DEFINE recon == m.state \in {"unlocking", "evicting", "degraded"}
                   inval == ext.inval /\ m.state # "uninitialized"
        <4>1. recon \in BOOLEAN /\ inval \in BOOLEAN /\ m.state \in HostStates /\ m.lease \in Nat
          BY <1>1, <2>1, <2>3 DEF Groups, Replies, Greeted
        <4>2. Adopted(m) = [ext EXCEPT !.state = m.state, !.lease = m.lease, !.asked = "none",
                                       !.evicting = FALSE, !.recon = recon, !.inval = inval]
          BY DEF Adopted
        <4> HIDE DEF recon, inval
        <4>3. Adopted(m) \in Groups
          BY <1>1, <4>1, <4>2 DEF Groups
        <4> QED BY <1>1, <2>3, <4>3, RequestedType DEF Greeted
      <3>2. Fits(t.ref) /\ \A i \in 1 .. Len(t.out) : Carried(t.out[i], t.ref)
        BY <1>1, <1>2, <2>3, <3>1, RequestMoves DEF Greeted, Referred
      <3>3. query \in Seq(Requests) /\ \A i \in 1 .. Len(query) : Carried(query[i], t.ref)
        <4>1. StatusQuery(ref) \in Requests /\ Carried(StatusQuery(ref), t.ref)
          BY <1>1 DEF StatusQuery, Requests, References, Carried, OfOp
        <4> QED BY <4>1
      <3> HIDE DEF query
      <3>4. query \o t.out \in Seq(Requests) /\ \A i \in 1 .. Len(query \o t.out) : Carried((query \o t.out)[i], t.ref)
        <4>1. /\ query \o t.out \in Seq(Requests) /\ Len(query \o t.out) = Len(query) + Len(t.out)
              /\ \A i \in 1 .. Len(query) + Len(t.out) :
                    (query \o t.out)[i] = IF i <= Len(query) THEN query[i] ELSE t.out[i - Len(query)]
          BY <3>1, <3>3, ConcatProperties
        <4>2. Len(query) \in Nat /\ Len(t.out) \in Nat
          BY <3>1, <3>3, LenProperties
        <4> QED BY <3>2, <3>3, <4>1, <4>2
      <3> DEFINE both == query \o t.out
      <3>5. port # "none" => toHost' = toHost \o both
        BY <2>3 DEF Greeted, query
      <3> HIDE DEF both
      <3>6. CASE port # "none"
        <4>1. both \in Seq(Requests) /\ \A i \in 1 .. Len(both) : Carried(both[i], t.ref)
          BY <3>4 DEF both
        <4> QED BY <1>3, <2>3, <3>2, <3>5, <3>6, <4>1 DEF Greeted
      <3>7. CASE port = "none"
        <4>1. toHost' = toHost \o <<>> /\ \A i \in 1 .. Len(<<>>) : Carried(<<>>[i], t.ref)
          BY <1>1, <2>3, <3>7 DEF Greeted
        <4> QED BY <1>1, <1>3, <2>3, <3>2, <4>1 DEF Greeted
      <3> QED BY <3>6, <3>7
    <2>4. CASE Granted(m) \/ Ignoring(m) \/ Parting(m) \/ Resetting(m) \/ Forgetting(m)
      BY <1>5, <1>7, <2>4 DEF Granted, Ignoring, Parting, Resetting, Forgetting
    <2>5. ASSUME NEW r \in References, Enrolling(m, r) PROVE Moves
      <3>1. [ext EXCEPT !.lease = m.lease] \in Groups
        BY <1>1, <2>1, <2>5 DEF Enrolling, Groups, Replies
      <3>2. /\ r = ref \/ r.attempt = attempts + 1
            /\ r.op = 0 /\ r.kind = "enrollment" /\ r.phase \notin TerminalPhase
        BY <1>1, <2>5, <3>1, BegunType DEF Enrolling, Kinds
      <3>3. r.phase = "begin_pending"
        BY <1>2, <2>5, <3>2 DEF Enrolling, Begun, TerminalPhase, NoRef, Referred
      <3>4. OperationBegin(r, "enroll") \in Requests /\ Carried(OperationBegin(r, "enroll"), r)
        BY <3>2, <3>3 DEF OperationBegin, Requests, References, Reasons, Kinds, Carried, OfOp
      <3> QED BY <1>6, <2>5, <3>2, <3>3, <3>4 DEF Enrolling
    <2>6. ASSUME NEW success \in BOOLEAN, Restored(m, success) PROVE Moves
      <3>1. InjectResult(m.lease, success) \in Requests /\ Carried(InjectResult(m.lease, success), ref)
        BY <2>1, <2>6 DEF Restored, Replies, InjectResult, Requests, Carried, OfOp
      <3> QED BY <1>6, <1>7, <2>6, <3>1 DEF Restored
    <2>7. ASSUME NEW state, NEW recon, Denied(m, state, recon) PROVE Moves
      BY <1>5, <1>7, <2>7 DEF Denied
    <2>8. ASSUME NEW r \in References, NEW purpose \in {"commit", "removal_precheck"}
          PROVE  /\ SnapshotChunk(r, purpose, jar) \in Requests /\ RemovePrepare(r) \in Requests
                 /\ Carried(SnapshotChunk(r, purpose, jar), r) /\ Carried(RemovePrepare(r), r)
      BY <1>1, <2>8 DEF SnapshotChunk, RemovePrepare, Requests, References, Carried, OfOp
    <2>9. ASSUME NEW r \in References, Required(m, r) PROVE Moves
      <3>1. m.attempt = op.attempt /\ m.op = op.id /\ op.id # 0
        <4>1. /\ m.attempt <= op.attempt /\ m.attempt > 0 /\ (m.attempt = op.attempt => m.op = op.id)
          BY <2>1, <2>9 DEF Order, Past, Required
        <4>2. m.attempt \in Nat /\ op.attempt \in Nat
          BY <2>1, <2>9 DEF Required, Replies, TypeOK, Ops
        <4> QED BY <1>2, <2>9, <4>1, <4>2 DEF Required, Referred
      <3>2. r.op = op.id /\ r.attempt = ref.attempt /\ r.kind = ref.kind
        BY <1>1, <2>9, <3>1 DEF Required, References
      <3> QED BY <1>6, <2>8, <2>9, <3>1, <3>2 DEF Required
    <2>10. ASSUME NEW count \in Nat, Retaining(m, count) PROVE Moves
      <3> DEFINE success == count > 0
                 r == [ref EXCEPT !.phase = "committed"]
      <3>1. success \in BOOLEAN
        OBVIOUS
      <3>2. Leaves(ext, r, <<EvictResult(ref, success, count)>>) /\ ref.op # 0
        BY <2>10 DEF Retaining, BoundMessage
      <3>3. Fits(r) /\ r.op = ref.op
        BY <1>8, <3>2
      <3> HIDE DEF success, r
      <3>4. EvictResult(ref, success, count) \in Requests /\ Carried(EvictResult(ref, success, count), r)
        BY <1>1, <3>1, <3>3 DEF EvictResult, Requests, References, Carried, OfOp
      <3> QED BY <1>6, <3>2, <3>3, <3>4
    <2>11. ASSUME NEW r \in References, Preparing(m, r) PROVE Moves
      <3> DEFINE a == RemovePrepare(r)
                 b == SnapshotChunk(r, "removal_precheck", jar)
      <3>1. a \in Requests /\ b \in Requests /\ Carried(a, r) /\ Carried(b, r)
        BY <2>8
      <3>2. Leaves(ext, r, <<a, b>>) /\ Fits(r)
        BY <1>8, <2>11 DEF Preparing, BoundMessage
      <3> HIDE DEF a, b
      <3>3. <<a, b>> \in Seq(Requests) /\ \A i \in 1 .. Len(<<a, b>>) : Carried(<<a, b>>[i], r)
        BY <3>1
      <3> QED BY <1>4, <3>2, <3>3
    <2>12. CASE Resending(m)
      BY <1>1, <1>6, <1>7, <2>8, <2>12 DEF Resending
    <2>13. CASE GivingUp(m) \/ Removing(m)
      BY <1>5, <1>8, <2>13 DEF GivingUp, Removing, BoundMessage
    <2>14. ASSUME NEW t, Finishing(m, t) PROVE Moves
      <3> DEFINE over == [ref EXCEPT !.phase = "reconciliation_required"]
      <3>1. Succeeded(ext, ref.kind) \in Groups
        BY <1>1 DEF Succeeded, Groups, HostStates
      <3>2. Failed(ext) \in Groups
        <4>1. ext.tries + 1 \in Nat
          BY <1>1 DEF Groups
        <4> QED BY <1>1, <4>1 DEF Failed, Groups, HostStates
      <3>3. over \in References /\ over.attempt = ref.attempt /\ over.kind = ref.kind /\ over.op = ref.op /\ ref.op # 0
        <4>1. ref.op # 0
          BY <2>14 DEF Finishing, BoundMessage
        <4>2. over \in References
          BY <1>1, <4>1, PhaseType
        <4> QED BY <1>1, <4>1, <4>2 DEF References
      <3> HIDE DEF over
      <3>4. PICK e \in Groups, r \in {NoRef, over} : Requested(t, e, r)
        BY <1>1, <2>14, <3>1, <3>2 DEF Finishing, over
      <3>5. /\ r \in References
            /\ r = NoRef \/ (r.attempt = ref.attempt /\ r.kind = ref.kind /\ r.op = ref.op)
            /\ r.op = 0 => r.phase \in {"none", "begin_pending"}
        BY <1>1, <3>3 DEF NoRef
      <3>6. Fits(t.ref) /\ (\A i \in 1 .. Len(t.out) : Carried(t.out[i], t.ref)) /\ t.out \in Seq(Requests)
        BY <3>4, <3>5, RequestMoves, RequestedType
      <3> QED BY <1>4, <2>14, <3>6 DEF Finishing
    <2> QED BY <2>1, <2>2, <2>3, <2>4, <2>5, <2>6, <2>7, <2>9, <2>10, <2>11, <2>12, <2>13, <2>14
            DEF Handled, Handling
  <1> QED BY <1>10, <1>11, <1>12, <1>13, <1>14

\* What the host answers is about the journal's last operation, and a new one has
\* the attempt of the begin that it answers.
About(e, o) ==
    /\ e.type \in HasOp => e.op = o.id
    /\ e.type \notin OfOp \cup {"handshake.ack", "disconnect"}
    /\ e.type = "operation.snapshot_required" => e.attempt = o.attempt /\ o.phase = "NotCommitted"
SameOp ==
    /\ op'.id = op.id /\ op'.attempt = op.attempt /\ op'.kind = op.kind
    /\ op'.phase = "NotCommitted" => op.phase = "NotCommitted"
HostMoves ==
    \E out \in Seq(Replies) :
        /\ inbox' = inbox \o out /\ \A i \in 1 .. Len(out) : About(out[i], op')
        /\ \/ SameOp
           \/ /\ Head(toHost).type = "operation.begin" /\ op.attempt # Head(toHost).attempt
              /\ op'.id = op.id + 1 /\ op'.attempt = Head(toHost).attempt /\ op'.kind = Head(toHost).kind
              /\ op'.phase = "NotCommitted"

\* A handler of the host moves its operation only in the listed ways.
LEMMA HostStepMoves == ASSUME TypeOK, HostStep PROVE HostMoves
  <1> DEFINE m == Head(toHost)
             Begun2 == \/ SameOp
                       \/ /\ m.type = "operation.begin" /\ op.attempt # m.attempt
                          /\ op'.id = op.id + 1 /\ op'.attempt = m.attempt /\ op'.kind = m.kind
                          /\ op'.phase = "NotCommitted"
  <1>1. m \in Requests /\ Outcome(m)
    BY TailShrinks DEF TypeOK, HostStep
  <1>2. op \in Ops /\ inbox \in Seq(Replies) /\ vault \in Cookies /\ leases \in Nat
    BY DEF TypeOK
  <1> HIDE DEF m
  <1>3. ASSUME NEW out \in Seq(Replies), inbox' = inbox \o out, Begun2,
               \A i \in 1 .. Len(out) : About(out[i], op')
        PROVE  HostMoves
    BY <1>3 DEF HostMoves, m
  <1> HIDE DEF Begun2
  <1>4. ASSUME inbox' = inbox, Begun2 PROVE HostMoves
    <2>1. inbox \o <<>> = inbox /\ <<>> \in Seq(Replies) /\ \A i \in 1 .. Len(<<>>) : About(<<>>[i], op')
      BY <1>2, CatNothing
    <2> QED BY <1>3, <1>4, <2>1
  <1>5. ASSUME NEW e \in Replies, Says(e), Begun2, About(e, op') PROVE HostMoves
    <2>1. <<e>> \in Seq(Replies) /\ \A i \in 1 .. Len(<<e>>) : About(<<e>>[i], op')
      BY <1>5
    <2> QED BY <1>3, <1>4, <1>5, <2>1 DEF Says
  <1>6. ASSUME op' = op PROVE Begun2
    BY <1>6 DEF Begun2, SameOp
  <1>7. ASSUME NEW t \in {"lease.deny", "operation.error", "session.invalidated"}
        PROVE  Told(t) \in Replies /\ About(Told(t), op')
    BY <1>7 DEF Told, Replies, About, HasOp, OfOp
  <1>8. CASE Refused(m)
    BY <1>5, <1>6, <1>7, <1>8 DEF Refused, Same
  <1>9. /\ LeaseGrant(leases + 1) \in Replies /\ Inject(leases + 1, vault) \in Replies
        /\ About(LeaseGrant(leases + 1), op') /\ About(Inject(leases + 1, vault), op')
    <2>1. leases + 1 \in Nat
      BY <1>2
    <2> QED BY <1>2, <2>1 DEF LeaseGrant, Inject, Replies, About, HasOp, OfOp
  <1>10. CASE Enrolled(m)
    BY <1>5, <1>6, <1>9, <1>10 DEF Enrolled
  <1>11. CASE Unlocked(m)
    <2> DEFINE a == LeaseGrant(leases + 1)
               b == Inject(leases + 1, vault)
    <2>1. port # "none" => inbox' = (inbox \o <<a>>) \o <<b>>
      BY <1>11 DEF Unlocked
    <2>2. a \in Replies /\ b \in Replies /\ About(a, op') /\ About(b, op')
      BY <1>9
    <2>3. Begun2
      BY <1>6, <1>11 DEF Unlocked
    <2>4. port = "none" => inbox' = inbox
      BY <1>11 DEF Unlocked
    <2> HIDE DEF a, b
    <2>5. <<a, b>> \in Seq(Replies) /\ \A i \in 1 .. Len(<<a, b>>) : About(<<a, b>>[i], op')
      BY <2>2
    <2>6. inbox \o <<a, b>> = (inbox \o <<a>>) \o <<b>>
      BY <1>2, <2>2, CatTwice
    <2> QED BY <1>3, <1>4, <2>1, <2>3, <2>4, <2>5, <2>6
  <1>12. ASSUME op'.id = op.id
         PROVE  /\ Status(op) \in Replies /\ About(Status(op), op')
                /\ Authorized(op) \in Replies /\ About(Authorized(op), op')
                /\ Confirmed(op) \in Replies /\ About(Confirmed(op), op')
                /\ \A success \in BOOLEAN : Completed(op, success) \in Replies /\ About(Completed(op, success), op')
    <2>1. op.id \in Nat
      BY <1>2 DEF Ops
    <2>2. Status(op) \in Replies
      <3>1. Status(op).action \in {"send_snapshot", "prepare_removal", "completed", "reconciliation_required"}
        BY DEF Status
      <3>2. Status(op) = [type |-> "operation.status", op |-> op.id, action |-> Status(op).action]
        BY DEF Status
      <3> QED BY <2>1, <3>1, <3>2 DEF Replies
    <2>3. About(Status(op), op') /\ About(Authorized(op), op') /\ Authorized(op) \in Replies
      BY <1>12, <2>1 DEF Status, Authorized, About, HasOp, OfOp, Replies
    <2>4. Confirmed(op) \in Replies /\ About(Confirmed(op), op')
      <3> DEFINE retain == op.kind = "enrollment"
      <3>1. retain \in BOOLEAN
        OBVIOUS
      <3>2. Confirmed(op) = [type |-> "evict.confirmed", op |-> op.id, retain |-> retain]
        BY DEF Confirmed
      <3> HIDE DEF retain
      <3> QED BY <1>12, <2>1, <3>1, <3>2 DEF About, HasOp, OfOp, Replies
    <2>5. \A success \in BOOLEAN : Completed(op, success) \in Replies /\ About(Completed(op, success), op')
      BY <1>12, <2>1 DEF Completed, About, HasOp, OfOp, Replies
    <2> QED BY <2>2, <2>3, <2>4, <2>5
  <1>13. ASSUME op' \in Ops, op'.phase = "NotCommitted"
         PROVE  SnapshotRequired(op') \in Replies /\ About(SnapshotRequired(op'), op')
    BY <1>13 DEF SnapshotRequired, Replies, About, HasOp, OfOp, Ops
  <1>14. CASE Repeated(m)
    <2>1. op' = op
      BY <1>14 DEF Repeated, Same
    <2>2. CASE op.phase = "NotCommitted"
      BY <1>2, <1>5, <1>6, <1>13, <1>14, <2>1, <2>2 DEF Repeated
    <2>3. CASE op.phase # "NotCommitted"
      BY <1>5, <1>6, <1>12, <1>14, <2>1, <2>3 DEF Repeated
    <2> QED BY <2>2, <2>3
  <1>15. CASE Started(m)
    <2>1. op' \in Ops /\ op'.phase = "NotCommitted"
      BY HostTypes, <1>15 DEF Started
    <2>2. Begun2
      BY <1>15 DEF Started, Begun2
    <2> QED BY <1>5, <1>13, <1>15, <2>1, <2>2 DEF Started
  <1>16. CASE Answered(m)
    BY <1>5, <1>6, <1>12, <1>16 DEF Answered
  <1>17. ASSUME NEW phase, phase # "NotCommitted", NEW state, NEW lease, Ended(phase, state, lease)
         PROVE  Begun2 /\ op'.id = op.id
    BY <1>2, <1>17 DEF Ended, Begun2, SameOp, Ops
  <1>18. CASE Dropped(m)
    BY <1>5, <1>7, <1>17, <1>18 DEF Dropped
  <1>19. CASE Stored(m)
    <2>1. Begun2 /\ op'.id = op.id
      BY <1>2, <1>19 DEF Stored, Begun2, SameOp, Ops
    <2> QED BY <1>5, <1>12, <1>19, <2>1 DEF Stored
  <1>20. CASE Checked(m)
    BY <1>5, <1>6, <1>12, <1>20 DEF Checked
  <1>21. ASSUME NEW success \in BOOLEAN, Lost(m, success) PROVE HostMoves
    BY <1>5, <1>12, <1>17, <1>21 DEF Lost
  <1>22. CASE Noted(m)
    BY <1>4, <1>5, <1>6, <1>7, <1>22 DEF Noted
  <1>23. CASE Prepared(m) \/ Injected(m)
    BY <1>4, <1>6, <1>23 DEF Prepared, Injected
  <1>24. CASE Retained(m) \/ Sealed(m)
    BY <1>5, <1>12, <1>17, <1>24 DEF Retained, Sealed
  <1>25. CASE Invalidated(m)
    BY <1>5, <1>6, <1>7, <1>25 DEF Invalidated
  <1> QED BY <1>1, <1>8, <1>10, <1>11, <1>14, <1>15, <1>16, <1>18, <1>19, <1>20, <1>21, <1>22, <1>23,
             <1>24, <1>25 DEF Outcome

\* A queue with more at its end: where its elements come from.
LEMMA CatElements ==
    ASSUME NEW S, NEW s \in Seq(S), NEW t \in Seq(S)
    PROVE  /\ s \o t \in Seq(S) /\ Len(s \o t) = Len(s) + Len(t) /\ Len(s) \in Nat /\ Len(t) \in Nat
           /\ \A i \in 1 .. Len(s) : (s \o t)[i] = s[i]
           /\ \A i \in 1 .. Len(s \o t) : i > Len(s) => i - Len(s) \in 1 .. Len(t) /\ (s \o t)[i] = t[i - Len(s)]
  <1>1. /\ s \o t \in Seq(S) /\ Len(s \o t) = Len(s) + Len(t)
        /\ \A i \in 1 .. Len(s) + Len(t) : (s \o t)[i] = IF i <= Len(s) THEN s[i] ELSE t[i - Len(s)]
    BY ConcatProperties
  <1>2. Len(s) \in Nat /\ Len(t) \in Nat
    BY LenProperties
  <1> QED BY <1>1, <1>2

\* Past and Queued of a queue that loses its first message, or gets more.
LEMMA PastTail ==
    ASSUME NEW S, NEW s \in Seq(S), NEW o, Past(s, o), s # <<>> PROVE Past(Tail(s), o)
  <1>1. Shrunk(s, Tail(s)) /\ Len(s) \in Nat /\ Len(Tail(s)) \in Nat
    BY TailShrinks, LenProperties
  <1>2. \A i \in 1 .. Len(Tail(s)) : i + 1 \in 1 .. Len(s) /\ Tail(s)[i] = s[i + 1]
    BY <1>1 DEF Shrunk
  <1> QED BY <1>2 DEF Past

\* Two queues whose messages are of past operations, one after the other.
LEMMA PastCat ==
    ASSUME NEW S, NEW s \in Seq(S), NEW t \in Seq(S), NEW o, Past(s, o), Past(t, o) PROVE Past(s \o t, o)
  <1>1. \A i \in 1 .. Len(s \o t) :
           \/ i \in 1 .. Len(s) /\ (s \o t)[i] = s[i]
           \/ \E j \in 1 .. Len(t) : (s \o t)[i] = t[j]
    <2> DEFINE u == s \o t
    <2>1. /\ Len(u) = Len(s) + Len(t) /\ Len(s) \in Nat /\ Len(t) \in Nat
          /\ \A i \in 1 .. Len(s) : u[i] = s[i]
          /\ \A i \in 1 .. Len(u) : i > Len(s) => i - Len(s) \in 1 .. Len(t) /\ u[i] = t[i - Len(s)]
      BY CatElements
    <2> HIDE DEF u
    <2>2. \A i \in 1 .. Len(u) : i \in 1 .. Len(s) \/ i > Len(s)
      BY <2>1
    <2> QED BY <2>1, <2>2 DEF u
  <1> QED BY <1>1 DEF Past

\* The attempts in a queue stay in order when its first message is taken.
LEMMA QueuedTail ==
    ASSUME NEW s \in Seq(Requests), NEW r, NEW o, NEW n, Queued(s, r, o, n), s # <<>>
    PROVE  /\ Queued(Tail(s), r, o, n)
           /\ s[1].type = "operation.begin" =>
                 \A q \in 1 .. Len(Tail(s)) : Tail(s)[q].type = "operation.begin" =>
                    /\ s[1].attempt <= Tail(s)[q].attempt
                    /\ s[1].attempt = Tail(s)[q].attempt => s[1].kind = Tail(s)[q].kind
  <1>1. Shrunk(s, Tail(s)) /\ Len(s) \in Nat /\ Len(Tail(s)) \in Nat
    BY TailShrinks, LenProperties
  <1>2. \A i \in 1 .. Len(Tail(s)) : i + 1 \in 1 .. Len(s) /\ Tail(s)[i] = s[i + 1] /\ 1 < i + 1
    BY <1>1 DEF Shrunk
  <1>3. 1 \in 1 .. Len(s)
    BY <1>1 DEF Shrunk
  <1>4. \A p, q \in 1 .. Len(Tail(s)) : p < q => p + 1 < q + 1
    BY <1>1
  <1> QED BY <1>2, <1>3, <1>4 DEF Queued

\* They stay in order when messages that carry the present reference are added.
LEMMA QueuedCat ==
    ASSUME NEW s \in Seq(Requests), NEW t \in Seq(Requests), NEW r \in References, NEW o \in Ops, NEW n \in Nat,
           Queued(s, r, o, n), Referred(r, o, n), r.attempt <= n, \A i \in 1 .. Len(t) : Carried(t[i], r)
    PROVE  Queued(s \o t, r, o, n)
  <1>1. /\ Len(s \o t) = Len(s) + Len(t) /\ Len(s) \in Nat /\ Len(t) \in Nat
        /\ \A i \in 1 .. Len(s) : (s \o t)[i] = s[i]
        /\ \A i \in 1 .. Len(s \o t) : i > Len(s) => i - Len(s) \in 1 .. Len(t) /\ (s \o t)[i] = t[i - Len(s)]
    BY CatElements
  <1> DEFINE u == s \o t
  <1>2. \A i \in 1 .. Len(u) : (i \in 1 .. Len(s) /\ u[i] = s[i]) \/ (i > Len(s) /\ Carried(u[i], r))
    <2>1. \A i \in 1 .. Len(u) : i \in 1 .. Len(s) \/ i > Len(s)
      BY <1>1
    <2> QED BY <1>1, <2>1
  <1>3. r.phase = "begin_pending" => r.attempt # 0 /\ r.attempt \in Nat /\ o.attempt \in Nat /\ r.kind # "none"
    BY DEF References, Ops
  <1>4. Len(u) = Len(s) + Len(t)
    BY <1>1
  <1> HIDE DEF u
  <1> SUFFICES ASSUME NEW q \in 1 .. Len(u), u[q].type = "operation.begin"
               PROVE  /\ u[q].attempt # 0 /\ o.attempt <= u[q].attempt /\ u[q].attempt <= n
                      /\ r.attempt # 0 => u[q].attempt <= r.attempt
                      /\ u[q].attempt = r.attempt => u[q].kind = r.kind
                      /\ u[q].attempt = o.attempt => u[q].kind = o.kind
                      /\ \A p \in 1 .. Len(u) : p < q /\ u[p].type = "operation.begin" =>
                            /\ u[p].attempt <= u[q].attempt
                            /\ u[p].attempt = u[q].attempt => u[p].kind = u[q].kind
    BY DEF Queued, u
  <1>5. CASE q \in 1 .. Len(s) /\ u[q] = s[q]
    <2>1. \A p \in 1 .. Len(u) : p < q => p \in 1 .. Len(s) /\ u[p] = s[p]
      BY <1>1, <1>2, <1>4, <1>5
    <2> QED BY <1>5, <2>1 DEF Queued
  <1>6. CASE q > Len(s) /\ Carried(u[q], r)
    <2>1. u[q].attempt = r.attempt /\ u[q].kind = r.kind /\ r.phase = "begin_pending"
      BY <1>6 DEF Carried
    <2>2. \A p \in 1 .. Len(u) : u[p].type = "operation.begin" =>
             u[p].attempt <= r.attempt /\ (u[p].attempt = r.attempt => u[p].kind = r.kind)
      BY <1>2, <1>3, <2>1 DEF Queued, Carried
    <2> QED BY <1>3, <2>1, <2>2 DEF Referred
  <1> QED BY <1>2, <1>5, <1>6

\* The order of attempts holds and is kept.
LEMMA OrderStart == Init => Order
  <1>1. Len(<<>>) = 0
    OBVIOUS
  <1> QED BY <1>1 DEF Init, Order, Referred, Queued, Past, NoRef, NoOp

\* Every step keeps the order of attempts.
LEMMA OrderKept == ASSUME TypeOK, TypeOK', Order, Step PROVE Order'
  <1>1. /\ ref \in References /\ op \in Ops /\ attempts \in Nat /\ toHost \in Seq(Requests)
        /\ inbox \in Seq(Replies) /\ ref'.attempt <= attempts' /\ ref.attempt <= attempts
        /\ ref' \in References /\ op' \in Ops /\ attempts' \in Nat /\ toHost' \in Seq(Requests)
    BY DEF TypeOK
  <1>2. Referred(ref, op, attempts) /\ Queued(toHost, ref, op, attempts) /\ Past(toHost, op) /\ Past(inbox, op)
    BY DEF Order
  <1>3. SUFFICES /\ Referred(ref', op', attempts') /\ Queued(toHost', ref', op', attempts')
                 /\ Past(toHost', op') /\ Past(inbox', op')
    BY DEF Order, Referred, Queued, Past
  <1>4. ASSUME NEW o PROVE Past(<<>>, o) /\ Past(<<Told("disconnect")>>, o)
    BY DEF Past, Told, HasOp, OfOp
  <1>5. Told("disconnect") \in Replies /\ <<Told("disconnect")>> \in Seq(Replies)
    <2>1. Told("disconnect") \in Replies
      BY DEF Told, Replies
    <2> QED BY <2>1
  <1>6. CASE HostStep
    <2> DEFINE m == Head(toHost)
    <2>1. PICK out \in Seq(Replies) :
             /\ inbox' = inbox \o out /\ \A i \in 1 .. Len(out) : About(out[i], op')
             /\ \/ SameOp
                \/ /\ m.type = "operation.begin" /\ op.attempt # m.attempt
                   /\ op'.id = op.id + 1 /\ op'.attempt = m.attempt /\ op'.kind = m.kind
                   /\ op'.phase = "NotCommitted"
      BY <1>6, HostStepMoves DEF HostMoves
    <2>2. /\ toHost # <<>> /\ toHost' = Tail(toHost) /\ ref' = ref /\ attempts' = attempts
          /\ m = toHost[1] /\ 1 \in 1 .. Len(toHost) /\ m \in Requests
      <3>1. toHost # <<>> /\ toHost' = Tail(toHost) /\ ref' = ref /\ attempts' = attempts
        BY <1>6 DEF HostStep, Quietly
      <3>2. Shrunk(toHost, Tail(toHost)) /\ m = toHost[1] /\ m \in Requests /\ Len(toHost) \in Nat
        BY <1>1, <3>1, TailShrinks, LenProperties
      <3> QED BY <3>1, <3>2 DEF Shrunk
    <2> HIDE DEF m
    <2>3. /\ Queued(Tail(toHost), ref, op, attempts) /\ Past(Tail(toHost), op)
          /\ m.type = "operation.begin" =>
                 \A q \in 1 .. Len(Tail(toHost)) : Tail(toHost)[q].type = "operation.begin" =>
                    /\ m.attempt <= Tail(toHost)[q].attempt
                    /\ m.attempt = Tail(toHost)[q].attempt => m.kind = Tail(toHost)[q].kind
      BY <1>1, <1>2, <2>2, QueuedTail, PastTail
    <2>4. op'.attempt \in Nat /\ op.attempt \in Nat /\ op'.id \in Nat /\ op.id \in Nat /\ ref.attempt \in Nat
      BY <1>1 DEF Ops, References
    <2>5. m.type = "operation.begin" =>
             /\ m.attempt # 0 /\ op.attempt <= m.attempt /\ m.attempt <= attempts
             /\ ref.attempt # 0 => m.attempt <= ref.attempt
             /\ m.attempt = ref.attempt => m.kind = ref.kind
             /\ m.attempt \in Nat /\ m.kind \in Kinds
      BY <1>2, <2>2 DEF Queued, Requests
    <2>6. op'.phase = "NotCommitted" => op'.attempt > 0
      BY <1>2, <2>1, <2>4, <2>5 DEF Referred, SameOp
    <2>7. Past(out, op')
      <3>1. ASSUME NEW i \in 1 .. Len(out) PROVE About(out[i], op')
        BY <2>1
      <3>2. op'.id <= op'.id /\ op'.attempt <= op'.attempt
        BY <2>4
      <3> QED BY <2>6, <3>1, <3>2 DEF Past, About, HasOp, OfOp
    <2>8. Past(inbox, op') /\ Past(Tail(toHost), op')
      <3>1. CASE SameOp
        BY <1>2, <2>3, <3>1 DEF Past, SameOp
      <3>2. CASE ~SameOp
        <4>1. op.id < op'.id /\ op.attempt < op'.attempt
          BY <2>1, <2>4, <2>5, <3>2
        <4>2. \A x \in Nat : (x <= op.id => x <= op'.id) /\ (x <= op.attempt => x < op'.attempt)
          BY <2>4, <4>1
        <4>3. Past(inbox, op')
          <5>1. \A i \in 1 .. Len(inbox) : inbox[i] \in Replies
            BY <1>1, ElementOfSeq
          <5>2. \A i \in 1 .. Len(inbox) : /\ inbox[i].type \in HasOp \cup OfOp => inbox[i].op \in Nat
                                           /\ inbox[i].type = "operation.snapshot_required" => inbox[i].attempt \in Nat
            BY <5>1 DEF Replies, HasOp, OfOp
          <5> QED BY <1>2, <2>4, <4>2, <5>2 DEF Past
        <4>4. Past(Tail(toHost), op')
          <5>1. \A i \in 1 .. Len(Tail(toHost)) : Tail(toHost)[i] \in Requests
            BY <1>1, <2>2, ElementOfSeq
          <5>2. \A i \in 1 .. Len(Tail(toHost)) : LET e == Tail(toHost)[i] IN
                                           /\ e.type \in HasOp \cup OfOp => e.op \in Nat
                                           /\ e.type # "operation.snapshot_required"
            BY <5>1 DEF Requests, HasOp, OfOp
          <5> QED BY <2>3, <2>4, <4>2, <5>2 DEF Past
        <4> QED BY <4>3, <4>4
      <3> QED BY <3>1, <3>2
    <2>9. Past(inbox', op')
      BY <1>1, <2>1, <2>7, <2>8, PastCat
    <2>10. Referred(ref, op', attempts)
      BY <1>2, <2>1, <2>4, <2>5 DEF Referred, SameOp, Kinds, Past
    <2>11. Queued(Tail(toHost), ref, op', attempts)
      <3>1. CASE SameOp
        BY <2>3, <3>1 DEF Queued, SameOp
      <3>2. CASE ~SameOp
        BY <2>1, <2>3, <3>2 DEF Queued
      <3> QED BY <3>1, <3>2
    <2> QED BY <2>2, <2>8, <2>9, <2>10, <2>11
  <1>7. CASE EndStep
    <2>1. toHost' = <<>> /\ UNCHANGED <<inbox, op, ref, attempts>>
      BY <1>7 DEF EndStep, Quietly
    <2>2. Queued(<<>>, ref, op, attempts)
      BY DEF Queued
    <2> QED BY <1>2, <1>4, <2>1, <2>2
  <1>8. CASE ConnectStep
    <2>1. /\ toHost' = toHost /\ ref' = ref /\ attempts' = attempts /\ inbox' = <<Ack(Restarted)>>
          /\ SameOp
      BY <1>1, <1>8 DEF ConnectStep, Quietly, SameOp, Ops
    <2>2. Past(<<Ack(Restarted)>>, op')
      BY DEF Past, Ack, HasOp, OfOp
    <2>3. Referred(ref, op', attempts) /\ Queued(toHost, ref, op', attempts) /\ Past(toHost, op')
      BY <1>2, <2>1 DEF Referred, Queued, Past, SameOp
    <2> QED BY <2>1, <2>2, <2>3
  <1>9. CASE \/ ReceiveStep \/ (\E t : TaskStep(t)) \/ (\E reason \in Reasons : RepeatStep(reason))
             \/ HangStep \/ TurnStep \/ (\E success \in BOOLEAN, count \in Nat : ReportStep(success, count))
             \/ StopStep \/ RestStep
    <2>1. PICK out \in Seq(Requests) :
            /\ toHost' = toHost \o out /\ \A i \in 1 .. Len(out) : Carried(out[i], ref')
            /\ \/ /\ ref'.attempt = ref.attempt /\ ref'.kind = ref.kind /\ attempts' = attempts
                  /\ ref'.op = ref.op \/ (ref'.op = op.id /\ ref.attempt = op.attempt /\ op.id # 0)
               \/ ref' = NoRef /\ attempts' = attempts
               \/ ref'.attempt = attempts + 1 /\ attempts' = attempts + 1 /\ ref'.op = 0
            /\ ref'.op = 0 => ref'.phase \in {"none", "begin_pending"}
      BY <1>9, ControlMoves DEF Moves
    <2>2. op' = op
      BY <1>9 DEF ReceiveStep, TaskStep, RepeatStep, HangStep, TurnStep, ReportStep, StopStep, RestStep, Apart
    <2>3. op.attempt \in Nat /\ op.id \in Nat /\ ref.attempt \in Nat /\ op.attempt <= attempts
      BY <1>1, <1>2 DEF Ops, References, Referred
    <2>4. Referred(ref', op, attempts')
      BY <1>1, <1>2, <2>1, <2>3 DEF Referred, NoRef
    <2>5. Queued(toHost, ref', op, attempts')
      <3>1. \A q \in 1 .. Len(toHost) : toHost[q].type = "operation.begin" => toHost[q].attempt \in Nat
        <4>1. \A q \in 1 .. Len(toHost) : toHost[q] \in Requests
          BY <1>1, ElementOfSeq
        <4> QED BY <4>1 DEF Requests
      <3>2. CASE ref'.attempt = ref.attempt /\ ref'.kind = ref.kind /\ attempts' = attempts
        BY <1>2, <3>2 DEF Queued
      <3>3. CASE ref' = NoRef /\ attempts' = attempts
        BY <1>2, <3>3 DEF Queued, NoRef
      <3>4. CASE ref'.attempt = attempts + 1 /\ attempts' = attempts + 1
        <4>1. \A x \in Nat : x <= attempts => x <= attempts + 1 /\ x # attempts + 1
          BY <1>1
        <4> QED BY <1>2, <3>1, <3>4, <4>1 DEF Queued
      <3> QED BY <2>1, <3>2, <3>3, <3>4
    <2>6. Queued(toHost', ref', op, attempts')
      BY <1>1, <2>1, <2>4, <2>5, QueuedCat
    <2>7. Past(toHost', op)
      <3>1. ref'.op \in Nat /\ ref'.op <= op.id
        BY <1>1, <2>3, <2>4 DEF Referred, References
      <3>2. \A i \in 1 .. Len(out) : out[i] \in Requests
        BY ElementOfSeq
      <3>3. \A i \in 1 .. Len(out) : out[i].type \notin HasOp
        BY <3>2 DEF Requests, HasOp
      <3>4. Past(out, op)
        BY <2>1, <3>1, <3>3 DEF Past, Carried, HasOp
      <3> QED BY <1>1, <1>2, <2>1, <3>4, PastCat
    <2>8. Past(inbox', op)
      <3>1. inbox # <<>> => Tail(inbox) \in Seq(Replies) /\ Past(Tail(inbox), op)
        BY <1>1, <1>2, TailShrinks, PastTail
      <3>2. /\ Past(inbox \o <<Told("disconnect")>>, op)
            /\ inbox # <<>> => Past(Tail(inbox) \o <<Told("disconnect")>>, op)
        BY <1>1, <1>2, <1>4, <1>5, <3>1, PastCat
      <3>3. inbox # <<>> => Append(Tail(inbox), Told("disconnect")) = Tail(inbox) \o <<Told("disconnect")>>
        BY <1>5, <3>1, AppendIsConcat
      <3>4. \/ inbox' = inbox \/ inbox' = <<>> \/ inbox' = inbox \o <<Told("disconnect")>>
            \/ inbox # <<>> /\ inbox' = Tail(inbox)
            \/ inbox # <<>> /\ inbox' = Append(Tail(inbox), Told("disconnect"))
        BY <1>9 DEF ReceiveStep, Handled, Closed, TaskStep, RepeatStep, HangStep, TurnStep, ReportStep,
             StopStep, RestStep
      <3> QED BY <1>2, <1>4, <3>1, <3>2, <3>3, <3>4
    <2> QED BY <2>2, <2>4, <2>6, <2>7, <2>8
  <1> QED BY <1>6, <1>7, <1>8, <1>9 DEF Step

\* What is in a queue after a step was there before, one place later, or is new.
LEMMA TailElements ==
    ASSUME NEW S, NEW s \in Seq(S), s # <<>>
    PROVE  /\ Tail(s) \in Seq(S) /\ Head(s) = s[1] /\ 1 \in 1 .. Len(s) /\ Len(Tail(s)) = Len(s) - 1
           /\ Len(s) \in Nat /\ Len(Tail(s)) \in Nat
           /\ \A i \in 1 .. Len(Tail(s)) : i + 1 \in 1 .. Len(s) /\ Tail(s)[i] = s[i + 1]
           /\ \A i \in 1 .. Len(s) : i = 1 \/ (i - 1 \in 1 .. Len(Tail(s)) /\ Tail(s)[i - 1] = s[i])
  <1>1. Tail(s) \in Seq(S) /\ Shrunk(s, Tail(s)) /\ Head(s) = s[1] /\ Len(s) \in Nat /\ Len(Tail(s)) \in Nat
    BY TailShrinks, LenProperties
  <1> QED BY <1>1 DEF Shrunk

\* What is in the inbox after the host answered: its answer comes last, and it is
\* dropped when no port is open.
LEMMA SaysElements ==
    ASSUME inbox \in Seq(Replies), NEW e \in Replies, Says(e)
    PROVE  /\ Len(inbox) \in Nat /\ Len(inbox') \in Nat
           /\ port = "none" => inbox' = inbox
           /\ port # "none" => Len(inbox') = Len(inbox) + 1 /\ inbox'[Len(inbox')] = e
           /\ \A i \in 1 .. Len(inbox) : i \in 1 .. Len(inbox') /\ inbox'[i] = inbox[i]
           /\ \A i \in 1 .. Len(inbox') : i \in 1 .. Len(inbox) \/ (i = Len(inbox') /\ inbox'[i] = e)
  <1>1. Len(inbox) \in Nat
    BY LenProperties
  <1>2. CASE port = "none"
    BY <1>1, <1>2 DEF Says
  <1>3. CASE port # "none"
    <2>1. Grown(inbox, inbox', e) /\ inbox' \in Seq(Replies)
      BY <1>3, CatGrows DEF Says
    <2> QED BY <1>1, <1>3, <2>1 DEF Grown
  <1> QED BY <1>2, <1>3

-----------------------------------------------------------------------------
(* The host, its port and its vault.                                       *)

Committed == op.phase = "BrowserRemovalPending"

\* The pending operation is the journal's unresolved one, and it is confirmed when
\* the vault has its snapshot.
Pended ==
    /\ host.pending.on => Unresolved /\ host.up
    /\ ~host.pending.on => host.pending = NoPending
    /\ host.pending.on => (host.pending.confirmed <=> Committed)
    /\ op.phase = "NotCommitted" /\ host.up => host.pending.on

\* The host's state fits its journal and its vault.
Stated ==
    /\ Unresolved => host.state \in {"evicting", "degraded"}
    /\ Committed => vault # Empty
    /\ host.up /\ vault = Empty => host.state \in {"uninitialized", "evicting"}
    /\ host.state = "sealed" => op.kind # "enrollment"

\* A port has a host, whose first message is its state.
Ported ==
    /\ port # "none" => host.up
    /\ ~host.up => toHost = <<>>
    /\ port = "open" => inbox = <<Ack(host)>> /\ toHost = <<>> /\ loop.at = "idle"
    /\ port = "ready" => \A i \in 1 .. Len(inbox) : inbox[i].type \notin {"handshake.ack", "disconnect"}

\* While a committed operation waits to be resumed nobody invalidates the session.
Resumable ==
    Committed /\ ~host.pending.on =>
        /\ \A q \in 1 .. Len(toHost) : toHost[q].type # "session.invalidate"
        /\ port = "ready" =>
              /\ ext.state # "leased"
              /\ \A i \in 1 .. Len(inbox) : inbox[i].type \in {"lease.deny", "operation.error", "operation.status"}

HostFacts == Pended /\ Stated /\ Ported /\ Resumable

\* They hold in the initial state.
LEMMA HostFactsStart == Init => HostFacts
  BY DEF Init, HostFacts, Pended, Stated, Ported, Resumable, Unresolved, Committed, NoOp, NoPending

\* A handler of the host keeps them.
LEMMA HostFactsHost == ASSUME TypeOK, TypeOK', HostFacts, HostStep PROVE HostFacts'
  <1> DEFINE m == Head(toHost)
  <1>1. /\ host.up /\ toHost # <<>> /\ toHost' = Tail(toHost) /\ Outcome(m)
        /\ ext' = ext /\ port' = port /\ loop' = loop
    BY DEF HostStep, Quietly, Still
  <1>2. /\ host \in HostsSet /\ host' \in HostsSet /\ op \in Ops /\ op' \in Ops /\ vault \in Cookies /\ leases \in Nat
        /\ inbox \in Seq(Replies) /\ toHost \in Seq(Requests)
    BY DEF TypeOK
  <1>3. Pended /\ Stated /\ Ported /\ Resumable
    BY DEF HostFacts
  <1>4. /\ m \in Requests /\ m = toHost[1] /\ 1 \in 1 .. Len(toHost)
        /\ \A q \in 1 .. Len(Tail(toHost)) : \E p \in 1 .. Len(toHost) : Tail(toHost)[q] = toHost[p]
    BY <1>1, <1>2, TailElements
  <1> HIDE DEF m
  <1>5. PICK out \in Seq(Replies) : inbox' = inbox \o out /\ \A i \in 1 .. Len(out) : About(out[i], op')
    BY HostStepMoves DEF HostMoves
  <1>6. Ported'
    <2>1. port # "open" /\ host'.up
      <3>1. host'.up = host.up
        BY <1>1, <1>2 DEF Outcome, Refused, Enrolled, Unlocked, Repeated, Started, Answered, Dropped, Stored, Checked,
             Lost, Noted, Prepared, Retained, Sealed, Injected, Invalidated, Same, Ended, HostsSet
      <3> QED BY <1>1, <1>3, <3>1 DEF Ported
    <2>2. \A i \in 1 .. Len(inbox') : (i \in 1 .. Len(inbox) /\ inbox'[i] = inbox[i]) \/ About(inbox'[i], op')
      <3>1. /\ Len(inbox') = Len(inbox) + Len(out) /\ Len(inbox) \in Nat /\ Len(out) \in Nat
            /\ \A i \in 1 .. Len(inbox) : inbox'[i] = inbox[i]
            /\ \A i \in 1 .. Len(inbox') : i > Len(inbox) => i - Len(inbox) \in 1 .. Len(out) /\ inbox'[i] = out[i - Len(inbox)]
        BY <1>2, <1>5, CatElements
      <3>2. \A i \in 1 .. Len(inbox') : i \in 1 .. Len(inbox) \/ i > Len(inbox)
        BY <3>1
      <3> QED BY <1>5, <3>1, <3>2
    <2>3. \A i \in 1 .. Len(inbox') : About(inbox'[i], op') => inbox'[i].type \notin {"handshake.ack", "disconnect"}
      BY DEF About
    <2> QED BY <1>1, <1>3, <2>1, <2>2, <2>3 DEF Ported
  <1>7. Pended' /\ Stated'
    <2>1. CASE Refused(m) \/ Repeated(m)
      BY <1>3, <2>1 DEF Refused, Repeated, Same, Pended, Stated, Unresolved, Committed
    <2>2. CASE Enrolled(m) \/ Unlocked(m)
      BY <1>2, <1>3, <2>2 DEF Enrolled, Unlocked, Free, Pended, Stated, Unresolved, Committed, HostsSet
    <2>3. CASE Started(m)
      BY <1>1, <1>2, <1>3, <2>3 DEF Started, Free, Pended, Stated, Unresolved, Committed, HostsSet, NoPending
    <2>4. CASE Answered(m)
      BY <1>1, <1>2, <1>3, <2>4 DEF Answered, Pended, Stated, Unresolved, Committed, HostsSet
    <2>5. ASSUME NEW phase \in {"Completed", "Aborted", "ReconciliationRequired"}, NEW state \in HostStates, NEW lease,
                 Ended(phase, state, lease), state = "sealed" => op.kind # "enrollment",
                 state # "uninitialized" => vault # Empty
          PROVE  Pended' /\ Stated'
      BY <1>2, <2>5 DEF Ended, Pended, Stated, Unresolved, Committed, HostsSet, Ops, NoPending
    <2>6. CASE Dropped(m)
      BY <2>5, <2>6 DEF Dropped, HostStates
    <2>7. CASE Stored(m)
      <3> DEFINE p == [host.pending EXCEPT !.confirmed = TRUE, !.counted = TRUE, !.chunk = <<m.cookies>>]
      <3>1. p.on = host.pending.on /\ p.confirmed = TRUE
        BY <1>2 DEF HostsSet, Pendings
      <3>2. host' = [host EXCEPT !.pending = p]
        BY <2>7 DEF Stored
      <3> HIDE DEF p
      <3>3. host'.pending = p /\ host'.up = host.up /\ host'.state = host.state
        BY <1>2, <3>2 DEF HostsSet
      <3>4. op'.phase = "BrowserRemovalPending" /\ op'.kind = op.kind
        BY <1>2, <2>7 DEF Stored, Ops
      <3>5. vault' # Empty
        BY <2>7 DEF Stored
      <3> QED BY <1>3, <2>7, <3>1, <3>3, <3>4, <3>5 DEF Stored, Serving, Pended, Stated, Unresolved, Committed
    <2>8. CASE Checked(m) \/ Noted(m)
      <3> DEFINE p == [host.pending EXCEPT !.chunk = <<m.cookies>>]
      <3>1. p.on = host.pending.on /\ p.confirmed = host.pending.confirmed
        BY <1>2 DEF HostsSet, Pendings
      <3>2. host' = [host EXCEPT !.pending = p]
        BY <2>8 DEF Checked, Noted
      <3> HIDE DEF p
      <3>3. host'.pending = p /\ host'.up = host.up /\ host'.state = host.state
        BY <1>2, <3>2 DEF HostsSet
      <3> QED BY <1>3, <2>8, <3>1, <3>3 DEF Checked, Noted, Serving, Pended, Stated, Unresolved, Committed
    <2>9. ASSUME NEW success, Lost(m, success) PROVE Pended' /\ Stated'
      <3>1. vault # Empty
        BY <1>3, <2>9 DEF Lost, Serving, Pended, Stated
      <3> QED BY <2>5, <2>9, <3>1 DEF Lost, HostStates
    <2>10. CASE Prepared(m)
      <3> DEFINE p == [host.pending EXCEPT !.counted = FALSE, !.chunk = <<>>]
      <3>1. p.on = host.pending.on /\ p.confirmed = host.pending.confirmed
        BY <1>2 DEF HostsSet, Pendings
      <3>2. host' = [host EXCEPT !.pending = p]
        BY <2>10 DEF Prepared
      <3> HIDE DEF p
      <3>3. host'.pending = p /\ host'.up = host.up /\ host'.state = host.state
        BY <1>2, <3>2 DEF HostsSet
      <3> QED BY <1>3, <2>10, <3>1, <3>3 DEF Prepared, Serving, Pended, Stated, Unresolved, Committed
    <2>11. CASE Retained(m) \/ Sealed(m)
      <3>1. vault # Empty
        BY <1>3, <2>11 DEF Retained, Sealed, Serving, Pended, Stated
      <3> QED BY <2>5, <2>11, <3>1 DEF Retained, Sealed, HostStates
    <2>12. CASE Injected(m)
      BY <1>2, <1>3, <2>12 DEF Injected, Pended, Stated, Unresolved, Committed, HostsSet
    <2>13. CASE Invalidated(m)
      <3>1. ~Committed /\ ~Unresolved
        BY <1>1, <1>3, <1>4, <2>13 DEF Invalidated, Resumable, Pended, Unresolved, Committed
      <3> QED BY <1>2, <1>3, <2>13, <3>1 DEF Invalidated, Pended, Stated, Unresolved, Committed, HostsSet
    <2> QED BY <1>1, <2>1, <2>2, <2>3, <2>4, <2>6, <2>7, <2>8, <2>9, <2>10, <2>11, <2>12, <2>13 DEF Outcome
  <1>8. Resumable'
    <2>1. SUFFICES ASSUME Committed', ~host'.pending.on PROVE Resumable'
      BY DEF Resumable
    <2>2. CASE Committed /\ ~host.pending.on
      <3>1. /\ \A q \in 1 .. Len(toHost') : toHost'[q].type # "session.invalidate"
            /\ host.state \in {"evicting", "degraded"} /\ m.type # "session.invalidate"
        BY <1>1, <1>3, <1>4, <2>2 DEF Resumable, Stated, Unresolved, Committed
      <3>2. Refused(m) \/ Repeated(m)
        <4>1. ~Answered(m)
          <5>1. SUFFICES ASSUME Answered(m) PROVE FALSE
            OBVIOUS
          <5>2. host' = [host EXCEPT !.pending = [on |-> TRUE, confirmed |-> op.phase = "BrowserRemovalPending",
                          counted |-> op.phase = "BrowserRemovalPending", chunk |-> <<>>]]
            BY <2>2, <5>1 DEF Answered, Unresolved, Committed
          <5> QED BY <1>2, <2>1, <5>2 DEF HostsSet
        <4> QED BY <1>1, <2>2, <3>1, <4>1 DEF Outcome, Enrolled, Unlocked, Started, Dropped, Stored, Checked,
             Lost, Noted, Prepared, Retained, Sealed, Injected, Invalidated, Free, Serving, Unresolved, Committed
      <3>3. PICK e \in Replies : Says(e) /\ e.type \in {"lease.deny", "operation.error", "operation.status"}
        <4>1. CASE Refused(m)
          <5>1. PICK t \in {"lease.deny", "operation.error"} : Says(Told(t))
            BY <4>1 DEF Refused
          <5>2. Told(t) \in Replies /\ Told(t).type = t
            BY DEF Told, Replies
          <5> QED BY <5>1, <5>2
        <4>2. CASE Repeated(m)
          <5>1. Says(Status(op)) /\ Status(op).type = "operation.status"
            BY <2>2, <4>2 DEF Repeated, Committed, Status
          <5>2. Status(op) \in Replies
            <6>1. Status(op).action \in {"send_snapshot", "prepare_removal", "completed", "reconciliation_required"}
              BY DEF Status
            <6>2. Status(op) = [type |-> "operation.status", op |-> op.id, action |-> Status(op).action]
              BY DEF Status
            <6>3. op.id \in Nat
              BY <1>2 DEF Ops
            <6> QED BY <6>1, <6>2, <6>3 DEF Replies
          <5> QED BY <5>1, <5>2
        <4> QED BY <3>2, <4>1, <4>2
      <3>4. \A i \in 1 .. Len(inbox') : (i \in 1 .. Len(inbox) /\ inbox'[i] = inbox[i]) \/ inbox'[i] = e
        BY <1>2, <3>3, SaysElements
      <3> QED BY <1>1, <1>3, <2>2, <3>1, <3>3, <3>4 DEF Resumable
    <2>3. CASE ~(Committed /\ ~host.pending.on)
      <3>1. op.phase # "BrowserRemovalPending" \/ host.pending.on
        BY <2>3 DEF Committed
      <3>2. op'.phase = "BrowserRemovalPending" /\ ~host'.pending.on
        BY <2>1 DEF Committed
      <3>3. /\ Refused(m) \/ Repeated(m) => FALSE
            /\ Enrolled(m) \/ Unlocked(m) => FALSE
            /\ Injected(m) \/ Invalidated(m) => FALSE
        BY <1>2, <3>1, <3>2 DEF Refused, Repeated, Same, Enrolled, Unlocked, Injected, Invalidated, HostsSet
      <3>6. ~Answered(m)
        <4>1. SUFFICES ASSUME Answered(m) PROVE FALSE
          OBVIOUS
        <4>2. op' = op /\ host.pending.on
          BY <3>1, <3>2, <4>1 DEF Answered
        <4>3. host' = [host EXCEPT !.pending = host.pending]
          BY <4>1, <4>2 DEF Answered
        <4> QED BY <1>2, <3>2, <4>2, <4>3 DEF HostsSet
      <3>4. Checked(m) \/ Noted(m) \/ Prepared(m) \/ Stored(m) => FALSE
        <4>1. /\ [host.pending EXCEPT !.chunk = <<m.cookies>>].on = host.pending.on
              /\ [host.pending EXCEPT !.counted = FALSE, !.chunk = <<>>].on = host.pending.on
              /\ [host.pending EXCEPT !.confirmed = TRUE, !.counted = TRUE, !.chunk = <<m.cookies>>].on = host.pending.on
          BY <1>2 DEF HostsSet, Pendings
        <4>2. Checked(m) \/ Noted(m) \/ Prepared(m) \/ Stored(m) => host'.pending.on = host.pending.on /\ host.pending.on
          BY <1>2, <4>1 DEF Checked, Noted, Prepared, Stored, Serving, HostsSet
        <4> QED BY <3>2, <4>2
      <3>5. ASSUME NEW success PROVE ~(Lost(m, success) \/ Dropped(m) \/ Retained(m) \/ Sealed(m) \/ Started(m))
        <4>1. ASSUME NEW phase, NEW state, NEW lease, Ended(phase, state, lease) PROVE op'.phase = phase
          BY <1>2, <4>1 DEF Ended, Ops
        <4>2. ~Started(m)
          BY <3>2 DEF Started
        <4> QED BY <3>2, <4>1, <4>2 DEF Lost, Dropped, Retained, Sealed
      <3> QED BY <1>1, <3>3, <3>4, <3>5, <3>6 DEF Outcome
    <2> QED BY <2>2, <2>3
  <1> QED BY <1>6, <1>7, <1>8 DEF HostFacts

\* What a task sends is after what was sent.
LEMMA SendsElements ==
    ASSUME TypeOK, NEW out \in Seq(Requests), Sends(out)
    PROVE  /\ Len(toHost) \in Nat /\ Len(toHost') \in Nat
           /\ \A q \in 1 .. Len(toHost) : q \in 1 .. Len(toHost') /\ toHost'[q] = toHost[q]
           /\ \A q \in 1 .. Len(toHost') :
                 \/ q \in 1 .. Len(toHost)
                 \/ port = "ready" /\ q - Len(toHost) \in 1 .. Len(out) /\ toHost'[q] = out[q - Len(toHost)]
           /\ port = "ready" => Len(toHost') = Len(toHost) + Len(out)
           /\ port # "ready" => toHost' = toHost
  <1>1. toHost \in Seq(Requests) /\ Len(toHost) \in Nat
    BY LenProperties DEF TypeOK
  <1>2. CASE port = "ready"
    <2>1. /\ Len(toHost') = Len(toHost) + Len(out) /\ Len(out) \in Nat
          /\ \A i \in 1 .. Len(toHost) : toHost'[i] = toHost[i]
          /\ \A i \in 1 .. Len(toHost') : i > Len(toHost) => i - Len(toHost) \in 1 .. Len(out) /\ toHost'[i] = out[i - Len(toHost)]
      BY <1>1, <1>2, CatElements DEF Sends
    <2> QED BY <1>1, <1>2, <2>1
  <1>3. CASE port # "ready"
    BY <1>1, <1>3 DEF Sends
  <1> QED BY <1>2, <1>3

\* One message, two, or none.
LEMMA SendsOne ==
    ASSUME TypeOK, NEW e \in Requests, Sends(<<e>>)
    PROVE  /\ Len(toHost) \in Nat /\ Len(toHost') \in Nat
           /\ \A q \in 1 .. Len(toHost) : q \in 1 .. Len(toHost') /\ toHost'[q] = toHost[q]
           /\ \A q \in 1 .. Len(toHost') :
                 q \in 1 .. Len(toHost) \/ (port = "ready" /\ q = Len(toHost) + 1 /\ toHost'[q] = e)
           /\ port = "ready" => Len(toHost') = Len(toHost) + 1
  <1>1. <<e>> \in Seq(Requests) /\ Len(<<e>>) = 1 /\ <<e>>[1] = e
    OBVIOUS
  <1> DEFINE out == <<e>>
  <1>2. out \in Seq(Requests) /\ Len(out) = 1 /\ out[1] = e /\ Sends(out)
    BY <1>1
  <1> HIDE DEF out
  <1> QED BY <1>2, SendsElements

\* The queue to the host after two messages were sent.
LEMMA SendsTwo ==
    ASSUME TypeOK, NEW a \in Requests, NEW b \in Requests, Sends(<<a, b>>)
    PROVE  /\ Len(toHost) \in Nat /\ Len(toHost') \in Nat
           /\ \A q \in 1 .. Len(toHost) : q \in 1 .. Len(toHost') /\ toHost'[q] = toHost[q]
           /\ \A q \in 1 .. Len(toHost') :
                 \/ q \in 1 .. Len(toHost)
                 \/ port = "ready" /\ q = Len(toHost) + 1 /\ toHost'[q] = a
                 \/ port = "ready" /\ q = Len(toHost) + 2 /\ toHost'[q] = b
           /\ port = "ready" =>
                 /\ Len(toHost') = Len(toHost) + 2
                 /\ toHost'[Len(toHost) + 1] = a /\ toHost'[Len(toHost) + 2] = b
  <1> DEFINE out == <<a, b>>
  <1>1. out \in Seq(Requests) /\ Len(out) = 2 /\ out[1] = a /\ out[2] = b /\ Sends(out)
    OBVIOUS
  <1> HIDE DEF out
  <1>2. /\ Len(toHost) \in Nat /\ Len(toHost') \in Nat
        /\ \A q \in 1 .. Len(toHost) : q \in 1 .. Len(toHost') /\ toHost'[q] = toHost[q]
        /\ \A q \in 1 .. Len(toHost') :
              \/ q \in 1 .. Len(toHost)
              \/ port = "ready" /\ q - Len(toHost) \in 1 .. 2 /\ toHost'[q] = out[q - Len(toHost)]
        /\ port = "ready" => Len(toHost') = Len(toHost) + 2
    BY <1>1, SendsElements
  <1>3. \A q \in 1 .. Len(toHost') : q - Len(toHost) \in 1 .. 2 => q = Len(toHost) + 1 \/ q = Len(toHost) + 2
    BY <1>2
  <1>4. /\ \A q \in 1 .. Len(toHost') : q = Len(toHost) + 1 => q - Len(toHost) = 1
        /\ \A q \in 1 .. Len(toHost') : q = Len(toHost) + 2 => q - Len(toHost) = 2
        /\ port = "ready" => /\ Len(toHost) + 1 \in 1 .. Len(toHost') /\ Len(toHost) + 1 \notin 1 .. Len(toHost)
                             /\ Len(toHost) + 2 \in 1 .. Len(toHost') /\ Len(toHost) + 2 \notin 1 .. Len(toHost)
    BY <1>2
  <1> QED BY <1>1, <1>2, <1>3, <1>4

\* Nothing sent leaves the queue as it is.
LEMMA SendsNone == ASSUME TypeOK, Sends(<<>>) PROVE toHost' = toHost
  <1>1. toHost \o <<>> = toHost
    BY CatNothing DEF TypeOK
  <1> QED BY <1>1 DEF Sends

\* The outcome of a task whose group was not leased.
LEMMA RequestedOut ==
    ASSUME NEW e \in Groups, NEW r \in References, NEW t, Requested(t, e, r), ~Invalidates(t, e, r)
    PROVE  /\ \A i \in 1 .. Len(t.out) : t.out[i].type # "session.invalidate"
           /\ t.ext.state \in {e.state, "unlocking", "evicting"}
  <1>1. CASE Rests(t, e, r)
    BY <1>1 DEF Rests
  <1>2. ASSUME NEW purpose, Unlocks(t, e, r, purpose)
        PROVE  t.ext.state = "unlocking" /\ \A i \in 1 .. Len(t.out) : t.out[i].type # "session.invalidate"
    BY <1>2 DEF Unlocks, LeaseRequest, Groups
  <1>3. CASE Queries(t, e, r)
    BY <1>3 DEF Queries, StatusQuery, Evicting, Groups
  <1>4. ASSUME NEW kind, NEW reason, Begins(t, e, r, kind, reason)
        PROVE  t.ext.state = "evicting" /\ \A i \in 1 .. Len(t.out) : t.out[i].type # "session.invalidate"
    BY <1>4 DEF Begins, OperationBegin, Evicting, Groups
  <1> QED BY <1>1, <1>2, <1>3, <1>4 DEF Requested

\* A handshake is answered with the group as the host has it.
LEMMA AdoptedType ==
    ASSUME TypeOK, NEW m \in Replies, m.type = "handshake.ack"
    PROVE  /\ Adopted(m) \in Groups /\ Adopted(m).state = m.state /\ Adopted(m).lease = m.lease
           /\ Adopted(m).asked = "none" /\ Adopted(m).evicting = FALSE /\ Adopted(m).chained = ext.chained
           /\ Adopted(m).inval => ext.inval /\ m.state # "uninitialized"
  <1> DEFINE recon == m.state \in {"unlocking", "evicting", "degraded"}
             inval == ext.inval /\ m.state # "uninitialized"
  <1>1. recon \in BOOLEAN /\ inval \in BOOLEAN /\ m.state \in HostStates /\ m.lease \in Nat /\ ext \in Groups
    BY DEF Groups, Replies, TypeOK
  <1>2. Adopted(m) = [ext EXCEPT !.state = m.state, !.lease = m.lease, !.asked = "none",
                                 !.evicting = FALSE, !.recon = recon, !.inval = inval]
    BY DEF Adopted
  <1>3. inval => ext.inval /\ m.state # "uninitialized"
    OBVIOUS
  <1> HIDE DEF recon, inval
  <1> QED BY <1>1, <1>2, <1>3 DEF Groups

\* What Greeted sends.
LEMMA GreetedOut ==
    ASSUME TypeOK, NEW m \in Replies, NEW t, Greeted(m, t), port # "none", toHost = <<>>
    PROVE  /\ t.out \in Seq(Requests) /\ toHost' \in Seq(Requests) /\ Len(toHost') \in Nat
           /\ \A q \in 1 .. Len(toHost') :
                 toHost'[q] = StatusQuery(ref) \/ \E i \in 1 .. Len(t.out) : toHost'[q] = t.out[i]
  <1> DEFINE query == IF Bound(ref) THEN <<StatusQuery(ref)>> ELSE <<>>
  <1>1. /\ t.out \in Seq(Requests)
    BY AdoptedType, RequestedType DEF Greeted, TypeOK
  <1>2. StatusQuery(ref) \in Requests
    BY DEF StatusQuery, Requests, References, TypeOK
  <1>3. query \in Seq(Requests) /\ \A i \in 1 .. Len(query) : query[i] = StatusQuery(ref)
    BY <1>2
  <1>4. toHost' = toHost \o (query \o t.out)
    BY DEF Greeted
  <1> HIDE DEF query
  <1>5. query \o t.out \in Seq(Requests) /\ toHost' = query \o t.out
    BY <1>1, <1>3, <1>4, ConcatProperties, CatNothing
  <1>6. /\ Len(toHost') = Len(query) + Len(t.out) /\ Len(query) \in Nat /\ Len(t.out) \in Nat
        /\ \A i \in 1 .. Len(query) : toHost'[i] = query[i]
        /\ \A i \in 1 .. Len(toHost') : i > Len(query) => i - Len(query) \in 1 .. Len(t.out) /\ toHost'[i] = t.out[i - Len(query)]
    BY <1>1, <1>3, <1>5, CatElements
  <1>7. \A q \in 1 .. Len(toHost') : q \in 1 .. Len(query) \/ q > Len(query)
    BY <1>6
  <1> QED BY <1>1, <1>3, <1>5, <1>6, <1>7

\* The first message of a port is the handshake; it is ready after it, and nothing
\* else is in its queues.
LEMMA OpenStep ==
    ASSUME TypeOK, Ported, ReceiveStep
    PROVE  /\ port = "open" => \E t : Greeted(Ack(host), t) /\ inbox' = <<>> /\ port' = "ready" /\ Ack(host) \in Replies
           /\ port = "ready" => /\ Head(inbox) \in Replies /\ Head(inbox) = inbox[1]
                                /\ Closed(Head(inbox)) \/ (inbox' = Tail(inbox) /\ port' = port /\ Handling(Head(inbox)))
           /\ port = "none" => port' = "none" /\ toHost' = toHost
  <1>1. /\ inbox # <<>> /\ Handled(Head(inbox)) /\ Head(inbox) \in Replies /\ Head(inbox) = inbox[1]
        /\ 1 \in 1 .. Len(inbox) /\ inbox \in Seq(Replies) /\ toHost \o <<>> = toHost
    BY TailElements, CatNothing DEF TypeOK, ReceiveStep
  <1>2. CASE port = "open"
    <2>1. inbox = <<Ack(host)>>
      BY <1>2 DEF Ported
    <2>2. Head(inbox) = Ack(host) /\ Tail(inbox) = <<>>
      BY <2>1
    <2>3. Ack(host).type = "handshake.ack"
      BY DEF Ack
    <2>4. \E t : Greeted(Ack(host), t)
      BY <1>1, <2>2, <2>3 DEF Handled, Handling, Closed, Granted, Enrolling, Restored, Denied, Required, Retaining,
           Preparing, Resending, Forgetting, GivingUp, Finishing, Resetting, Removing, Ignoring, Parting
    <2>5. inbox' = <<>>
      BY <1>1, <2>2, <2>3 DEF Handled, Closed
    <2> QED BY <1>1, <1>2, <2>2, <2>4, <2>5 DEF Greeted
  <1>3. CASE port = "ready"
    <2>1. Head(inbox).type # "handshake.ack"
      BY <1>1, <1>3 DEF Ported
    <2> QED BY <1>1, <1>3, <2>1 DEF Handled, Greeted
  <1>4. CASE port = "none"
    <2> DEFINE m == Head(inbox)
    <2>1. \A out : Sends(out) => toHost' = toHost
      BY <1>4 DEF Sends
    <2>2. ASSUME Handling(m) PROVE toHost' = toHost
      BY <2>1, <2>2 DEF Handling, Granted, Enrolling, Restored, Denied, Required, Retaining,
           Preparing, Resending, Forgetting, GivingUp, Finishing, Resetting, Removing, Ignoring, Parting, Leaves
    <2> QED BY <1>1, <1>4, <2>1, <2>2 DEF Handled, Greeted, Closed, Leaves
  <1> QED BY <1>2, <1>3, <1>4 DEF TypeOK

\* So do the other steps.
LEMMA HostFactsKept == ASSUME TypeOK, TypeOK', HostFacts, Step PROVE HostFacts'
  <1>1. Pended /\ Stated /\ Ported /\ Resumable
    BY DEF HostFacts
  <1>2. /\ host \in HostsSet /\ op \in Ops /\ inbox \in Seq(Replies) /\ toHost \in Seq(Requests) /\ ext \in Groups
        /\ ref \in References /\ port \in {"none", "open", "ready"} /\ toHost \o <<>> = toHost /\ jar \in Cookies
    BY CatNothing DEF TypeOK
  <1>3. CASE HostStep
    BY <1>3, HostFactsHost
  <1>4. CASE EndStep
    <2>1. host'.up = FALSE /\ host'.pending = NoPending /\ host'.state = host.state /\ ~NoPending.on
      BY <1>2, <1>4 DEF EndStep, HostsSet, NoPending
    <2> QED BY <1>1, <1>4, <2>1 DEF EndStep, HostFacts, Pended, Stated, Ported, Resumable, Unresolved, Committed
  <1>5. CASE ConnectStep
    <2> DEFINE reset == host.state # "uninitialized" /\ vault = Empty
               degraded == Unresolved /\ ~reset /\ host.state # "uninitialized"
    <2>1. /\ host'.up = TRUE /\ host'.pending = host.pending
          /\ host'.state = IF reset THEN "uninitialized" ELSE IF degraded THEN "degraded" ELSE host.state
      BY <1>2, <1>5 DEF ConnectStep, Restarted, HostsSet
    <2>2. op'.phase = (IF op.phase = "NotCommitted" THEN "Aborted" ELSE op.phase) /\ op'.kind = op.kind
      BY <1>2, <1>5 DEF ConnectStep, Ops
    <2>3. toHost = <<>> /\ ~host.up /\ ~host.pending.on /\ host.pending = NoPending
      BY <1>1, <1>5 DEF ConnectStep, Ported, Pended
    <2>4. inbox' = <<Ack(host')>> /\ toHost' = toHost /\ vault' = vault /\ port' = "open" /\ loop' = loop /\ loop.at = "idle"
      BY <1>5 DEF ConnectStep, Still
    <2>5. Pended' /\ Stated'
      BY <1>1, <2>1, <2>2, <2>3, <2>4 DEF Pended, Stated, Unresolved, Committed
    <2>6. Ported' /\ Resumable'
      BY <2>1, <2>3, <2>4 DEF Ported, Resumable
    <2> QED BY <2>5, <2>6 DEF HostFacts
  <1>6. ASSUME Apart PROVE Pended' /\ Stated' /\ (Committed' <=> Committed)
    BY <1>1, <1>6 DEF Apart, Pended, Stated, Unresolved, Committed
  <1>7. CASE HangStep \/ StopStep
    <2>1. Apart /\ port' = "none" /\ toHost' = toHost
      BY <1>7 DEF HangStep, StopStep
    <2> QED BY <1>1, <1>6, <2>1 DEF Apart, HostFacts, Ported, Resumable
  <1>8. CASE RestStep \/ TurnStep
    BY <1>1, <1>6, <1>8 DEF RestStep, TurnStep, Apart, Quietly, Still, HostFacts, Ported, Resumable
  <1>9. ASSUME NEW reason \in Reasons, RepeatStep(reason) PROVE HostFacts'
    <2>1. OperationBegin(ref, reason) \in Requests /\ OperationBegin(ref, reason).type # "session.invalidate"
      BY <1>2, <1>9 DEF OperationBegin, Requests, References, RepeatStep
    <2>2. Sends(<<OperationBegin(ref, reason)>>) /\ Apart /\ port = "ready" /\ inbox' = inbox /\ port' = port /\ ext' = ext
      BY <1>9 DEF RepeatStep, Sends, Quietly
    <2>3. \A q \in 1 .. Len(toHost') : (q \in 1 .. Len(toHost) /\ toHost'[q] = toHost[q]) \/ toHost'[q].type # "session.invalidate"
      BY <2>1, <2>2, SendsOne
    <2> QED BY <1>1, <1>6, <2>2, <2>3 DEF Apart, HostFacts, Ported, Resumable
  <1>10. ASSUME NEW success \in BOOLEAN, NEW count \in Nat, ReportStep(success, count) PROVE HostFacts'
    <2>1. EvictResult(ref, success, count) \in Requests /\ EvictResult(ref, success, count).type # "session.invalidate"
      BY <1>2, <1>10 DEF EvictResult, Requests, References
    <2>2. /\ Apart /\ inbox' = inbox /\ port' = port /\ port # "open"
          /\ port = "ready" => Sends(<<EvictResult(ref, success, count)>>) /\ ext'.state # "leased"
          /\ port # "ready" => toHost' = toHost
      BY <1>1, <1>2, <1>10 DEF ReportStep, Leaves, Ported, Groups
    <2>3. \A q \in 1 .. Len(toHost') : (q \in 1 .. Len(toHost) /\ toHost'[q] = toHost[q]) \/ toHost'[q].type # "session.invalidate"
      BY <2>1, <2>2, SendsOne
    <2> QED BY <1>1, <1>6, <2>2, <2>3 DEF Apart, HostFacts, Ported, Resumable
  <1>11. ASSUME NEW t, TaskStep(t) PROVE HostFacts'
    <2>1. t.out \in Seq(Requests)
      BY <1>2, <1>11, RequestedType DEF TaskStep
    <2>2. Sends(t.out) /\ Apart /\ inbox' = inbox /\ port' = port /\ ext' = t.ext /\ loop' = loop
      BY <1>11 DEF TaskStep, Leaves, Still
    <2>3. port # "ready" => toHost' = toHost
      BY <2>2 DEF Sends
    <2>4. ext.state # "leased" => /\ ext'.state # "leased"
                                  /\ \A i \in 1 .. Len(t.out) : t.out[i].type # "session.invalidate"
      BY <1>2, <1>11, <2>2, RequestedOut DEF TaskStep, Invalidates
    <2>5. ext.state # "leased" => \A q \in 1 .. Len(toHost') :
             (q \in 1 .. Len(toHost) /\ toHost'[q] = toHost[q]) \/ toHost'[q].type # "session.invalidate"
      BY <2>1, <2>2, <2>4, SendsElements
    <2> QED BY <1>1, <1>6, <2>2, <2>3, <2>4, <2>5 DEF Apart, HostFacts, Ported, Resumable
  <1>12. CASE ReceiveStep
    <2>1. Apart
      BY <1>12 DEF ReceiveStep
    <2>2. CASE port = "open"
      <3>1. PICK t : Greeted(Ack(host), t) /\ inbox' = <<>> /\ port' = "ready" /\ Ack(host) \in Replies
        BY <1>1, <1>12, <2>2, OpenStep
      <3>2. /\ toHost = <<>> /\ host.up /\ Ack(host).type = "handshake.ack" /\ Ack(host).state = host.state
        BY <1>1, <2>2 DEF Ported, Ack
      <3>3. \A q \in 1 .. Len(toHost') :
               toHost'[q] = StatusQuery(ref) \/ \E i \in 1 .. Len(t.out) : toHost'[q] = t.out[i]
        BY <2>2, <3>1, <3>2, GreetedOut
      <3>4. /\ \A i \in 1 .. Len(t.out) : t.out[i].type # "session.invalidate"
            /\ t.ext.state \in {host.state, "unlocking", "evicting"}
        <4>1. Adopted(Ack(host)) \in Groups /\ Adopted(Ack(host)).state = host.state
          BY <3>1, <3>2, AdoptedType
        <4>2. Requested(t, Adopted(Ack(host)), ref) /\ ~Invalidates(t, Adopted(Ack(host)), ref)
          BY <3>1 DEF Greeted
        <4> QED BY <1>2, <4>1, <4>2, RequestedOut
      <3>5. StatusQuery(ref).type # "session.invalidate"
        BY DEF StatusQuery
      <3>6. ext' = t.ext
        BY <3>1 DEF Greeted
      <3> QED BY <1>1, <1>6, <2>1, <3>1, <3>2, <3>3, <3>4, <3>5, <3>6
              DEF Apart, HostFacts, Ported, Resumable, Stated, Unresolved, Committed
    <2>3. CASE port = "none"
      BY <1>1, <1>6, <1>12, <2>1, <2>3, OpenStep DEF Apart, HostFacts, Ported, Resumable
    <2>4. CASE port = "ready"
      <3> DEFINE m == Head(inbox)
      <3>1. m \in Replies /\ m = inbox[1] /\ (Closed(m) \/ (inbox' = Tail(inbox) /\ port' = port /\ Handling(m)))
        BY <1>1, <1>12, <2>4, OpenStep
      <3>2. 1 \in 1 .. Len(inbox) /\ \A i \in 1 .. Len(Tail(inbox)) : i + 1 \in 1 .. Len(inbox) /\ Tail(inbox)[i] = inbox[i + 1]
        BY <1>2, <1>12, TailElements DEF ReceiveStep
      <3> HIDE DEF m
      <3>3. CASE Closed(m)
        <4>1. port' = "none" /\ toHost' = toHost
          BY <1>2, <2>4, <3>3 DEF Closed, Leaves, Sends
        <4> QED BY <1>1, <1>6, <2>1, <2>4, <4>1 DEF Apart, HostFacts, Ported, Resumable
      <3>4. CASE inbox' = Tail(inbox) /\ port' = port /\ Handling(m)
        <4>1. Ported'
          BY <1>1, <2>1, <2>4, <3>2, <3>4 DEF Apart, Ported
        <4>2. ASSUME Committed, ~host.pending.on
              PROVE  ext'.state # "leased" /\ \A q \in 1 .. Len(toHost') : toHost'[q].type # "session.invalidate"
          <5>1. /\ m.type \in {"lease.deny", "operation.error", "operation.status"} /\ ext.state # "leased"
                /\ \A q \in 1 .. Len(toHost) : toHost[q].type # "session.invalidate"
            BY <1>1, <2>4, <3>1, <3>2, <4>2 DEF Resumable
          <5>2. ASSUME NEW out \in Seq(Requests), Sends(out), \A i \in 1 .. Len(out) : out[i].type # "session.invalidate"
                PROVE  \A q \in 1 .. Len(toHost') : toHost'[q].type # "session.invalidate"
            BY <5>1, <5>2, SendsElements
          <5>3. ASSUME NEW r \in References, NEW purpose \in {"commit", "removal_precheck"}
                PROVE  /\ SnapshotChunk(r, purpose, jar) \in Requests /\ RemovePrepare(r) \in Requests
                       /\ SnapshotChunk(r, purpose, jar).type # "session.invalidate"
                       /\ RemovePrepare(r).type # "session.invalidate"
            BY <1>2, <5>3 DEF SnapshotChunk, RemovePrepare, Requests, References
          <5>4. ASSUME NEW state, NEW recon, Denied(m, state, recon) PROVE Sends(<<>>) /\ ext'.state # "leased"
            BY <1>2, <5>1, <5>4 DEF Denied, Leaves, Groups
          <5>5. CASE Forgetting(m) \/ GivingUp(m) \/ Ignoring(m)
            <6>1. Sends(<<>>) /\ ext'.state # "leased"
              BY <1>2, <5>1, <5>5 DEF Forgetting, GivingUp, Ignoring, Leaves, Groups
            <6> QED BY <5>1, <6>1, SendsNone
          <5>6. CASE Resending(m)
            <6>1. Sends(<<SnapshotChunk(ref, "commit", jar)>>) /\ ext' = ext
              BY <5>6 DEF Resending, Leaves
            <6>2. SnapshotChunk(ref, "commit", jar) \in Requests /\ SnapshotChunk(ref, "commit", jar).type # "session.invalidate"
              BY <1>2, <5>3
            <6> QED BY <5>1, <6>1, <6>2, SendsOne
          <5>7. ASSUME NEW r \in References, Preparing(m, r)
                PROVE  ext'.state # "leased" /\ \A q \in 1 .. Len(toHost') : toHost'[q].type # "session.invalidate"
            <6> DEFINE a == RemovePrepare(r)
                       b == SnapshotChunk(r, "removal_precheck", jar)
            <6>1. Sends(<<a, b>>) /\ ext' = ext
              BY <5>7 DEF Preparing, Leaves
            <6>2. a \in Requests /\ b \in Requests /\ a.type # "session.invalidate" /\ b.type # "session.invalidate"
              BY <5>3
            <6> HIDE DEF a, b
            <6>3. <<a, b>> \in Seq(Requests) /\ \A i \in 1 .. Len(<<a, b>>) : <<a, b>>[i].type # "session.invalidate"
              BY <6>2
            <6> QED BY <5>1, <5>2, <6>1, <6>3
          <5> QED BY <3>4, <5>1, <5>4, <5>5, <5>6, <5>7, SendsNone DEF Handling, Granted, Enrolling, Restored, Required,
                Retaining, Finishing, Resetting, Removing, Parting
        <4>3. Resumable'
          BY <1>1, <1>6, <2>1, <2>4, <3>2, <3>4, <4>2 DEF Apart, Resumable
        <4> QED BY <1>6, <2>1, <4>1, <4>3 DEF HostFacts
      <3> QED BY <3>1, <3>3, <3>4
    <2> QED BY <1>2, <2>2, <2>3, <2>4
  <1> QED BY <1>3, <1>4, <1>5, <1>7, <1>8, <1>9, <1>10, <1>11, <1>12 DEF Step

-----------------------------------------------------------------------------
(* The guarded removal and the prechecks on their way.                     *)

Pre(m) == m.type = "cookies.snapshot.chunk" /\ m.purpose = "removal_precheck"
NoPre(s) == \A q \in 1 .. Len(s) : ~Pre(s[q])
LastPre(s, q) == Pre(s[q]) /\ \A p \in 1 .. Len(s) : p > q => ~Pre(s[p])
Allowed(s, o) == \E i \in 1 .. Len(s) : s[i].type = "evict.remove.authorized" /\ s[i].op = o.id

\* A snapshot that the host stored is in the vault until the session is
\* invalidated, which happens only after the end of its operation.
Vaulted ==
    op.snapshot # Empty => /\ op.phase # "NotCommitted"
                           /\ vault = op.snapshot \/ (vault = Empty /\ ~Committed)

\* No removal is under way or authorized before the operation is committed, and
\* one that is under way is for the operation of the journal.
Calm ==
    /\ port = "ready" /\ op.phase = "NotCommitted" => loop.at = "idle" /\ ~Allowed(inbox, op)
    /\ port = "ready" /\ loop.at # "idle" => ref.op = op.id /\ op.id # 0

\* The removal goes by the last precheck that was sent.
Latest ==
    port = "ready" => \A q \in 1 .. Len(toHost) : LastPre(toHost, q) =>
        /\ loop.at = "idle" => seen \in {<<>>, <<toHost[q].cookies>>}
        /\ loop.at # "idle" => loop.plan = toHost[q].cookies

\* When no precheck is on its way, an authorized removal goes by the snapshot.
Planned ==
    port = "ready" /\ Committed /\ NoPre(toHost) =>
        /\ loop.at = "idle" /\ seen # <<>> /\ Allowed(inbox, op) => seen[1] = op.snapshot
        /\ loop.at # "idle" => loop.plan = op.snapshot

\* A precheck comes right after its evict.remove.prepare, which makes the host
\* ready for it, and prechecks are in the order of their operations.
Paired ==
    \A q \in 1 .. Len(toHost) : Pre(toHost[q]) =>
        \/ /\ q > 1 /\ toHost[q - 1].type = "evict.remove.prepare" /\ toHost[q - 1].op = toHost[q].op
        \/ q = 1 /\ (toHost[q].op = op.id => host.pending.chunk = <<>> \/ ~host.pending.confirmed)
Sorted ==
    \A p, q \in 1 .. Len(toHost) : p < q /\ Pre(toHost[p]) /\ Pre(toHost[q]) => toHost[p].op <= toHost[q].op

\* Once a removal is authorized, the host serves its operation and every precheck
\* on its way is for it.
Served ==
    port = "ready" /\ Committed /\ (loop.at # "idle" \/ Allowed(inbox, op)) =>
        host.pending.on /\ \A q \in 1 .. Len(toHost) : Pre(toHost[q]) => toHost[q].op = op.id

Removal ==
    /\ Vaulted /\ Calm /\ Latest /\ Planned /\ Paired /\ Sorted /\ Served /\ Chosen(loop)

\* It holds in the initial state.
LEMMA RemovalStart == Init => Removal
  BY DEF Init, Removal, Vaulted, Calm, Latest, Planned, Paired, Sorted, Served, Chosen, Committed, NoOp, NoLoop

-----------------------------------------------------------------------------
(* What a step of the controller does to it.                               *)

\* Nothing new, a precheck, the start of a removal, its turns and its end.
Keeps(out) == NoPre(out) /\ Still /\ (loop.at # "idle" => ref'.op = ref.op)
Prechecks(out) ==
    /\ loop.at = "idle" /\ loop' = loop /\ seen' = <<jar>> /\ jar \in Cookies /\ ref.op = op.id
    /\ out = <<RemovePrepare(ref), SnapshotChunk(ref, "removal_precheck", jar)>>
Starts(out) ==
    /\ loop.at = "idle" /\ loop'.at # "idle" /\ seen # <<>> /\ loop'.plan = seen[1] /\ seen' = seen
    /\ NoPre(out) /\ Allowed(inbox, op) /\ ref'.op = op.id /\ op.id # 0
Turns(out) == NoPre(out) /\ loop.at # "idle" /\ loop'.at # "idle" /\ loop'.plan = loop.plan /\ seen' = seen /\ ref'.op = ref.op
Stops(out) == NoPre(out) /\ loop'.at = "idle" /\ seen' = <<>>

ControlStep ==
    /\ Apart /\ (Chosen(loop) => Chosen(loop'))
    /\ \E out \in Seq(Requests) :
          /\ toHost' = toHost \o out
          /\ \/ port' # "ready" /\ NoPre(out)
             \/ /\ port = "open" /\ port' = "ready" /\ NoPre(out) /\ toHost = <<>> /\ inbox' = <<>>
                /\ loop'.at = "idle"
             \/ /\ port = "ready" /\ port' = "ready" /\ (Allowed(inbox', op) => Allowed(inbox, op))
                /\ Keeps(out) \/ Prechecks(out) \/ Starts(out) \/ Turns(out) \/ Stops(out)

\* Every step of the controller is such a step.
LEMMA ControlSteps ==
    ASSUME TypeOK, TypeOK', Order, HostFacts, Step, ~HostStep, ~EndStep, ~ConnectStep
    PROVE  ControlStep
  <1>1. /\ ref \in References /\ op \in Ops /\ toHost \in Seq(Requests) /\ inbox \in Seq(Replies) /\ jar \in Cookies
        /\ toHost \o <<>> = toHost /\ ext \in Groups /\ port \in {"none", "open", "ready"} /\ loop \in Loops
    BY CatNothing DEF TypeOK
  <1>2. Ported /\ (ref.op # 0 => ref.op = op.id)
    BY DEF HostFacts, Order, Referred
  <1>3. <<>> \in Seq(Requests) /\ NoPre(<<>>)
    BY DEF NoPre
  <1>4. ASSUME NEW e \in Requests, ~Pre(e) PROVE <<e>> \in Seq(Requests) /\ NoPre(<<e>>)
    <2>1. <<e>> \in Seq(Requests) /\ Len(<<e>>) = 1 /\ <<e>>[1] = e
      OBVIOUS
    <2> QED BY <1>4, <2>1 DEF NoPre
  <1>5. ASSUME NEW out \in Seq(Requests), Sends(out)
        PROVE  /\ port = "ready" => toHost' = toHost \o out
               /\ port # "ready" => toHost' = toHost \o <<>>
    BY <1>1, <1>5 DEF Sends
  <1>6. ASSUME inbox' = inbox \/ (inbox # <<>> /\ inbox' = Tail(inbox))
        PROVE  Allowed(inbox', op) => Allowed(inbox, op)
    <2>1. CASE inbox' = inbox
      BY <2>1 DEF Allowed
    <2>2. CASE inbox # <<>> /\ inbox' = Tail(inbox)
      <3>1. \A i \in 1 .. Len(Tail(inbox)) : i + 1 \in 1 .. Len(inbox) /\ Tail(inbox)[i] = inbox[i + 1]
        BY <1>1, <2>2, TailElements
      <3> QED BY <2>2, <3>1 DEF Allowed
    <2> QED BY <1>6, <2>1, <2>2
  <1>7. ASSUME NEW e \in Groups, NEW r \in References, NEW t, Requested(t, e, r)
        PROVE  t.out \in Seq(Requests) /\ NoPre(t.out)
    <2>1. t.out \in Seq(Requests)
      BY <1>7, RequestedType
    <2>2. NoPre(t.out)
      <3>1. ASSUME NEW purpose PROVE ~Pre(LeaseRequest(purpose))
        BY DEF LeaseRequest, Pre
      <3>2. ASSUME NEW lease PROVE ~Pre(SessionInvalidate(lease))
        BY DEF SessionInvalidate, Pre
      <3>3. ASSUME NEW x PROVE ~Pre(StatusQuery(x))
        BY DEF StatusQuery, Pre
      <3>4. ASSUME NEW x, NEW reason PROVE ~Pre(OperationBegin(x, reason))
        BY DEF OperationBegin, Pre
      <3>5. \/ t.out = <<>> \/ (\E lease : t.out = <<SessionInvalidate(lease)>>)
            \/ (\E purpose : t.out = <<LeaseRequest(purpose)>>) \/ t.out = <<StatusQuery(r)>>
            \/ (\E x, reason : t.out = <<OperationBegin(x, reason)>>)
        BY <1>7 DEF Requested, Rests, Invalidates, Unlocks, Queries, Begins
      <3>6. ASSUME NEW e2, ~Pre(e2) PROVE NoPre(<<e2>>)
        <4>1. Len(<<e2>>) = 1 /\ <<e2>>[1] = e2
          OBVIOUS
        <4> QED BY <3>6, <4>1 DEF NoPre
      <3> QED BY <1>3, <3>1, <3>2, <3>3, <3>4, <3>5, <3>6
    <2> QED BY <2>1, <2>2
  <1>8. ASSUME Apart, Still, NEW out \in Seq(Requests), NoPre(out), Sends(out), port' = port,
               inbox' = inbox \/ (inbox # <<>> /\ inbox' = Tail(inbox)), loop.at # "idle" => ref'.op = ref.op
        PROVE  ControlStep
    <2>1. Chosen(loop) => Chosen(loop')
      BY <1>8 DEF Still
    <2>2. CASE port = "ready"
      <3>1. toHost' = toHost \o out /\ Keeps(out) /\ (Allowed(inbox', op) => Allowed(inbox, op))
        BY <1>5, <1>6, <1>8, <2>2 DEF Keeps
      <3> QED BY <1>8, <2>1, <2>2, <3>1 DEF ControlStep
    <2>3. CASE port # "ready"
      BY <1>3, <1>5, <1>8, <2>1, <2>3 DEF ControlStep
    <2> QED BY <2>2, <2>3
  <1>9. ASSUME Apart, toHost' = toHost, port' # "ready", loop' = loop \/ loop' = NoLoop
        PROVE  ControlStep
    <2>1. Chosen(loop) => Chosen(loop')
      BY <1>9 DEF Chosen, NoLoop
    <2>2. toHost' = toHost \o <<>>
      BY <1>1, <1>9
    <2> QED BY <1>3, <1>9, <2>1, <2>2 DEF ControlStep
  <1>10. CASE RestStep
    <2>1. Sends(<<>>) /\ ref' = ref
      BY <1>1, <1>10 DEF RestStep, Sends, Quietly
    <2> QED BY <1>3, <1>8, <1>10, <2>1 DEF RestStep
  <1>11. CASE HangStep \/ StopStep
    BY <1>9, <1>11 DEF HangStep, StopStep, Still
  <1>12. ASSUME NEW t, TaskStep(t) PROVE ControlStep
    <2>1. t.out \in Seq(Requests) /\ NoPre(t.out)
      BY <1>1, <1>7, <1>12 DEF TaskStep
    <2> QED BY <1>8, <1>12, <2>1 DEF TaskStep, Leaves
  <1>13. ASSUME NEW reason \in Reasons, RepeatStep(reason) PROVE ControlStep
    <2> DEFINE e == OperationBegin(ref, reason)
    <2>1. e \in Requests /\ ~Pre(e)
      BY <1>1, <1>13 DEF OperationBegin, Requests, References, RepeatStep, Pre
    <2>2. Sends(<<e>>) /\ loop.at = "idle"
      BY <1>13 DEF RepeatStep, Sends
    <2> HIDE DEF e
    <2> QED BY <1>4, <1>8, <1>13, <2>1, <2>2 DEF RepeatStep
  <1>14. CASE TurnStep
    <2>1. toHost' = toHost \o <<>> /\ Apart /\ port' = port
      BY <1>1, <1>14 DEF TurnStep
    <2>2. Turns(<<>>) /\ (Allowed(inbox', op) => Allowed(inbox, op)) /\ Chosen(loop')
      BY <1>3, <1>6, <1>14 DEF TurnStep, Turns, Quietly
    <2>3. CASE port = "ready"
      BY <1>3, <2>1, <2>2, <2>3 DEF ControlStep
    <2>4. CASE port # "ready"
      BY <1>3, <2>1, <2>2, <2>4 DEF ControlStep
    <2> QED BY <2>3, <2>4
  <1>15. ASSUME NEW success \in BOOLEAN, NEW count \in Nat, ReportStep(success, count) PROVE ControlStep
    <2> DEFINE e == EvictResult(ref, success, count)
    <2>1. e \in Requests /\ ~Pre(e)
      BY <1>1, <1>15 DEF EvictResult, Requests, References, Pre
    <2>2. Apart /\ port' = port /\ loop' = NoLoop /\ inbox' = inbox /\ loop'.at = "idle"
      BY <1>15 DEF ReportStep, NoLoop
    <2>3. port = "ready" => toHost' = toHost \o <<e>> /\ seen' = <<>>
      BY <1>15 DEF ReportStep, Leaves, Sends
    <2>4. port # "ready" => toHost' = toHost
      BY <1>15 DEF ReportStep
    <2> HIDE DEF e
    <2>5. CASE port = "ready"
      <3>1. Stops(<<e>>) /\ (Allowed(inbox', op) => Allowed(inbox, op)) /\ (Chosen(loop) => Chosen(loop')) /\ <<e>> \in Seq(Requests)
        BY <1>4, <1>6, <2>1, <2>2, <2>3, <2>5 DEF Stops, Chosen
      <3> QED BY <2>2, <2>3, <2>5, <3>1 DEF ControlStep
    <2>6. CASE port # "ready"
      BY <1>9, <2>2, <2>4, <2>6
    <2> QED BY <2>5, <2>6
  <1>16. CASE ReceiveStep
    <2>1. Apart /\ loop.at = "idle" /\ inbox # <<>> /\ Handled(Head(inbox)) /\ Head(inbox) \in Replies
      BY <1>1, <1>16, TailElements DEF ReceiveStep
    <2>2. CASE port = "open"
      <3>1. PICK t : Greeted(Ack(host), t) /\ inbox' = <<>> /\ port' = "ready" /\ Ack(host) \in Replies
        BY <1>2, <1>16, <2>2, OpenStep
      <3>2. toHost = <<>> /\ Still
        BY <1>2, <2>2, <3>1 DEF Ported, Greeted
      <3>3. /\ \A q \in 1 .. Len(toHost') :
                  toHost'[q] = StatusQuery(ref) \/ \E i \in 1 .. Len(t.out) : toHost'[q] = t.out[i]
            /\ toHost' \in Seq(Requests)
        BY <2>2, <3>1, <3>2, GreetedOut
      <3>4. NoPre(t.out)
        <4>1. Adopted(Ack(host)) \in Groups
          BY <3>1, AdoptedType DEF Ack
        <4>2. Requested(t, Adopted(Ack(host)), ref)
          BY <3>1 DEF Greeted
        <4> QED BY <1>1, <1>7, <4>1, <4>2
      <3>5. ~Pre(StatusQuery(ref))
        BY DEF Pre, StatusQuery
      <3>6. NoPre(toHost') /\ toHost' = toHost \o toHost'
        BY <3>2, <3>3, <3>4, <3>5, CatNothing DEF NoPre
      <3>7. (Chosen(loop) => Chosen(loop')) /\ loop'.at = "idle"
        BY <2>1, <3>2 DEF Still
      <3> QED BY <2>1, <2>2, <3>1, <3>2, <3>3, <3>6, <3>7 DEF ControlStep
    <2>3. CASE port = "none"
      <3>1. port' = "none" /\ toHost' = toHost
        BY <1>2, <1>16, <2>3, OpenStep
      <3>2. Chosen(loop')
        BY <2>1, <2>3 DEF Handled, Closed, Handling, Greeted, Still, Chosen, NoLoop, Granted, Enrolling, Restored,
             Denied, Required, Retaining, Preparing, Resending, Forgetting, GivingUp, Finishing, Resetting,
             Removing, Ignoring, Parting
      <3>3. toHost' = toHost \o <<>>
        BY <1>1, <3>1
      <3> QED BY <1>3, <2>1, <3>1, <3>2, <3>3 DEF ControlStep
    <2>4. CASE port = "ready"
      <3> DEFINE m == Head(inbox)
      <3>1. m \in Replies /\ m = inbox[1] /\ (Closed(m) \/ (inbox' = Tail(inbox) /\ port' = port /\ Handling(m)))
        BY <1>2, <1>16, <2>4, OpenStep
      <3> HIDE DEF m
      <3>2. CASE Closed(m)
        BY <1>3, <1>9, <2>1, <3>2, SendsNone DEF Closed, Leaves, Still
      <3>3. CASE inbox' = Tail(inbox) /\ port' = port /\ Handling(m)
        <4>1. ASSUME NEW out \in Seq(Requests), NoPre(out), Sends(out), Still PROVE ControlStep
          BY <1>8, <2>1, <3>3, <4>1
        <4>2. ASSUME NEW e \in Requests, ~Pre(e), Sends(<<e>>), Still PROVE ControlStep
          BY <1>4, <4>1, <4>2
        <4>3. ASSUME Sends(<<>>), Still PROVE ControlStep
          BY <1>3, <4>1, <4>3
        <4>4. ASSUME NEW r \in References, NEW reason, NEW cookies \in Cookies, NEW success \in BOOLEAN, NEW count \in Nat
              PROVE  /\ SnapshotChunk(r, "commit", cookies) \in Requests /\ ~Pre(SnapshotChunk(r, "commit", cookies))
                     /\ EvictResult(r, success, count) \in Requests /\ ~Pre(EvictResult(r, success, count))
                     /\ InjectResult(count, success) \in Requests /\ ~Pre(InjectResult(count, success))
          BY <4>4 DEF SnapshotChunk, EvictResult, InjectResult, Requests, References, Pre
        <4>5. CASE Granted(m) \/ Forgetting(m) \/ GivingUp(m) \/ Resetting(m) \/ Ignoring(m) \/ Parting(m)
          BY <4>3, <4>5 DEF Granted, Forgetting, GivingUp, Resetting, Ignoring, Parting, Leaves
        <4>6. ASSUME NEW state, NEW recon, Denied(m, state, recon) PROVE ControlStep
          BY <4>3, <4>6 DEF Denied, Leaves
        <4>7. ASSUME NEW r \in References, Enrolling(m, r) PROVE ControlStep
          <5>1. r.kind = "enrollment"
            BY <4>7 DEF Enrolling, Begun, NoRef
          <5>2. OperationBegin(r, "enroll") \in Requests /\ ~Pre(OperationBegin(r, "enroll"))
            BY <5>1 DEF OperationBegin, Requests, Pre, References, Kinds, Reasons
          <5> QED BY <4>2, <4>7, <5>2 DEF Enrolling, Leaves
        <4>8. ASSUME NEW success \in BOOLEAN, Restored(m, success) PROVE ControlStep
          <5>1. m.lease \in Nat
            BY <3>1, <4>8 DEF Restored, Replies
          <5>2. InjectResult(m.lease, success) \in Requests /\ ~Pre(InjectResult(m.lease, success))
            BY <1>1, <4>4, <5>1
          <5> QED BY <4>2, <4>8, <5>2 DEF Restored, Leaves
        <4>9. ASSUME NEW r \in References, Required(m, r) PROVE ControlStep
          BY <1>1, <4>2, <4>4, <4>9 DEF Required, Leaves
        <4>10. ASSUME NEW count \in Nat, Retaining(m, count) PROVE ControlStep
          <5>1. (count > 0) \in BOOLEAN
            OBVIOUS
          <5>2. EvictResult(ref, count > 0, count) \in Requests /\ ~Pre(EvictResult(ref, count > 0, count))
            BY <1>1, <4>4, <5>1
          <5> QED BY <4>2, <4>10, <5>2 DEF Retaining, Leaves
        <4>11. CASE Resending(m)
          BY <1>1, <4>2, <4>4, <4>11 DEF Resending, Leaves
        <4>12. ASSUME NEW t, Finishing(m, t) PROVE ControlStep
          <5>1. /\ Succeeded(ext, ref.kind) \in Groups /\ Failed(ext) \in Groups /\ NoRef \in References
                /\ [ref EXCEPT !.phase = "reconciliation_required"] \in References
            <6>1. [ref EXCEPT !.phase = "reconciliation_required"] \in References
              BY <1>1, <4>12, PhaseType DEF Finishing, BoundMessage
            <6>2. Succeeded(ext, ref.kind) \in Groups
              BY <1>1 DEF Succeeded, Groups, HostStates
            <6>3. Failed(ext) \in Groups
              <7>1. ext.tries + 1 \in Nat
                BY <1>1 DEF Groups
              <7> QED BY <1>1, <7>1 DEF Failed, Groups, HostStates
            <6> QED BY <6>1, <6>2, <6>3 DEF NoRef, References
          <5>2. t.out \in Seq(Requests) /\ NoPre(t.out)
            BY <1>7, <4>12, <5>1 DEF Finishing
          <5> QED BY <4>1, <4>12, <5>2 DEF Finishing, Leaves
        <4>13. ASSUME NEW r \in References, Preparing(m, r) PROVE ControlStep
          <5> DEFINE out == <<RemovePrepare(ref), SnapshotChunk(ref, "removal_precheck", jar)>>
          <5>1. RemovePrepare(r) = RemovePrepare(ref) /\ SnapshotChunk(r, "removal_precheck", jar) = SnapshotChunk(ref, "removal_precheck", jar)
            BY <1>1, <4>13 DEF Preparing, RemovePrepare, SnapshotChunk, References
          <5>2. RemovePrepare(ref) \in Requests /\ SnapshotChunk(ref, "removal_precheck", jar) \in Requests
            BY <1>1 DEF RemovePrepare, SnapshotChunk, References, Requests
          <5>3. out \in Seq(Requests)
            BY <5>2
          <5>4. Prechecks(out) /\ toHost' = toHost \o out /\ loop' = loop
            BY <1>1, <1>2, <2>1, <2>4, <4>13, <5>1 DEF Preparing, Prechecks, Leaves, Sends, BoundMessage
          <5> HIDE DEF out
          <5>5. Allowed(inbox', op) => Allowed(inbox, op)
            BY <1>6, <2>1, <3>3
          <5> QED BY <2>1, <2>4, <3>3, <5>3, <5>4, <5>5 DEF ControlStep
        <4>14. CASE Removing(m)
          <5>1. toHost' = toHost \o <<>>
            BY <1>1, <2>4, <4>14 DEF Removing, Leaves, Sends
          <5>2. Allowed(inbox, op) /\ (Allowed(inbox', op) => Allowed(inbox, op))
            <6>1. 1 \in 1 .. Len(inbox)
              BY <1>1, <2>1, TailElements
            <6> QED BY <1>2, <1>6, <2>1, <3>1, <3>3, <4>14, <6>1 DEF Removing, BoundMessage, Allowed
          <5>3. ref'.op = op.id /\ op.id # 0
            BY <1>1, <1>2, <4>14 DEF Removing, Leaves, BoundMessage, References
          <5>4. loop'.at = "look" /\ loop'.plan = seen[1]
            BY <4>14 DEF Removing, NoLoop
          <5>5. Starts(<<>>) /\ Chosen(loop')
            BY <1>3, <2>1, <4>14, <5>2, <5>3, <5>4 DEF Removing, Starts, Chosen
          <5> QED BY <1>3, <2>1, <2>4, <3>3, <5>1, <5>2, <5>5 DEF ControlStep
        <4> QED BY <3>3, <4>5, <4>6, <4>7, <4>8, <4>9, <4>10, <4>11, <4>12, <4>13, <4>14 DEF Handling
      <3> QED BY <3>1, <3>2, <3>3
    <2> QED BY <1>1, <2>2, <2>3, <2>4
  <1> QED BY <1>10, <1>11, <1>12, <1>13, <1>14, <1>15, <1>16 DEF Step

\* A step of the controller keeps the removal sound.
LEMMA RemovalControl ==
    ASSUME TypeOK, TypeOK', Order, HostFacts, Removal, ControlStep PROVE Removal'
  <1>1. /\ Apart /\ Chosen(loop') /\ toHost \in Seq(Requests) /\ toHost' \in Seq(Requests) /\ op \in Ops
        /\ Vaulted /\ Calm /\ Latest /\ Planned /\ Paired /\ Sorted /\ Served /\ Past(toHost, op)
        /\ seen \in Seq(Cookies) /\ ref \in References /\ jar \in Cookies
    BY DEF Removal, ControlStep, TypeOK, Order
  <1>2. PICK out \in Seq(Requests) :
          /\ toHost' = toHost \o out
          /\ \/ port' # "ready" /\ NoPre(out)
             \/ /\ port = "open" /\ port' = "ready" /\ NoPre(out) /\ toHost = <<>> /\ inbox' = <<>>
                /\ loop'.at = "idle"
             \/ /\ port = "ready" /\ port' = "ready" /\ (Allowed(inbox', op) => Allowed(inbox, op))
                /\ Keeps(out) \/ Prechecks(out) \/ Starts(out) \/ Turns(out) \/ Stops(out)
    BY DEF ControlStep
  <1>3. /\ Len(toHost') = Len(toHost) + Len(out) /\ Len(toHost) \in Nat /\ Len(out) \in Nat /\ Len(toHost') \in Nat
        /\ \A q \in 1 .. Len(toHost) : q \in 1 .. Len(toHost') /\ toHost'[q] = toHost[q]
        /\ \A q \in 1 .. Len(toHost') : q > Len(toHost) =>
              q - Len(toHost) \in 1 .. Len(out) /\ toHost'[q] = out[q - Len(toHost)]
    <2>1. /\ Len(toHost') = Len(toHost) + Len(out) /\ Len(toHost) \in Nat /\ Len(out) \in Nat
          /\ \A q \in 1 .. Len(toHost) : toHost'[q] = toHost[q]
          /\ \A q \in 1 .. Len(toHost') : q > Len(toHost) =>
                q - Len(toHost) \in 1 .. Len(out) /\ toHost'[q] = out[q - Len(toHost)]
      BY <1>1, <1>2, CatElements
    <2> QED BY <2>1
  <1>4. op' = op /\ vault' = vault /\ host' = host /\ (Committed' <=> Committed) /\ Vaulted'
    BY <1>1 DEF Apart, Vaulted, Committed
  <1>5. \A q \in 1 .. Len(toHost') : q \in 1 .. Len(toHost) \/ q > Len(toHost)
    BY <1>3
  <1>6. ASSUME NoPre(out)
        PROVE  /\ \A q \in 1 .. Len(toHost') : Pre(toHost'[q]) => q \in 1 .. Len(toHost) /\ toHost'[q] = toHost[q]
               /\ NoPre(toHost') <=> NoPre(toHost)
               /\ \A q \in 1 .. Len(toHost') : LastPre(toHost', q) => q \in 1 .. Len(toHost) /\ LastPre(toHost, q) /\ toHost'[q] = toHost[q]
               /\ Paired' /\ Sorted'
    <2>1. \A q \in 1 .. Len(toHost') : Pre(toHost'[q]) => q \in 1 .. Len(toHost) /\ toHost'[q] = toHost[q]
      BY <1>3, <1>5, <1>6 DEF NoPre
    <2>2. NoPre(toHost') <=> NoPre(toHost)
      BY <1>3, <2>1 DEF NoPre
    <2>3. \A q \in 1 .. Len(toHost') : LastPre(toHost', q) => q \in 1 .. Len(toHost) /\ LastPre(toHost, q) /\ toHost'[q] = toHost[q]
      BY <1>3, <2>1 DEF LastPre
    <2>4. Paired'
      <3>1. \A q \in 1 .. Len(toHost) : q > 1 => q - 1 \in 1 .. Len(toHost)
        BY <1>3
      <3>2. \A q \in 1 .. Len(toHost) : q > 1 => toHost'[q - 1] = toHost[q - 1]
        BY <1>3, <3>1
      <3> QED BY <1>1, <1>4, <2>1, <3>2 DEF Paired
    <2>5. Sorted'
      BY <1>1, <2>1 DEF Sorted
    <2> QED BY <2>1, <2>2, <2>3, <2>4, <2>5
  <1>7. ASSUME NoPre(out), port' = "ready" => loop'.at = "idle" /\ inbox' = <<>> /\ NoPre(toHost') PROVE Removal'
    <2>1. ~Allowed(<<>>, op)
      BY DEF Allowed
    <2>2. Calm' /\ Planned' /\ Served'
      BY <1>4, <1>7, <2>1 DEF Calm, Planned, Served, Committed
    <2>3. Latest'
      BY <1>7 DEF Latest, LastPre, NoPre
    <2> QED BY <1>1, <1>4, <1>6, <1>7, <2>2, <2>3 DEF Removal
  <1>8. CASE port' # "ready" /\ NoPre(out)
    BY <1>7, <1>8
  <1>9. CASE /\ port = "open" /\ port' = "ready" /\ NoPre(out) /\ toHost = <<>> /\ inbox' = <<>>
             /\ loop'.at = "idle"
    <2>1. NoPre(toHost)
      BY <1>9 DEF NoPre
    <2> QED BY <1>6, <1>7, <1>9, <2>1
  <1>10. CASE /\ port = "ready" /\ port' = "ready" /\ (Allowed(inbox', op) => Allowed(inbox, op))
              /\ Keeps(out) \/ Prechecks(out) \/ Starts(out) \/ Turns(out) \/ Stops(out)
    <2>1. CASE Keeps(out)
      <3>1. Calm' /\ Planned' /\ Served'
        BY <1>1, <1>4, <1>6, <1>10, <2>1 DEF Keeps, Still, Calm, Planned, Served, Committed
      <3>2. Latest'
        BY <1>1, <1>6, <1>10, <2>1 DEF Keeps, Still, Latest
      <3> QED BY <1>1, <1>4, <1>6, <2>1, <3>1, <3>2 DEF Removal, Keeps
    <2>2. CASE Starts(out)
      <3>1. Calm' /\ Planned' /\ Served'
        BY <1>1, <1>4, <1>6, <1>10, <2>2 DEF Starts, Calm, Planned, Served, Committed
      <3>2. Latest'
        BY <1>1, <1>6, <1>10, <2>2 DEF Starts, Latest
      <3> QED BY <1>1, <1>4, <1>6, <2>2, <3>1, <3>2 DEF Removal, Starts
    <2>3. CASE Turns(out)
      <3>1. Calm' /\ Planned' /\ Served'
        BY <1>1, <1>4, <1>6, <1>10, <2>3 DEF Turns, Calm, Planned, Served, Committed
      <3>2. Latest'
        BY <1>1, <1>6, <1>10, <2>3 DEF Turns, Latest
      <3> QED BY <1>1, <1>4, <1>6, <2>3, <3>1, <3>2 DEF Removal, Turns
    <2>4. CASE Stops(out)
      <3>1. Calm' /\ Planned' /\ Served'
        BY <1>1, <1>4, <1>6, <1>10, <2>4 DEF Stops, Calm, Planned, Served, Committed
      <3>2. Latest'
        BY <1>1, <1>6, <1>10, <2>4 DEF Stops, Latest
      <3> QED BY <1>1, <1>4, <1>6, <2>4, <3>1, <3>2 DEF Removal, Stops
    <2>5. CASE Prechecks(out)
      <3> DEFINE a == RemovePrepare(ref)
                 b == SnapshotChunk(ref, "removal_precheck", jar)
                 n == Len(toHost)
      <3>1. /\ out = <<a, b>> /\ a.type = "evict.remove.prepare" /\ a.op = op.id /\ ~Pre(a)
            /\ Pre(b) /\ b.op = op.id /\ b.cookies = jar
        BY <2>5 DEF Prechecks, RemovePrepare, SnapshotChunk, Pre
      <3>2. Len(out) = 2 /\ out[1] = a /\ out[2] = b
        BY <3>1
      <3> HIDE DEF a, b
      <3>3. /\ Len(toHost') = n + 2 /\ toHost'[n + 1] = a /\ toHost'[n + 2] = b
            /\ \A q \in 1 .. Len(toHost') : q > n => q = n + 1 \/ q = n + 2
        <4>1. n + 1 \in 1 .. Len(toHost') /\ n + 2 \in 1 .. Len(toHost') /\ n + 1 > n /\ n + 2 > n
              /\ n + 1 - n = 1 /\ n + 2 - n = 2
          BY <1>3, <3>2
        <4> QED BY <1>3, <3>2, <4>1
      <3>4. \A q \in 1 .. Len(toHost') : Pre(toHost'[q]) => (q \in 1 .. n /\ toHost'[q] = toHost[q]) \/ (q = n + 2 /\ toHost'[q] = b)
        BY <1>3, <1>5, <3>1, <3>3
      <3>5. n + 2 \in 1 .. Len(toHost') /\ n + 2 - 1 = n + 1 /\ n + 2 > 1 /\ \A q \in 1 .. n : q < n + 2 /\ ~(q > n + 2)
        BY <1>3, <3>3
      <3>6. ~NoPre(toHost') /\ \A q \in 1 .. Len(toHost') : LastPre(toHost', q) => q = n + 2
        BY <3>1, <3>3, <3>4, <3>5 DEF NoPre, LastPre
      <3>7. Paired'
        <4>1. \A q \in 1 .. Len(toHost) : q > 1 => q - 1 \in 1 .. Len(toHost)
          BY <1>3
        <4>2. \A q \in 1 .. Len(toHost) : q > 1 => toHost'[q - 1] = toHost[q - 1]
          BY <1>3, <4>1
        <4> SUFFICES ASSUME NEW q \in 1 .. Len(toHost'), Pre(toHost'[q])
                     PROVE  \/ /\ q > 1 /\ toHost'[q - 1].type = "evict.remove.prepare" /\ toHost'[q - 1].op = toHost'[q].op
                            \/ q = 1 /\ (toHost'[q].op = op.id => host.pending.chunk = <<>> \/ ~host.pending.confirmed)
          BY <1>4 DEF Paired
        <4>3. CASE q \in 1 .. n /\ toHost'[q] = toHost[q]
          BY <1>1, <4>2, <4>3 DEF Paired
        <4>4. CASE q = n + 2 /\ toHost'[q] = b
          BY <3>1, <3>3, <3>5, <4>4
        <4> QED BY <3>4, <4>3, <4>4
      <3>8. Sorted'
        <4>1. \A q \in 1 .. n : Pre(toHost[q]) => toHost[q].op <= op.id
          BY <1>1 DEF Past, Pre, OfOp
        <4>2. op.id <= op.id /\ \A p \in 1 .. Len(toHost') : ~(p < p) /\ (p = n + 2 => \A q \in 1 .. n : ~(p < q))
          BY <1>1, <1>3 DEF Ops
        <4> QED BY <1>1, <3>1, <3>4, <4>1, <4>2 DEF Sorted
      <3>9. Calm' /\ Planned' /\ Latest'
        BY <1>1, <1>4, <1>10, <2>5, <3>1, <3>3, <3>6 DEF Calm, Planned, Latest, Prechecks
      <3>10. Served'
        BY <1>1, <1>4, <1>10, <2>5, <3>1, <3>4 DEF Served, Prechecks, Committed
      <3> QED BY <1>1, <1>4, <3>7, <3>8, <3>9, <3>10 DEF Removal
    <2> QED BY <1>10, <2>1, <2>2, <2>3, <2>4, <2>5
  <1> QED BY <1>2, <1>8, <1>9, <1>10

\* Only a precheck that the host accepts is authorized, and only a snapshot that
\* it stores commits an operation.
LEMMA HostEffects ==
    ASSUME TypeOK, TypeOK', HostFacts, HostStep
    PROVE  /\ Allowed(inbox', op') => \/ op'.id = op.id /\ Allowed(inbox, op)
                                      \/ Checked(Head(toHost))
                                      \/ Started(Head(toHost)) /\ Allowed(inbox, op')
           /\ op'.phase = "BrowserRemovalPending" =>
                 \/ Stored(Head(toHost))
                 \/ Committed /\ op' = op /\ vault' = vault /\ (host.pending.on => host'.pending.on)
           /\ op'.phase = "NotCommitted" => Started(Head(toHost)) \/ (op' = op /\ op.phase = "NotCommitted")
           /\ Started(Head(toHost)) \/ op'.id = op.id
           /\ \/ Started(Head(toHost)) \/ Stored(Head(toHost))
              \/ op'.snapshot = op.snapshot /\ (vault' = vault \/ (vault' = Empty /\ op' = op))
  <1> DEFINE m == Head(toHost)
  <1>1. /\ Outcome(m) /\ m \in Requests /\ inbox \in Seq(Replies) /\ op \in Ops /\ op' \in Ops /\ host \in HostsSet
        /\ m = toHost[1] /\ 1 \in 1 .. Len(toHost) /\ leases \in Nat /\ vault \in Cookies
    BY TailElements DEF HostStep, TypeOK
  <1>2. Pended /\ Resumable
    BY DEF HostFacts
  <1> HIDE DEF m
  <1>3. ASSUME NEW e \in Replies, Says(e), e.type # "evict.remove.authorized", NEW o, Allowed(inbox', o)
        PROVE  Allowed(inbox, o)
    <2>1. \A i \in 1 .. Len(inbox') : (i \in 1 .. Len(inbox) /\ inbox'[i] = inbox[i]) \/ inbox'[i] = e
      BY <1>1, <1>3, SaysElements
    <2> QED BY <1>3, <2>1 DEF Allowed
  <1>4. /\ \A t \in {"lease.deny", "operation.error", "session.invalidated"} :
              Told(t) \in Replies /\ Told(t).type # "evict.remove.authorized"
        /\ LeaseGrant(leases + 1) \in Replies /\ LeaseGrant(leases + 1).type # "evict.remove.authorized"
        /\ Inject(leases + 1, vault) \in Replies /\ Inject(leases + 1, vault).type # "evict.remove.authorized"
    <2>1. leases + 1 \in Nat
      BY <1>1
    <2> QED BY <1>1, <2>1 DEF Told, LeaseGrant, Inject, Replies
  <1>5. ASSUME NEW o \in Ops
        PROVE  /\ SnapshotRequired(o) \in Replies /\ SnapshotRequired(o).type # "evict.remove.authorized"
               /\ Confirmed(o) \in Replies /\ Confirmed(o).type # "evict.remove.authorized"
               /\ Status(o) \in Replies /\ Status(o).type # "evict.remove.authorized"
    <2>1. Status(o) \in Replies /\ Status(o).type # "evict.remove.authorized"
      <3>1. Status(o).action \in {"send_snapshot", "prepare_removal", "completed", "reconciliation_required"}
        BY DEF Status
      <3>2. Status(o) = [type |-> "operation.status", op |-> o.id, action |-> Status(o).action]
        BY DEF Status
      <3>3. o.id \in Nat
        BY DEF Ops
      <3> QED BY <3>1, <3>2, <3>3 DEF Replies
    <2>2. (o.kind = "enrollment") \in BOOLEAN /\ o.id \in Nat /\ o.attempt \in Nat
      BY DEF Ops
    <2> QED BY <2>1, <2>2 DEF SnapshotRequired, Confirmed, Replies
  <1>6. ASSUME NEW success \in BOOLEAN
        PROVE  Completed(op, success) \in Replies /\ Completed(op, success).type # "evict.remove.authorized"
    BY <1>1 DEF Completed, Replies, Ops
  <1>7. ASSUME ~Checked(m), NEW o, Allowed(inbox', o) PROVE Allowed(inbox, o)
    <2>1. CASE Refused(m)
      BY <1>3, <1>4, <1>7, <2>1 DEF Refused
    <2>2. CASE Enrolled(m)
      BY <1>3, <1>4, <1>7, <2>2 DEF Enrolled
    <2>3. CASE Unlocked(m)
      <3> DEFINE a == LeaseGrant(leases + 1)
                 b == Inject(leases + 1, vault)
      <3>1. a \in Replies /\ b \in Replies /\ a.type # "evict.remove.authorized" /\ b.type # "evict.remove.authorized"
        BY <1>4
      <3>2. inbox' = IF port = "none" THEN inbox ELSE (inbox \o <<a>>) \o <<b>>
        BY <2>3 DEF Unlocked
      <3> HIDE DEF a, b
      <3>3. CASE port # "none"
        <4>1. inbox \o <<a>> \in Seq(Replies) /\ Grown(inbox, inbox \o <<a>>, a)
          BY <1>1, <3>1, CatGrows
        <4>2. Grown(inbox \o <<a>>, inbox', b)
          BY <3>1, <3>2, <3>3, <4>1, CatGrows
        <4>3. \A i \in 1 .. Len(inbox') : (i \in 1 .. Len(inbox) /\ inbox'[i] = inbox[i]) \/ inbox'[i] = a \/ inbox'[i] = b
          <5>1. Len(inbox) \in Nat
            BY <1>1, LenProperties
          <5> QED BY <4>1, <4>2, <5>1 DEF Grown
        <4> QED BY <1>7, <3>1, <4>3 DEF Allowed
      <3> QED BY <1>7, <3>2, <3>3
    <2>4. CASE Repeated(m)
      BY <1>1, <1>3, <1>5, <1>7, <2>4 DEF Repeated
    <2>5. CASE Started(m)
      BY <1>1, <1>3, <1>5, <1>7, <2>5 DEF Started
    <2>6. CASE Answered(m)
      BY <1>1, <1>3, <1>5, <1>7, <2>6 DEF Answered
    <2>7. CASE Dropped(m) \/ Invalidated(m)
      BY <1>3, <1>4, <1>7, <2>7 DEF Dropped, Invalidated
    <2>8. CASE Stored(m)
      BY <1>1, <1>3, <1>5, <1>7, <2>8 DEF Stored
    <2>9. ASSUME NEW success \in BOOLEAN, Lost(m, success) PROVE Allowed(inbox, o)
      BY <1>3, <1>6, <1>7, <2>9 DEF Lost
    <2>10. CASE Noted(m)
      BY <1>3, <1>4, <1>7, <2>10 DEF Noted
    <2>11. CASE Prepared(m) \/ Injected(m)
      BY <1>7, <2>11 DEF Prepared, Injected
    <2>12. CASE Retained(m) \/ Sealed(m)
      BY <1>3, <1>6, <1>7, <2>12 DEF Retained, Sealed
    <2> QED BY <1>1, <1>7, <2>1, <2>2, <2>3, <2>4, <2>5, <2>6, <2>7, <2>8, <2>9, <2>10, <2>11, <2>12 DEF Outcome
  <1>8. Started(m) \/ op'.id = op.id
    <2>1. ASSUME NEW phase, NEW state, NEW lease, Ended(phase, state, lease) PROVE op'.id = op.id
      BY <1>1, <2>1 DEF Ended, Ops
    <2>2. Stored(m) => op'.id = op.id
      BY <1>1 DEF Stored, Ops
    <2>3. ASSUME Dropped(m) \/ (\E success \in BOOLEAN : Lost(m, success)) \/ Retained(m) \/ Sealed(m) PROVE op'.id = op.id
      BY <2>1, <2>3 DEF Dropped, Lost, Retained, Sealed
    <2> QED BY <1>1, <2>2, <2>3 DEF Outcome, Refused, Enrolled, Unlocked, Repeated, Answered, Checked,
         Noted, Prepared, Injected, Invalidated, Same
  <1>9. ASSUME NEW phase, NEW state, NEW lease, Ended(phase, state, lease) PROVE op'.phase = phase
    BY <1>1, <1>9 DEF Ended, Ops
  <1>10. Dropped(m) \/ (\E success \in BOOLEAN : Lost(m, success)) \/ Retained(m) \/ Sealed(m)
           => op'.phase \in {"Aborted", "ReconciliationRequired", "Completed"}
    BY <1>9 DEF Dropped, Lost, Retained, Sealed
  <1>11. Stored(m) => op'.phase = "BrowserRemovalPending"
    BY <1>1 DEF Stored, Ops
  <1>12. op'.phase = "NotCommitted" => Started(m) \/ (op' = op /\ op.phase = "NotCommitted")
    BY <1>1, <1>10, <1>11 DEF Outcome, Refused, Enrolled, Unlocked, Repeated, Answered, Checked,
         Noted, Prepared, Injected, Invalidated, Same
  <1>13. ASSUME op'.phase = "BrowserRemovalPending", ~Stored(m)
         PROVE  op' = op /\ vault' = vault /\ (host.pending.on => host'.pending.on)
    <2>1. ~Started(m)
      BY <1>13 DEF Started
    <2>2. CASE Refused(m) \/ Repeated(m) \/ Enrolled(m) \/ Unlocked(m) \/ Injected(m)
      BY <1>1, <2>2 DEF Refused, Repeated, Enrolled, Unlocked, Injected, Same, HostsSet
    <2>3. CASE Answered(m)
      <3>1. op' = op /\ vault' = vault
        BY <2>3 DEF Answered
      <3>2. ASSUME host.pending.on PROVE host'.pending.on
        <4>1. host' = [host EXCEPT !.pending = host.pending]
          BY <2>3, <3>2 DEF Answered
        <4> QED BY <1>1, <3>2, <4>1 DEF HostsSet
      <3> QED BY <3>1, <3>2
    <2>4. CASE Checked(m) \/ Noted(m) \/ Prepared(m)
      <3>1. /\ [host.pending EXCEPT !.chunk = <<m.cookies>>].on = host.pending.on
            /\ [host.pending EXCEPT !.counted = FALSE, !.chunk = <<>>].on = host.pending.on
        BY <1>1 DEF HostsSet, Pendings
      <3> QED BY <1>1, <2>4, <3>1 DEF Checked, Noted, Prepared, HostsSet
    <2>5. CASE Invalidated(m)
      <3>1. op' = op /\ m.type = "session.invalidate" /\ ~host.pending.on
        BY <2>5 DEF Invalidated
      <3> QED BY <1>1, <1>2, <1>13, <3>1 DEF Resumable, Committed
    <2> QED BY <1>1, <1>10, <1>13, <2>1, <2>2, <2>3, <2>4, <2>5 DEF Outcome
  <1>14. \/ Started(m) \/ Stored(m)
         \/ op'.snapshot = op.snapshot /\ (vault' = vault \/ (vault' = Empty /\ op' = op))
    <2>1. ASSUME NEW phase, NEW state, NEW lease, Ended(phase, state, lease)
          PROVE  op'.snapshot = op.snapshot /\ vault' = vault
      BY <1>1, <2>1 DEF Ended, Ops
    <2>2. ASSUME Dropped(m) \/ (\E success \in BOOLEAN : Lost(m, success)) \/ Retained(m) \/ Sealed(m)
          PROVE  op'.snapshot = op.snapshot /\ vault' = vault
      BY <2>1, <2>2 DEF Dropped, Lost, Retained, Sealed
    <2> QED BY <1>1, <2>2 DEF Outcome, Refused, Enrolled, Unlocked, Repeated, Answered, Checked,
         Noted, Prepared, Injected, Invalidated, Same
  <1> QED BY <1>7, <1>8, <1>12, <1>13, <1>14 DEF m, Allowed, Committed

\* A handler of the host keeps the removal sound.
LEMMA RemovalHost ==
    ASSUME TypeOK, TypeOK', Order, HostFacts, Removal, HostStep PROVE Removal'
  <1> DEFINE m == Head(toHost)
  <1>1. /\ toHost # <<>> /\ toHost' = Tail(toHost) /\ Outcome(m) /\ port' = port /\ loop' = loop /\ seen' = seen
        /\ ref' = ref /\ toHost \in Seq(Requests) /\ op \in Ops /\ op' \in Ops /\ host \in HostsSet /\ host' \in HostsSet
        /\ Vaulted /\ Calm /\ Latest /\ Planned /\ Paired /\ Sorted /\ Served /\ Chosen(loop)
        /\ Past(toHost, op) /\ Past(inbox, op) /\ Pended /\ ref \in References /\ inbox \in Seq(Replies)
    BY DEF Removal, HostStep, TypeOK, Order, HostFacts, Still, Quietly
  <1>2. /\ m = toHost[1] /\ m \in Requests /\ Len(toHost') = Len(toHost) - 1 /\ 1 \in 1 .. Len(toHost)
        /\ Len(toHost) \in Nat /\ Len(toHost') \in Nat
        /\ \A q \in 1 .. Len(toHost') : q + 1 \in 1 .. Len(toHost) /\ toHost'[q] = toHost[q + 1]
        /\ \A q \in 1 .. Len(toHost) : q = 1 \/ (q - 1 \in 1 .. Len(toHost') /\ toHost'[q - 1] = toHost[q])
    BY <1>1, TailElements
  <1>3. /\ Allowed(inbox', op') => \/ op'.id = op.id /\ Allowed(inbox, op)
                                   \/ Checked(m)
                                   \/ Started(m) /\ Allowed(inbox, op')
        /\ op'.phase = "BrowserRemovalPending" =>
              \/ Stored(m)
              \/ Committed /\ op' = op /\ vault' = vault /\ (host.pending.on => host'.pending.on)
        /\ op'.phase = "NotCommitted" => Started(m) \/ (op' = op /\ op.phase = "NotCommitted")
        /\ Started(m) \/ op'.id = op.id
        /\ \/ Started(m) \/ Stored(m)
           \/ op'.snapshot = op.snapshot /\ (vault' = vault \/ (vault' = Empty /\ op' = op))
    BY HostEffects
  <1> HIDE DEF m
  <1>4. /\ op.id \in Nat /\ op'.id \in Nat /\ ref.op \in Nat
        /\ host.pending.on /\ host.pending.confirmed <=> Committed /\ host.pending.on
        /\ Committed => op.phase # "NotCommitted"
    BY <1>1 DEF Ops, References, Pended, Committed
  \* an operation that starts has a new identity, and no removal is under way
  <1>5. ASSUME Started(m)
        PROVE  ~Allowed(inbox, op') /\ (port = "ready" => loop.at = "idle") /\ op'.phase = "NotCommitted" /\ op'.id # op.id
    <2>1. op'.id = op.id + 1 /\ op'.phase = "NotCommitted"
      BY <1>5 DEF Started
    <2>2. ~Allowed(inbox, op')
      <3>1. \A i \in 1 .. Len(inbox) : inbox[i].type = "evict.remove.authorized" => inbox[i].op <= op.id
        BY <1>1 DEF Past, HasOp
      <3>2. ~(op.id + 1 <= op.id)
        BY <1>4
      <3> QED BY <2>1, <3>1, <3>2 DEF Allowed
    <2>3. ASSUME ref.op # 0 PROVE FALSE
      <3>1. ref.attempt = op.attempt /\ ref.attempt \in Nat /\ op.attempt \in Nat /\ ref.attempt # 0
        BY <1>1, <2>3 DEF Order, Referred, References, Ops
      <3>2. m.attempt <= ref.attempt /\ op.attempt <= m.attempt /\ m.attempt \in Nat /\ m.attempt # op.attempt
        BY <1>2, <1>5, <3>1 DEF Started, Order, Queued, Requests
      <3> QED BY <3>1, <3>2
    <2>4. op'.id # op.id
      BY <1>4, <2>1
    <2> QED BY <1>1, <2>1, <2>2, <2>3, <2>4 DEF Calm
  <1>6. ASSUME Stored(m) PROVE op.phase = "NotCommitted" /\ host.pending.on /\ m.type = "cookies.snapshot.chunk" /\ ~Pre(m)
    BY <1>1, <1>6 DEF Stored, Serving, Pended, Unresolved, Committed, Pre
  <1>7. Vaulted'
    <2>1. CASE Stored(m)
      <3>1. op'.snapshot = m.cookies /\ op'.phase = "BrowserRemovalPending"
        BY <1>1, <2>1 DEF Stored, Ops
      <3> QED BY <2>1, <3>1 DEF Stored, Vaulted
    <2>2. CASE Started(m)
      <3>1. op'.snapshot = Empty
        BY <2>2 DEF Started
      <3> QED BY <3>1 DEF Vaulted
    <2>3. CASE ~Stored(m) /\ ~Started(m)
      BY <1>1, <1>3, <2>3 DEF Vaulted, Committed
    <2> QED BY <2>1, <2>2, <2>3
  <1>8. Checked(m) => host.pending.on /\ host.pending.confirmed /\ Pre(m) /\ m.op = op.id /\ m.cookies = op.snapshot /\ op' = op
    BY DEF Checked, Serving, Pre
  <1>9. Calm'
    <2>1. ASSUME port = "ready", op'.phase = "NotCommitted" PROVE loop.at = "idle" /\ ~Allowed(inbox', op')
      BY <1>1, <1>3, <1>4, <1>5, <1>8, <2>1 DEF Calm
    <2>2. ASSUME port = "ready", loop.at # "idle" PROVE ref.op = op'.id /\ op'.id # 0
      BY <1>1, <1>3, <1>5, <2>2 DEF Calm
    <2> QED BY <1>1, <2>1, <2>2 DEF Calm
  <1>10. \A q \in 1 .. Len(toHost') : LastPre(toHost', q) => LastPre(toHost, q + 1)
    <2>1. ASSUME NEW q \in 1 .. Len(toHost'), LastPre(toHost', q), NEW p \in 1 .. Len(toHost), p > q + 1 PROVE ~Pre(toHost[p])
      <3>1. p # 1 /\ p - 1 > q
        BY <1>2, <2>1
      <3> QED BY <1>2, <2>1, <3>1 DEF LastPre
    <2> QED BY <1>2, <2>1 DEF LastPre
  <1>11. Latest'
    BY <1>1, <1>2, <1>10 DEF Latest
  <1>12. Sorted'
    <2>1. \A p, q \in 1 .. Len(toHost') : p < q => p + 1 < q + 1
      BY <1>2
    <2> QED BY <1>1, <1>2, <2>1 DEF Sorted
  <1>13. Paired'
    <2> SUFFICES ASSUME NEW q \in 1 .. Len(toHost'), Pre(toHost'[q])
                 PROVE  \/ /\ q > 1 /\ toHost'[q - 1].type = "evict.remove.prepare" /\ toHost'[q - 1].op = toHost'[q].op
                        \/ q = 1 /\ (toHost'[q].op = op'.id => host'.pending.chunk = <<>> \/ ~host'.pending.confirmed)
      BY DEF Paired
    <2>1. /\ q + 1 \in 1 .. Len(toHost) /\ toHost'[q] = toHost[q + 1] /\ q + 1 > 1 /\ (q + 1) - 1 = q /\ q + 1 # 1
          /\ q \in 1 .. Len(toHost)
      BY <1>2
    <2>2. toHost[q].type = "evict.remove.prepare" /\ toHost[q].op = toHost'[q].op
      BY <1>1, <2>1 DEF Paired
    <2>3. CASE q = 1
      <3>1. m.type = "evict.remove.prepare" /\ m.op = toHost'[q].op
        BY <1>2, <2>2, <2>3
      <3>2. Refused(m) \/ Prepared(m)
        BY <1>1, <3>1 DEF Outcome, Enrolled, Unlocked, Repeated, Started, Answered, Dropped, Stored, Checked,
           Lost, Noted, Retained, Sealed, Injected, Invalidated
      <3>3. CASE Refused(m)
        <4>1. ~Serving(m) \/ ~host.pending.confirmed
          BY <3>1, <3>3 DEF Refused
        <4>2. host' = host /\ op' = op
          BY <3>3 DEF Refused, Same
        <4>3. ~host.pending.on => host.pending.chunk = <<>>
          BY <1>1 DEF Pended, NoPending
        <4> QED BY <2>3, <3>1, <4>1, <4>2, <4>3 DEF Serving
      <3>4. CASE Prepared(m)
        <4>1. [host.pending EXCEPT !.counted = FALSE, !.chunk = <<>>].chunk = <<>>
          BY <1>1 DEF HostsSet, Pendings
        <4>2. host'.pending.chunk = <<>>
          BY <1>1, <3>4, <4>1 DEF Prepared, HostsSet
        <4> QED BY <2>3, <4>2
      <3> QED BY <3>2, <3>3, <3>4
    <2>4. CASE q # 1
      <3>1. q > 1 /\ q - 1 \in 1 .. Len(toHost') /\ (q - 1) + 1 = q
        BY <1>2, <2>4
      <3>2. toHost'[q - 1] = toHost[q]
        BY <1>2, <3>1
      <3> QED BY <2>2, <3>1, <3>2
    <2> QED BY <2>3, <2>4
  <1>14. Served'
    <2>1. SUFFICES ASSUME port = "ready", op'.phase = "BrowserRemovalPending", loop.at # "idle" \/ Allowed(inbox', op')
                   PROVE  host'.pending.on /\ \A q \in 1 .. Len(toHost') : Pre(toHost'[q]) => toHost'[q].op = op'.id
      BY <1>1 DEF Served, Committed
    <2>2. ~Stored(m) /\ ~Started(m)
      BY <1>1, <1>3, <1>5, <1>6, <1>8, <1>4, <2>1 DEF Calm
    <2>3. Committed /\ op' = op /\ (host.pending.on => host'.pending.on)
      BY <1>3, <2>1, <2>2
    <2>4. CASE loop.at # "idle" \/ Allowed(inbox, op)
      BY <1>1, <1>2, <2>1, <2>3, <2>4 DEF Served
    <2>5. CASE Checked(m)
      <3>1. \A q \in 1 .. Len(toHost') : Pre(toHost'[q]) => m.op <= toHost'[q].op
        <4>1. \A q \in 1 .. Len(toHost') : 1 < q + 1
          BY <1>2
        <4> QED BY <1>1, <1>2, <1>8, <2>5, <4>1 DEF Sorted
      <3>2. \A q \in 1 .. Len(toHost') : Pre(toHost'[q]) => toHost'[q].op <= op.id /\ toHost'[q].op \in Nat
        <4>1. \A q \in 1 .. Len(toHost') : toHost'[q] \in Requests
          BY <1>1, <1>2, ElementOfSeq
        <4>2. \A q \in 1 .. Len(toHost') : Pre(toHost'[q]) => toHost'[q].op \in Nat
          BY <4>1 DEF Pre, Requests
        <4> QED BY <1>1, <1>2, <4>2 DEF Past, Pre, OfOp
      <3>3. \A x \in Nat : op.id <= x /\ x <= op.id => x = op.id
        BY <1>4
      <3> QED BY <1>8, <2>3, <2>5, <3>1, <3>2, <3>3
    <2> QED BY <1>3, <2>1, <2>2, <2>4, <2>5
  <1>15. Planned'
    <2>1. SUFFICES ASSUME port = "ready", op'.phase = "BrowserRemovalPending", NoPre(toHost')
                   PROVE  /\ loop.at = "idle" /\ seen # <<>> /\ Allowed(inbox', op') => seen[1] = op'.snapshot
                          /\ loop.at # "idle" => loop.plan = op'.snapshot
      BY <1>1 DEF Planned, Committed
    <2> DEFINE planned == /\ loop.at = "idle" /\ seen # <<>> => seen[1] = op'.snapshot
                          /\ loop.at # "idle" => loop.plan = op'.snapshot
    <2>2. SUFFICES ASSUME loop.at # "idle" \/ Allowed(inbox', op') PROVE planned
      <3> HIDE DEF planned
      <3>1. ASSUME planned PROVE /\ loop.at = "idle" /\ seen # <<>> /\ Allowed(inbox', op') => seen[1] = op'.snapshot
                                 /\ loop.at # "idle" => loop.plan = op'.snapshot
        BY <3>1 DEF planned
      <3> QED BY <3>1
    <2>3. ~Stored(m) /\ ~Started(m)
      BY <1>1, <1>3, <1>5, <1>6, <1>8, <1>4, <2>1, <2>2 DEF Calm
    <2>4. Committed /\ op' = op
      BY <1>3, <2>1, <2>3
    <2>5. CASE ~Pre(m)
      <3>1. NoPre(toHost) /\ ~Checked(m)
        BY <1>2, <1>8, <2>1, <2>5 DEF NoPre
      <3> QED BY <1>1, <1>3, <2>1, <2>2, <2>3, <2>4, <3>1 DEF Planned
    <2>6. CASE Pre(m)
      <3>1. LastPre(toHost, 1)
        <4>1. \A p \in 1 .. Len(toHost) : p > 1 => ~Pre(toHost[p])
          BY <1>2, <2>1 DEF NoPre
        <4> QED BY <1>2, <2>6, <4>1 DEF LastPre
      <3>2. /\ loop.at = "idle" => seen \in {<<>>, <<m.cookies>>}
            /\ loop.at # "idle" => loop.plan = m.cookies
        BY <1>1, <1>2, <2>1, <3>1 DEF Latest
      <3>3. m.cookies = op.snapshot
        <4>1. CASE Checked(m)
          BY <1>8, <4>1
        <4>2. CASE ~Checked(m)
          <5>1. host.pending.on /\ m.op = op.id
            BY <1>1, <1>2, <1>3, <2>1, <2>2, <2>3, <2>4, <2>6, <4>2 DEF Served
          <5>2. host.pending.confirmed /\ host.pending.chunk = <<>>
            BY <1>1, <1>2, <1>4, <2>4, <2>6, <5>1 DEF Paired
          <5>3. ~Refused(m)
            BY <2>6, <5>1, <5>2 DEF Refused, Serving, Pre
          <5>4. ~Noted(m)
            <6>1. <<>> # <<m.cookies>>
              OBVIOUS
            <6> QED BY <2>6, <5>2, <6>1 DEF Noted, Pre
          <5>5. ASSUME NEW success \in BOOLEAN, Lost(m, success) PROVE FALSE
            <6>1. op'.phase = "ReconciliationRequired"
              BY <1>1, <5>5 DEF Lost, Ended, Ops
            <6> QED BY <2>1, <6>1
          <5> QED BY <1>1, <2>3, <2>6, <4>2, <5>3, <5>4, <5>5 DEF Outcome, Pre, Enrolled, Unlocked, Repeated, Answered,
               Dropped, Prepared, Retained, Sealed, Injected, Invalidated
        <4> QED BY <4>1, <4>2
      <3> QED BY <2>4, <3>2, <3>3
    <2> QED BY <2>5, <2>6
  <1> QED BY <1>1, <1>7, <1>9, <1>11, <1>12, <1>13, <1>14, <1>15 DEF Removal

\* Every step keeps it.
LEMMA RemovalKept ==
    ASSUME TypeOK, TypeOK', Order, HostFacts, Removal, Step PROVE Removal'
  <1>1. CASE HostStep
    BY <1>1, RemovalHost
  <1>2. /\ op \in Ops /\ Vaulted /\ Chosen(loop) /\ Ported
    BY DEF Removal, HostFacts, TypeOK
  <1>3. ASSUME toHost' = <<>>, port' # "ready", vault' = vault, loop' = loop,
               op'.snapshot = op.snapshot, op'.phase = op.phase \/ op'.phase = "Aborted" PROVE Removal'
    BY <1>2, <1>3 DEF Removal, Vaulted, Calm, Latest, Planned, Paired, Sorted, Served, Committed
  <1>4. CASE EndStep
    BY <1>3, <1>4 DEF EndStep, Still
  <1>5. CASE ConnectStep
    <2>1. op'.snapshot = op.snapshot /\ (op'.phase = op.phase \/ op'.phase = "Aborted")
      BY <1>2, <1>5 DEF ConnectStep, Ops
    <2>2. toHost' = <<>>
      BY <1>2, <1>5 DEF ConnectStep, Ported
    <2> QED BY <1>3, <1>5, <2>1, <2>2 DEF ConnectStep, Still
  <1>6. CASE ~HostStep /\ ~EndStep /\ ~ConnectStep
    BY <1>6, ControlSteps, RemovalControl
  <1> QED BY <1>1, <1>4, <1>5, <1>6

\* A removal step is a turn of the loop that takes a value of its plan away.
LEMMA RemoveVaulted ==
    ASSUME TypeOK, HostFacts, Removal
    PROVE  /\ Remove
           /\ jar[loop.name] = loop.value
           /\ \/ loop.plan = op.snapshot
              \/ /\ port = "ready" /\ op.phase = "BrowserRemovalPending"
                 /\ ~\E q \in DOMAIN toHost : /\ toHost[q].type = "cookies.snapshot.chunk"
                                              /\ toHost[q].purpose = "removal_precheck"
           => vault[loop.name] = loop.value \/ (vault = Empty /\ ~Unresolved)
  <1> SUFFICES ASSUME loop.at = "remove",
                      \/ loop.plan = op.snapshot
                      \/ /\ port = "ready" /\ op.phase = "BrowserRemovalPending"
                         /\ ~\E q \in DOMAIN toHost : /\ toHost[q].type = "cookies.snapshot.chunk"
                                                      /\ toHost[q].purpose = "removal_precheck"
               PROVE  vault[loop.name] = loop.value \/ (vault = Empty /\ ~Unresolved)
    BY DEF Remove
  <1>1. loop.plan = op.snapshot
    <2>1. CASE /\ port = "ready" /\ op.phase = "BrowserRemovalPending"
               /\ ~\E q \in DOMAIN toHost : /\ toHost[q].type = "cookies.snapshot.chunk"
                                            /\ toHost[q].purpose = "removal_precheck"
      <3>1. DOMAIN toHost = 1 .. Len(toHost)
        BY LenProperties DEF TypeOK
      <3>2. NoPre(toHost)
        BY <2>1, <3>1 DEF NoPre, Pre
      <3> QED BY <2>1, <3>2 DEF Removal, Planned, Committed
    <2> QED BY <2>1
  <1>2. loop.name \in Names /\ loop.value # 0 /\ loop.value = op.snapshot[loop.name]
    BY <1>1 DEF Removal, Chosen
  <1>3. op.snapshot # Empty
    BY <1>2 DEF Empty
  <1> QED BY <1>2, <1>3 DEF Removal, Vaulted, Committed, Unresolved

-----------------------------------------------------------------------------
(* The lease that the extension holds: what may be on its way.             *)
(*                                                                         *)
(* LeasedAgrees is about a moment when nothing is on its way.  Its         *)
(* inductive form, Agreement, says of every message that may be on its way *)
(* what it means for the lease: which lease it sets or ends, before or     *)
(* after which other message it comes, and what the host has meanwhile.    *)

In == 1 .. Len(inbox)
Out == 1 .. Len(toHost)
Ready == port = "ready"
Enrolment == op.kind = "enrollment"
Uncommitted == op.phase = "NotCommitted"

\* Messages about the journal's last operation.
OfLast(m, type) == m.type = type /\ m.op = op.id
Won(m) == OfLast(m, "operation.completed") /\ m.success
Keeping(m) == OfLast(m, "evict.result") /\ m.success /\ m.remaining > 0
Chunk(m) == OfLast(m, "cookies.snapshot.chunk")
Precheck(m) == Chunk(m) /\ m.purpose = "removal_precheck"
Preparation(m) == OfLast(m, "operation.status") /\ m.action = "prepare_removal"

\* Messages that end the group, that end a lease, that set one and that refuse one.
Ends(m) == m.type = "session.invalidated"
Cancels(m) == m.type \in {"operation.snapshot_required", "session.invalidated"}
Sets(m) == m.type \in {"lease.grant", "cookies.inject"}
Refuses(m) == m.type \in {"lease.deny", "operation.error"}

NoEnd == \A i \in In : ~Ends(inbox[i])
NoneWon == \A i \in In : ~Won(inbox[i])
EndAfter(i) == \E j \in In : j > i /\ Ends(inbox[j])
CancelAfter(i) == \E j \in In : j > i /\ Cancels(inbox[j])
LastSets(i) == Sets(inbox[i]) /\ \A j \in In : j > i => ~Sets(inbox[j])
HostLeased(l) == host.state = "leased" /\ host.lease = l

\* The numbers of the leases on their way were issued, and an injection has
\* another one than every grant and injection after it.
Numbered ==
    /\ leases \in Nat /\ host.lease \in 0 .. leases
    /\ \A i \in In : Sets(inbox[i]) => inbox[i].lease \in 1 .. leases
    /\ \A q \in Out : toHost[q].type = "inject.result" => toHost[q].lease \in 1 .. leases
Distinct ==
    \A i, j \in In : inbox[i].type = "cookies.inject" /\ j > i /\ Sets(inbox[j]) =>
        inbox[i].lease # inbox[j].lease

\* A result is for an operation that is over, nothing is asked of a host before its
\* handshake, and its handshake comes without results.
Decided ==
    \A i \in In : OfLast(inbox[i], "operation.completed") => op.phase \in {"Completed", "ReconciliationRequired"}
Opened == port = "open" => ~host.pending.on
Alone == \A i, j \in In : inbox[i].type = "handshake.ack" => inbox[j].type # "operation.completed"

\* The reference's own operation has no snapshot before the controller knows its
\* identity, and a snapshot that is required is then still missing.
Unsent ==
    ref.op = 0 /\ ref.attempt # 0 /\ ref.attempt = op.attempt =>
        op.phase \in {"NotCommitted", "Aborted"} /\ \A q \in Out : ~Chunk(toHost[q])
Awaited ==
    /\ Ready /\ ref.op = 0 /\ ref.attempt # 0 /\ ref.attempt = op.attempt
    /\ \E i \in In : OfLast(inbox[i], "operation.snapshot_required")
    => Uncommitted

\* While an operation is unresolved no grant and no end comes after its
\* snapshot_required, and nothing of a removal is on its way before the commit.
Before ==
    Ready /\ Unresolved => \A j, k \in In :
        OfLast(inbox[k], "operation.snapshot_required") /\ (Sets(inbox[j]) \/ Ends(inbox[j])) => j < k
Early ==
    Ready /\ Uncommitted =>
        /\ \A i \in In : ~OfLast(inbox[i], "evict.confirmed") /\ ~Preparation(inbox[i])
        /\ \A q \in Out : ~Precheck(toHost[q]) /\ ~OfLast(toHost[q], "evict.result")

\* An enrolment whose cookies are about to be kept is not removed: no precheck and
\* no authorization is on its way beside evict.confirmed, a result that keeps the
\* cookies, or operation.completed.
RetainedAlone ==
    Ready /\ Enrolment => \A i \in In : OfLast(inbox[i], "evict.confirmed") =>
        /\ inbox[i].retain
        /\ \A j \in In : ~OfLast(inbox[j], "evict.remove.authorized")
        /\ \A j \in In : j < i => ~Preparation(inbox[j])
        /\ \A q \in Out : ~Precheck(toHost[q])
KeepingAlone ==
    Ready /\ Enrolment /\ Committed => \A q \in Out : Keeping(toHost[q]) =>
        /\ \A p \in Out : p < q => ~Precheck(toHost[p])
        /\ \A j \in In : ~OfLast(inbox[j], "evict.remove.authorized")
WonAlone ==
    Ready /\ Enrolment /\ ~NoneWon => \A j \in In : ~OfLast(inbox[j], "evict.remove.authorized")

\* A host without a session: what was before its end is followed by the end, and the
\* last lease on its way is the host's.
Unborn ==
    Ready /\ host.state = "uninitialized" =>
        /\ NoEnd => /\ ext.state \notin {"leased", "sealed"} /\ ~ext.inval
                    /\ ext.asked # "inject" /\ loop.at = "idle"
        /\ \A i \in In : inbox[i].type \in {"operation.snapshot_required", "operation.completed", "evict.confirmed",
                                            "evict.remove.authorized", "cookies.inject"} => EndAfter(i)
Granting ==
    Ready /\ host.state = "uninitialized" =>
        \A i \in In : LastSets(i) /\ ~EndAfter(i) => inbox[i].lease = host.lease

\* An enrolment under way: its snapshot is to come, it is to be committed, or its
\* cookies are to be kept.
Stage ==
    \/ Uncommitted
    \/ Committed /\ ((\E i \in In : OfLast(inbox[i], "evict.confirmed")) \/ \E q \in Out : Keeping(toHost[q]))
    \/ ~NoneWon
Beginning == Ready /\ Enrolment /\ ref.op = 0 /\ ref.attempt = op.attempt /\ Uncommitted /\ NoEnd
Underway == Ready /\ Enrolment /\ ref.op = op.id /\ Stage

\* An enrolment is chained to the eviction that asked for it, nothing disturbs it,
\* and a lease that is still asked for was or will be refused before it goes on.
Chain == ext.asked = "enroll" \/ ref.kind = "enrollment" => ext.chained
Unasked == ref.op # 0 /\ (ext.asked = "enroll" \/ ext.state = "uninitialized") => NoneWon
Over ==
    /\ Ready /\ ref.attempt # 0 /\ ref.kind # "enrollment"
    /\ ext.asked = "enroll" \/ ext.state = "uninitialized"
    => /\ ~Unresolved
       /\ ref.op = 0 => /\ host.state = "uninitialized"
                        /\ \A q \in Out : toHost[q].type = "operation.begin" => toHost[q].kind # "enrollment"
Undisturbed ==
    Beginning \/ Underway =>
        /\ ext.state \notin {"leased", "sealed"} /\ ~ext.inval /\ ext.asked # "inject" /\ loop.at = "idle"
        /\ \A i \in In : inbox[i].type # "cookies.inject"
Operating == Underway => ext.state \in {"evicting", "degraded"}
AnsweredFirst ==
    Underway /\ ext.asked # "none" =>
        /\ ext.evicting
        /\ \/ /\ Uncommitted
              /\ \E p \in Out : toHost[p].type = "lease.request" /\ \A q \in Out : q < p => ~Chunk(toHost[q])
           \/ /\ \E i \in In : Refuses(inbox[i]) /\ \A j \in In : j < i => ~OfLast(inbox[j], "evict.confirmed")
              /\ \A q \in Out : ~Keeping(toHost[q])
              /\ NoneWon
Outstanding ==
    Ready /\ ext.asked # "none" =>
        \/ \E q \in Out : toHost[q].type = "lease.request"
        \/ \E i \in In : Refuses(inbox[i]) \/ inbox[i].type = "lease.grant"

\* The lease of an enrolment is the one that the controller has, or will have when
\* its inbox is empty.
Coming(l) ==
    /\ \A i \in In : LastSets(i) => inbox[i].lease = l
    /\ (\A i \in In : ~Sets(inbox[i])) => ext.lease = l
LeaseToCome ==
    /\ Ready /\ ref.kind = "enrollment" /\ ref.op = 0 /\ NoEnd
    /\ host.state = "uninitialized" \/ (ref.attempt = op.attempt /\ Uncommitted)
    => Coming(host.lease)
LeaseMeant ==
    Ready /\ Enrolment /\ ref.op = op.id /\ (Unresolved \/ ~NoneWon) /\ NoEnd =>
        ext.lease = host.lease /\ \A i \in In : ~Sets(inbox[i])

\* What is restored under the host's lease is not an enrolment's.
Restoring(l) ==
    \/ \E i \in In : inbox[i].type = "cookies.inject" /\ inbox[i].lease = l
    \/ \E q \in Out : toHost[q].type = "inject.result" /\ toHost[q].lease = l
Restorable == Ready /\ Restoring(host.lease) => host.state # "uninitialized" /\ ~Enrolment

\* A lease that the extension has, will have by an injection or by a result that it
\* waits for, or that is granted to it, is the host's, or it is ended by a message
\* on its way; a failed injection has no other message of its lease.
FailedRestore ==
    Ready => \A q \in Out : toHost[q].type = "inject.result" /\ ~toHost[q].success =>
        /\ \A i \in In : Sets(inbox[i]) => inbox[i].lease # toHost[q].lease
        /\ HostLeased(toHost[q].lease) /\ ext.state = "leased" /\ ext.lease = toHost[q].lease => CancelAfter(0)
Leaving ==
    /\ host.state = "degraded" /\ host.lease = ext.lease /\ ~Unresolved
    /\ \E q \in Out : toHost[q].type = "session.invalidate" /\ toHost[q].lease = ext.lease
LeasedKnown == Ready /\ ext.state = "leased" => CancelAfter(0) \/ HostLeased(ext.lease) \/ Leaving
RestoreKnown ==
    Ready => \A i \in In : inbox[i].type = "cookies.inject" => HostLeased(inbox[i].lease) \/ CancelAfter(i)
WonKnown ==
    Ready /\ Enrolment => \A i \in In : Won(inbox[i]) =>
        \/ EndAfter(i)
        \/ host.state \in {"leased", "degraded"} /\ \A j \in In : j > i => ~Sets(inbox[j])
Claims(m) == m.type = "cookies.inject" \/ (Won(m) /\ Enrolment)
Clear(i) ==
    /\ ext.state = "leased" => \E k \in In : k < i /\ Cancels(inbox[k])
    /\ \A c \in In : c < i /\ Claims(inbox[c]) => \E k \in In : c < k /\ k < i /\ Cancels(inbox[k])
GrantKnown ==
    Ready => \A i \in In : inbox[i].type = "lease.grant" =>
        HostLeased(inbox[i].lease) \/ CancelAfter(i) \/ Clear(i)

Agreement ==
    /\ Numbered /\ Distinct /\ Decided /\ Opened /\ Alone /\ Unsent /\ Awaited /\ Before /\ Early
    /\ RetainedAlone /\ KeepingAlone /\ WonAlone /\ Unborn /\ Granting
    /\ Chain /\ Unasked /\ Over /\ Undisturbed /\ Operating /\ AnsweredFirst /\ Outstanding
    /\ LeaseToCome /\ LeaseMeant /\ Restorable
    /\ FailedRestore /\ LeasedKnown /\ RestoreKnown /\ WonKnown /\ GrantKnown
-----------------------------------------------------------------------------
(* Steps by what they do to the queues and to the fields above.            *)

Indexed ==
    /\ \A i \in In : i \in Nat /\ 1 <= i
    /\ \A i \in In' : i \in Nat /\ 1 <= i
    /\ \A q \in Out : q \in Nat /\ 1 <= q
    /\ \A q \in Out' : q \in Nat /\ 1 <= q

\* A reply comes last, a message leaves the queue to the host, the controller takes
\* the first reply, and it sends something.
Hears(e) ==
    /\ \A i \in In : i \in In' /\ inbox'[i] = inbox[i]
    /\ \A i \in In' : i \in In \/ (port # "none" /\ inbox'[i] = e /\ \A j \in In : j < i)
    /\ port # "none" => \E i \in In' : inbox'[i] = e /\ \A j \in In : j < i
HearsNothing == inbox' = inbox /\ In' = In
HearsTwo(a, b) ==
    /\ \A i \in In : i \in In' /\ inbox'[i] = inbox[i]
    /\ \A i \in In' : \/ i \in In
                      \/ /\ port # "none" /\ inbox'[i] = a /\ \A j \in In : j < i
                         /\ \A j \in In' : j > i => inbox'[j] = b
                      \/ port # "none" /\ inbox'[i] = b /\ \A j \in In' : j <= i
    /\ port # "none" => \E i \in In' : inbox'[i] = a
Drains(m) ==
    /\ 1 \in Out /\ toHost[1] = m
    /\ \A q \in Out' : q + 1 \in Out /\ toHost'[q] = toHost[q + 1]
    /\ \A q \in Out : q = 1 \/ (q - 1 \in Out' /\ toHost'[q - 1] = toHost[q])
Takes(m) ==
    /\ 1 \in In /\ inbox[1] = m
    /\ \A i \in In' : i + 1 \in In /\ inbox'[i] = inbox[i + 1]
    /\ \A i \in In : i = 1 \/ (i - 1 \in In' /\ inbox'[i - 1] = inbox[i])
Posts(e) ==
    /\ \A q \in Out : q \in Out' /\ toHost'[q] = toHost[q]
    /\ \A q \in Out' : q \in Out \/ (Ready /\ toHost'[q] = e /\ \A p \in Out : p < q)
    /\ Ready => \E q \in Out' : toHost'[q] = e /\ \A p \in Out : p < q
PostsNothing == toHost' = toHost /\ Out' = Out
PostsTwo(a, b) ==
    /\ \A q \in Out : q \in Out' /\ toHost'[q] = toHost[q]
    /\ \A q \in Out' : q \in Out \/ (Ready /\ toHost'[q] \in {a, b} /\ \A p \in Out : p < q)

\* The host's fields.
Steady == host'.state = host.state /\ host'.lease = host.lease /\ op' = op /\ leases' = leases
Phased(phase) ==
    /\ op'.id = op.id /\ op'.attempt = op.attempt /\ op'.kind = op.kind /\ op'.phase = phase
    /\ leases' = leases

HSilent(m) == Steady /\ HearsNothing /\ m.type \notin {"lease.request", "session.invalidate"}
HRefused(m) ==
    /\ Steady /\ \E e : Refuses(e) /\ Hears(e)
    /\ m.type = "session.invalidate" => Unresolved \/ m.lease # host.lease
HRequired(m) ==
    /\ Steady /\ Uncommitted /\ m.type = "operation.begin"
    /\ \E e : OfLast(e, "operation.snapshot_required") /\ Hears(e)
HStatus(m) ==
    /\ Steady /\ m.type \in {"operation.begin", "operation.status.query"}
    /\ \E e : e.type = "operation.status" /\ (e.action = "prepare_removal" => Committed) /\ Hears(e)
HAllowed(m) ==
    /\ Steady /\ Committed /\ Precheck(m) /\ \E e : OfLast(e, "evict.remove.authorized") /\ Hears(e)
HEnrolled(m) ==
    /\ ~Unresolved /\ host.state = "uninitialized" /\ m.type = "lease.request"
    /\ host'.state = host.state /\ host'.lease = leases + 1 /\ leases' = leases + 1 /\ op' = op
    /\ \E e : e.type = "lease.grant" /\ e.lease = leases + 1 /\ Hears(e)
HUnlocked(m) ==
    /\ ~Unresolved /\ host.state = "sealed" /\ m.type = "lease.request" /\ ~Enrolment
    /\ host'.state = "leased" /\ host'.lease = leases + 1 /\ leases' = leases + 1 /\ op' = op
    /\ \E a, b : /\ a.type = "lease.grant" /\ a.lease = leases + 1
                 /\ b.type = "cookies.inject" /\ b.lease = leases + 1 /\ HearsTwo(a, b)
HStarted(m) ==
    /\ ~Unresolved /\ m.type = "operation.begin" /\ m.attempt # op.attempt
    /\ op'.id # op.id /\ op'.id # 0 /\ op'.attempt = m.attempt /\ op'.kind = m.kind /\ op'.phase = "NotCommitted"
    /\ m.kind = "enrollment" <=> host.state = "uninitialized"
    /\ m.attempt = ref.attempt => m.kind = ref.kind
    /\ host'.state = "evicting" /\ host'.lease = host.lease /\ leases' = leases
    /\ ref.op = 0
    /\ \A i \in In : inbox[i].type \in HasOp => inbox[i].op # op'.id
    /\ \A q \in Out : toHost[q].type \in OfOp => toHost[q].op # op'.id
    /\ \E e : e.type = "operation.snapshot_required" /\ e.op = op'.id /\ Hears(e)
HDropped(m) ==
    /\ Uncommitted /\ Enrolment /\ Chunk(m) /\ Phased("Aborted")
    /\ host'.state = "uninitialized" /\ host'.lease = 0 /\ \E e : Ends(e) /\ Hears(e)
HStored(m) ==
    /\ Uncommitted /\ Chunk(m) /\ Phased("BrowserRemovalPending")
    /\ host'.state = host.state /\ host'.lease = host.lease
    /\ \E e : OfLast(e, "evict.confirmed") /\ (e.retain <=> Enrolment) /\ Hears(e)
HFinished(m) ==
    /\ Committed /\ \E phase \in {"Completed", "ReconciliationRequired"} : Phased(phase)
    /\ m.type \in {"cookies.snapshot.chunk", "evict.result"}
    /\ \/ Enrolment /\ host'.state \in {"leased", "degraded"} /\ host'.lease = host.lease
       \/ ~Enrolment /\ host'.state = "sealed" /\ host'.lease = 0
       \/ ~Enrolment /\ host'.state = "degraded" /\ host'.lease = host.lease
    /\ \E e : OfLast(e, "operation.completed") /\ (e.success /\ Enrolment => Keeping(m)) /\ Hears(e)
HSpoilt(m) ==
    /\ m.type = "inject.result" /\ ~m.success /\ HostLeased(m.lease) /\ HearsNothing
    /\ host'.state = "degraded" /\ host'.lease = host.lease /\ op' = op /\ leases' = leases
HInvalidated(m) ==
    /\ ~Unresolved /\ m.type = "session.invalidate" /\ host'.state = "uninitialized"
    /\ host'.lease = IF host.state = "uninitialized" THEN host.lease ELSE 0
    /\ op' = op /\ leases' = leases /\ \E e : Ends(e) /\ Hears(e)

HostShape(m) ==
    /\ Drains(m) /\ ext' = ext /\ ref' = ref /\ port' = port /\ loop' = loop /\ port # "open" /\ Indexed
    /\ \/ HSilent(m) \/ HRefused(m) \/ HRequired(m) \/ HStatus(m) \/ HAllowed(m) \/ HEnrolled(m) \/ HUnlocked(m)
       \/ HStarted(m) \/ HDropped(m) \/ HStored(m) \/ HFinished(m) \/ HSpoilt(m) \/ HInvalidated(m)

\* The controller's fields, and the reference that is kept, given up, or new.
Group(state, lease, asked, evicting, inval, chained) ==
    /\ ext'.state = state /\ ext'.lease = lease /\ ext'.asked = asked
    /\ (ext'.evicting <=> evicting) /\ (ext'.inval <=> inval) /\ (ext'.chained <=> chained)
RefKept == ref'.op = ref.op /\ ref'.attempt = ref.attempt /\ ref'.kind = ref.kind
RefGone == ref'.op = 0 /\ ref'.attempt = 0 /\ ref'.kind = "none"
RefNew == ref'.op = 0 /\ ref'.attempt # 0 /\ ref'.attempt # op.attempt
Bounded == ref.op = op.id /\ ref.op # 0 /\ ref.attempt = op.attempt /\ ref.attempt # 0 /\ ref.kind = op.kind
Calmly == ~ext.inval /\ ext.asked = "none" /\ ~ext.evicting

\* What a reply does to the controller.
CGrant(m) ==
    /\ m.type = "lease.grant" /\ Group(ext.state, m.lease, "none", ext.evicting, ext.inval, ext.chained)
    /\ RefKept /\ PostsNothing /\ loop' = loop
CEnrol(m) ==
    /\ m.type = "lease.grant" /\ ext.asked = "enroll"
    /\ Group("evicting", m.lease, "none", TRUE, ext.inval, ext.chained)
    /\ ref'.kind = "enrollment" /\ (RefNew \/ (RefKept /\ ref.op = 0)) /\ loop' = loop
    /\ \E e : e.type = "operation.begin" /\ Posts(e)
CInject(m) ==
    /\ m.type = "cookies.inject" /\ RefKept /\ loop' = loop
    /\ \E e : /\ e.type = "inject.result" /\ e.lease = m.lease /\ Posts(e)
              /\ Group(IF e.success THEN "leased" ELSE "degraded", m.lease, ext.asked, ext.evicting,
                       ext.inval, ext.chained)
CRefusal(m) ==
    /\ Refuses(m) /\ RefKept /\ PostsNothing /\ loop' = loop
    /\ \E state : /\ Group(state, ext.lease, "none", FALSE, ext.inval, ext.chained)
                  /\ \/ state \in {ext.state, "degraded"}
                     \/ state = "sealed" /\ ext.asked = "inject"
                     \/ state = "uninitialized" /\ ext.asked = "enroll" /\ ~ext.evicting
CRequired(m) ==
    /\ OfLast(m, "operation.snapshot_required") /\ op.id # 0
    /\ ref.attempt = op.attempt /\ ref.attempt # 0 /\ ref.kind = op.kind
    /\ ref'.op = op.id /\ ref'.attempt = ref.attempt /\ ref'.kind = ref.kind /\ loop' = loop
    /\ Ready => Group("evicting", ext.lease, ext.asked, TRUE, ext.inval, ext.chained)
    /\ ~Ready => ext' = ext
    /\ \E e : Chunk(e) /\ ~Precheck(e) /\ Posts(e)
CRetain(m) ==
    /\ OfLast(m, "evict.confirmed") /\ Bounded /\ m.retain /\ ext' = ext /\ RefKept /\ loop' = loop
    /\ \E e : OfLast(e, "evict.result") /\ Posts(e)
CPrepare(m) ==
    /\ (OfLast(m, "evict.confirmed") /\ ~m.retain) \/ Preparation(m)
    /\ Bounded /\ ext' = ext /\ RefKept /\ loop' = loop
    /\ \E a, b : a.type = "evict.remove.prepare" /\ Precheck(b) /\ PostsTwo(a, b)
CResend(m) ==
    /\ OfLast(m, "operation.status") /\ Bounded /\ ext' = ext /\ RefKept /\ loop' = loop
    /\ \E e : Chunk(e) /\ ~Precheck(e) /\ Posts(e)
CForget(m) ==
    /\ OfLast(m, "operation.status") /\ Bounded /\ ext' = ext /\ RefGone /\ PostsNothing /\ loop' = loop
CGiveUp(m) ==
    /\ OfLast(m, "operation.status") /\ Bounded /\ RefKept /\ PostsNothing /\ loop' = loop
    /\ Group("degraded", ext.lease, ext.asked, ext.evicting, ext.inval, ext.chained)
CDone(m) ==
    /\ Won(m) /\ Bounded /\ RefGone /\ PostsNothing /\ loop' = loop
    /\ Enrolment => ~(ext.chained /\ ~ext.inval /\ ext.asked = "none")
    /\ Group(IF Enrolment THEN "leased" ELSE "sealed", IF Enrolment THEN ext.lease ELSE 0, ext.asked, FALSE,
             ext.inval, FALSE)
CLeave(m) ==
    /\ Won(m) /\ Bounded /\ Enrolment /\ ~ext.inval /\ ext.asked = "none" /\ RefGone /\ loop' = loop
    /\ Group("leased", ext.lease, "none", FALSE, TRUE, FALSE)
    /\ \E e : e.type = "session.invalidate" /\ e.lease = ext.lease /\ Posts(e)
CChain(m) ==
    /\ OfLast(m, "operation.completed") /\ Bounded /\ ext.asked = "none" /\ ~ext.inval /\ RefNew /\ loop' = loop
    /\ ext'.state = "evicting" /\ ext'.asked = "none" /\ ref'.kind # "enrollment"
    /\ \E e : e.type = "operation.begin" /\ Posts(e)
CFail(m) ==
    /\ OfLast(m, "operation.completed") /\ Bounded /\ RefKept /\ PostsNothing /\ loop' = loop
    /\ Group("degraded", ext.lease, ext.asked, FALSE, ext.inval, ext.chained)
CReset(m) ==
    /\ Ends(m) /\ RefGone /\ PostsNothing /\ loop' = loop
    /\ Group("uninitialized", 0, "none", FALSE, FALSE, FALSE)
CRemove(m) ==
    /\ OfLast(m, "evict.remove.authorized") /\ Bounded /\ ext' = ext /\ RefKept /\ PostsNothing
CIgnore(m) ==
    /\ m.type \in {"evict.confirmed", "operation.status", "operation.completed", "evict.remove.authorized"}
    /\ ext' = ext /\ RefKept /\ PostsNothing /\ loop' = loop
CPart(m) ==
    /\ ~Ready /\ RefKept /\ PostsNothing /\ loop' = loop /\ m.type = "disconnect"
    /\ \E state \in {ext.state, "degraded"} :
          Group(state, ext.lease, ext.asked, ext.evicting, ext.inval, ext.chained)

ReplyShape(m) ==
    /\ Takes(m) /\ loop.at = "idle" /\ Apart /\ port' = port /\ Indexed
    /\ \/ CGrant(m) \/ CEnrol(m) \/ CInject(m) \/ CRefusal(m) \/ CRequired(m) \/ CRetain(m) \/ CPrepare(m)
       \/ CResend(m) \/ CForget(m) \/ CGiveUp(m) \/ CDone(m) \/ CLeave(m) \/ CChain(m) \/ CFail(m) \/ CReset(m)
       \/ CRemove(m) \/ CIgnore(m) \/ CPart(m)

\* What another task does.
TInvalidate ==
    /\ Calmly /\ ext.state = "leased" /\ RefKept /\ loop' = loop
    /\ Group("leased", ext.lease, "none", FALSE, TRUE, ext.chained)
    /\ \E e : e.type = "session.invalidate" /\ Posts(e)
TUnlock ==
    /\ Calmly /\ RefKept /\ loop' = loop
    /\ \E purpose \in {"enroll", "inject"} :
          /\ ext.state = (IF purpose = "enroll" THEN "uninitialized" ELSE "sealed")
          /\ Group("unlocking", ext.lease, purpose, FALSE, FALSE, ext.chained \/ purpose = "enroll")
    /\ \E e : e.type = "lease.request" /\ Posts(e)
TQuery ==
    /\ Calmly /\ RefKept /\ loop' = loop /\ Group("evicting", ext.lease, "none", TRUE, FALSE, ext.chained)
    /\ \E e : e.type = "operation.status.query" /\ Posts(e)
TBegin ==
    /\ Calmly /\ loop' = loop /\ Group("evicting", ext.lease, "none", TRUE, FALSE, ext.chained)
    /\ ref'.kind # "enrollment" /\ (RefNew \/ (RefKept /\ ref.op = 0))
    /\ \E e : e.type = "operation.begin" /\ Posts(e)
TRepeat ==
    /\ ext' = ext /\ RefKept /\ loop' = loop /\ Ready
    /\ \E e : e.type = "operation.begin" /\ e.kind = ref.kind /\ Posts(e)
TTurn == ext' = ext /\ RefKept /\ PostsNothing /\ (loop' = loop \/ loop.at # "idle")
TReport ==
    /\ loop.at # "idle" /\ loop'.at = "idle" /\ Ready /\ ~Uncommitted /\ RefKept
    /\ \E state \in {"sealed", "degraded"} :
          Group(state, ext.lease, ext.asked, ext.evicting, ext.inval, ext.chained)
    /\ \E e : e.type = "evict.result" /\ ~Keeping(e) /\ Posts(e)

TaskShape ==
    /\ inbox' = inbox /\ In' = In /\ Apart /\ port' = port /\ Indexed
    /\ TInvalidate \/ TUnlock \/ TQuery \/ TBegin \/ TRepeat \/ TTurn \/ TReport

\* The handshake on a port that is ready after it, or was closed before it.
GreetShape ==
    /\ port = "open" /\ Ready' /\ In' = {} /\ Apart /\ loop' = loop /\ loop.at = "idle" /\ Indexed
    /\ ~Uncommitted /\ ext'.lease = host.lease
    /\ \/ ext'.state = host.state /\ ext'.asked = "none"
       \/ /\ ext'.state = "unlocking" /\ \E q \in Out' : toHost'[q].type = "lease.request"
          /\ \/ ext'.asked = "enroll" /\ host.state = "uninitialized" /\ ext'.chained
             \/ ext'.asked = "inject" /\ host.state = "sealed"
       \/ ext'.state = "evicting" /\ ext'.asked = "none"
    /\ (ext.chained => ext'.chained) /\ (ext'.inval => host.state # "uninitialized")
    /\ RefKept \/ (RefNew /\ ref'.kind # "enrollment" /\ ext'.state = "evicting")
    /\ \A q \in Out' : /\ toHost'[q].type \in {"operation.status.query", "lease.request", "operation.begin"}
                       /\ ext'.state # "evicting" => toHost'[q].type # "operation.begin"
AckShape(m) ==
    /\ port = "none" /\ port' = port /\ Apart /\ PostsNothing /\ Takes(m) /\ m.type = "handshake.ack" /\ Indexed
    /\ (ext.chained => ext'.chained) /\ (ext'.asked = "enroll" => ext'.chained)
    /\ RefKept \/ (RefNew /\ ref'.kind # "enrollment")

\* The end of a port, of a worker or of a host, and a new host.
LossShape ==
    /\ port' # "ready" /\ ext' = ext /\ RefKept /\ leases' = leases /\ host'.lease \in {host.lease, 0} /\ Indexed
    /\ op'.id = op.id /\ op'.attempt = op.attempt /\ op'.kind = op.kind
    /\ op'.phase = op.phase \/ (Uncommitted /\ op'.phase = "Aborted")
    /\ PostsNothing \/ Out' = {}
    /\ \/ \E k \in {0, 1} : \A i \in In' : (i + k \in In /\ inbox'[i] = inbox[i + k]) \/ inbox'[i].type = "disconnect"
       \/ \A i \in In' : inbox'[i].type = "handshake.ack"
    /\ port' = "open" => ~host'.pending.on

\* The places of the queues are numbers.
LEMMA Places == ASSUME TypeOK, TypeOK' PROVE Indexed
  <1>1. /\ Len(inbox) \in Nat /\ Len(toHost) \in Nat /\ Len(inbox') \in Nat /\ Len(toHost') \in Nat
    BY LenProperties DEF TypeOK
  <1> QED BY <1>1 DEF Indexed, In, Out

\* A reply is heard where it is put.
LEMMA SaysHears == ASSUME TypeOK, NEW e \in Replies, Says(e) PROVE Hears(e)
  <1>1. /\ Len(inbox) \in Nat /\ Len(inbox') \in Nat
        /\ port = "none" => inbox' = inbox
        /\ port # "none" => Len(inbox') = Len(inbox) + 1 /\ inbox'[Len(inbox')] = e
        /\ \A i \in 1 .. Len(inbox) : i \in 1 .. Len(inbox') /\ inbox'[i] = inbox[i]
        /\ \A i \in 1 .. Len(inbox') : i \in 1 .. Len(inbox) \/ (i = Len(inbox') /\ inbox'[i] = e)
    BY SaysElements DEF TypeOK
  <1>2. port # "none" => Len(inbox') \in In' /\ \A j \in In : j < Len(inbox')
    BY <1>1 DEF In
  <1>3. \A i \in In' : i \in In \/ (port # "none" /\ inbox'[i] = e /\ \A j \in In : j < i)
    BY <1>1, <1>2 DEF In
  <1> QED BY <1>1, <1>2, <1>3 DEF Hears, In

\* A handled message leaves the queue.
LEMMA TailDrains == ASSUME TypeOK, toHost # <<>>, toHost' = Tail(toHost) PROVE Drains(Head(toHost)) /\ Head(toHost) \in Requests
  <1>1. toHost \in Seq(Requests)
    BY DEF TypeOK
  <1> QED BY <1>1, TailElements DEF Drains, Out

\* Every handler of the host has one of these effects.
LEMMA HostShapes ==
    ASSUME TypeOK, TypeOK', Order, HostFacts, HostStep PROVE HostShape(Head(toHost))
  <1> DEFINE m == Head(toHost)
  <1>1. /\ host.up /\ toHost # <<>> /\ toHost' = Tail(toHost) /\ Outcome(m)
        /\ ext' = ext /\ ref' = ref /\ port' = port /\ loop' = loop
    BY DEF HostStep, Quietly, Still
  <1>2. /\ host \in HostsSet /\ host' \in HostsSet /\ op \in Ops /\ op' \in Ops /\ leases \in Nat /\ vault \in Cookies
        /\ inbox \in Seq(Replies) /\ toHost \in Seq(Requests) /\ ref \in References
    BY DEF TypeOK
  <1>3. Pended /\ Stated /\ Ported /\ Resumable
    BY DEF HostFacts
  <1>4. Drains(m) /\ m \in Requests /\ Indexed
    BY <1>1, TailDrains, Places
  <1>5. port # "open"
    BY <1>1, <1>3 DEF Ported
  <1>6. /\ Referred(ref, op, attempts) /\ Queued(toHost, ref, op, attempts) /\ Past(toHost, op) /\ Past(inbox, op)
    BY DEF Order
  <1>7. m = toHost[1] /\ 1 \in Out
    BY <1>4 DEF Drains
  <1> HIDE DEF m
  <1> SUFFICES \/ HSilent(m) \/ HRefused(m) \/ HRequired(m) \/ HStatus(m) \/ HAllowed(m) \/ HEnrolled(m) \/ HUnlocked(m)
               \/ HStarted(m) \/ HDropped(m) \/ HStored(m) \/ HFinished(m) \/ HSpoilt(m) \/ HInvalidated(m)
    BY <1>1, <1>4, <1>5 DEF HostShape, m
  <1>8. ASSUME NEW t \in {"lease.deny", "operation.error"}, Says(Told(t)) PROVE \E e : Refuses(e) /\ Hears(e)
    <2>1. Told(t) \in Replies /\ Refuses(Told(t))
      BY DEF Told, Replies, Refuses
    <2> QED BY <1>8, <2>1, SaysHears
  <1>9. ASSUME Says(Told("session.invalidated")) PROVE \E e : Ends(e) /\ Hears(e)
    <2>1. Told("session.invalidated") \in Replies /\ Ends(Told("session.invalidated"))
      BY DEF Told, Replies, Ends
    <2> QED BY <1>9, <2>1, SaysHears
  <1>10. ASSUME Says(Status(op))
         PROVE  \E e : e.type = "operation.status" /\ (e.action = "prepare_removal" => Committed) /\ Hears(e)
    <2>1. Status(op).action \in {"send_snapshot", "prepare_removal", "completed", "reconciliation_required"}
      BY DEF Status
    <2>2. Status(op).action = "prepare_removal" => Committed
      BY DEF Status, Committed
    <2>3. Status(op) = [type |-> "operation.status", op |-> op.id, action |-> Status(op).action]
      BY DEF Status
    <2>4. op.id \in Nat
      BY <1>2 DEF Ops
    <2>5. Status(op) \in Replies
      BY <2>1, <2>3, <2>4 DEF Replies
    <2>6. Status(op).type = "operation.status"
      BY DEF Status
    <2> QED BY <1>10, <2>2, <2>5, <2>6, SaysHears
  <1>11. ASSUME NEW success \in BOOLEAN, Says(Completed(op, success))
         PROVE  \E e : OfLast(e, "operation.completed") /\ e.success = success /\ Hears(e)
    <2>1. Completed(op, success) \in Replies /\ OfLast(Completed(op, success), "operation.completed")
          /\ Completed(op, success).success = success
      BY <1>2 DEF Completed, Replies, OfLast, Ops
    <2> QED BY <1>11, <2>1, SaysHears
  <1>12. Same => Steady
    BY DEF Same, Steady
  <1>13. CASE Refused(m)
    <2>1. m.type = "session.invalidate" => Unresolved \/ m.lease # host.lease
      BY <1>3, <1>13 DEF Refused, Pended
    <2> QED BY <1>8, <1>12, <1>13, <2>1 DEF Refused, HRefused
  <1>14. CASE Enrolled(m)
    <2>1. LeaseGrant(leases + 1) \in Replies /\ LeaseGrant(leases + 1).type = "lease.grant"
          /\ LeaseGrant(leases + 1).lease = leases + 1
      BY <1>2 DEF LeaseGrant, Replies
    <2>2. \E e : e.type = "lease.grant" /\ e.lease = leases + 1 /\ Hears(e)
      BY <1>14, <2>1, SaysHears DEF Enrolled
    <2>3. host'.state = host.state /\ host'.lease = leases + 1
      BY <1>2, <1>14 DEF Enrolled, HostsSet
    <2> QED BY <1>14, <2>2, <2>3 DEF Enrolled, HEnrolled, Free
  <1>15. CASE Unlocked(m)
    <2> DEFINE a == LeaseGrant(leases + 1)
               b == Inject(leases + 1, vault)
    <2>1. a \in Replies /\ a.type = "lease.grant" /\ a.lease = leases + 1
      BY <1>2 DEF LeaseGrant, Replies
    <2>2. b \in Replies /\ b.type = "cookies.inject" /\ b.lease = leases + 1
      BY <1>2 DEF Inject, Replies
    <2>3. inbox' = IF port = "none" THEN inbox ELSE (inbox \o <<a>>) \o <<b>>
      BY <1>15 DEF Unlocked
    <2> HIDE DEF a, b
    <2>4. HearsTwo(a, b)
      <3>1. CASE port = "none"
        BY <2>3, <3>1 DEF HearsTwo, In
      <3>2. CASE port # "none"
        <4>1. /\ inbox \o <<a>> \in Seq(Replies) /\ Grown(inbox, inbox \o <<a>>, a)
              /\ Grown(inbox \o <<a>>, inbox', b) /\ Len(inbox) \in Nat
          BY <1>2, <2>1, <2>2, <2>3, <3>2, CatGrows, LenProperties
        <4> DEFINE s == inbox \o <<a>>
        <4>2. Grown(inbox, s, a) /\ Grown(s, inbox', b)
          BY <4>1
        <4> HIDE DEF s
        <4>3. /\ Len(inbox') = Len(inbox) + 2 /\ \A i \in 1 .. Len(inbox) : inbox'[i] = inbox[i]
              /\ inbox'[Len(inbox) + 1] = a /\ inbox'[Len(inbox) + 2] = b
          BY <4>1, <4>2 DEF Grown
        <4>4. \A i \in In' : i \in In \/ i = Len(inbox) + 1 \/ i = Len(inbox) + 2
          BY <4>1, <4>3 DEF In
        <4>5. /\ \A i \in In : i \in In' /\ i < Len(inbox) + 1
              /\ Len(inbox) + 1 \in In'
              /\ \A i \in In' : i <= Len(inbox) + 2 /\ (i > Len(inbox) + 1 => i = Len(inbox) + 2)
          BY <4>1, <4>3 DEF In
        <4>6. \A i \in In : inbox'[i] = inbox[i]
          BY <4>3 DEF In
        <4> HIDE DEF In
        <4> QED BY <3>2, <4>3, <4>4, <4>5, <4>6 DEF HearsTwo
      <3> QED BY <3>1, <3>2
    <2>5. host'.state = "leased" /\ host'.lease = leases + 1
      BY <1>2, <1>15 DEF Unlocked, HostsSet
    <2>6. ~Enrolment
      BY <1>3, <1>15 DEF Unlocked, Stated, Enrolment
    <2> QED BY <1>15, <2>1, <2>2, <2>4, <2>5, <2>6 DEF Unlocked, HUnlocked, Free
  <1>16. CASE Repeated(m)
    <2>1. CASE Uncommitted
      <3>1. SnapshotRequired(op) \in Replies /\ OfLast(SnapshotRequired(op), "operation.snapshot_required")
        BY <1>2 DEF SnapshotRequired, Replies, OfLast, Ops
      <3> QED BY <1>12, <1>16, <2>1, <3>1, SaysHears DEF Repeated, HRequired, Uncommitted
    <2>2. CASE ~Uncommitted
      BY <1>10, <1>12, <1>16, <2>2 DEF Repeated, HStatus, Uncommitted
    <2> QED BY <2>1, <2>2
  <1>17. CASE Started(m)
    <2>1. /\ op'.id = op.id + 1 /\ op'.attempt = m.attempt /\ op'.kind = m.kind /\ op'.phase = "NotCommitted"
      BY <1>17 DEF Started
    <2>2. host'.state = "evicting" /\ host'.lease = host.lease
      BY <1>2, <1>17 DEF Started, HostsSet
    <2>3. SnapshotRequired(op') \in Replies /\ SnapshotRequired(op').type = "operation.snapshot_required"
          /\ SnapshotRequired(op').op = op'.id
      BY <1>2 DEF SnapshotRequired, Replies, Ops
    <2>4. \E e : e.type = "operation.snapshot_required" /\ e.op = op'.id /\ Hears(e)
      BY <1>17, <2>3, SaysHears DEF Started
    <2>5. op'.id # op.id /\ op'.id # 0 /\ op.id \in Nat
      BY <1>2, <2>1 DEF Ops
    <2>6. /\ \A i \in In : inbox[i].type \in HasOp => inbox[i].op # op'.id
          /\ \A q \in Out : toHost[q].type \in OfOp => toHost[q].op # op'.id
      BY <1>6, <2>1, <2>5 DEF Past, In, Out
    <2>7. m.attempt = ref.attempt => m.kind = ref.kind
      BY <1>6, <1>7, <1>17 DEF Queued, Out, Started
    <2>8. ref.op = 0
      <3>1. /\ m.attempt \in Nat /\ op.attempt \in Nat /\ op.attempt <= m.attempt
            /\ ref.attempt # 0 => m.attempt <= ref.attempt
        BY <1>2, <1>4, <1>6, <1>7, <1>17 DEF Queued, Out, Started, Requests, Ops
      <3> QED BY <1>6, <1>17, <3>1 DEF Referred, Started
    <2> QED BY <1>17, <2>1, <2>2, <2>4, <2>5, <2>6, <2>7, <2>8 DEF Started, HStarted, Free
  <1>18. CASE Answered(m)
    <2>1. host'.state = host.state /\ host'.lease = host.lease
      BY <1>2, <1>18 DEF Answered, HostsSet
    <2> QED BY <1>10, <1>18, <2>1 DEF Answered, HStatus, Steady
  <1>19. ASSUME NEW phase, NEW state, NEW lease, Ended(phase, state, lease)
         PROVE  Phased(phase) /\ host'.state = state /\ host'.lease = lease
    BY <1>2, <1>19 DEF Ended, Phased, HostsSet, Ops
  <1>20. Serving(m) /\ m \in Requests => (host.pending.confirmed <=> Committed) /\ (~Committed => Uncommitted)
    BY <1>3 DEF Serving, Pended, Unresolved, Committed, Uncommitted
  <1>21. CASE Dropped(m)
    BY <1>4, <1>9, <1>19, <1>20, <1>21 DEF Dropped, HDropped, Serving, Chunk, OfLast, Enrolment
  <1>22. CASE Stored(m)
    <2>1. Phased("BrowserRemovalPending")
      BY <1>2, <1>22 DEF Stored, Phased, Ops
    <2>2. host'.state = host.state /\ host'.lease = host.lease
      BY <1>2, <1>22 DEF Stored, HostsSet
    <2> DEFINE r == op.kind = "enrollment"
    <2>3. Confirmed(op) = [type |-> "evict.confirmed", op |-> op.id, retain |-> r]
      BY DEF Confirmed
    <2>4. r \in BOOLEAN /\ (r <=> Enrolment)
      BY DEF Enrolment
    <2> HIDE DEF r
    <2>5. Confirmed(op) \in Replies /\ OfLast(Confirmed(op), "evict.confirmed") /\ (Confirmed(op).retain <=> Enrolment)
      BY <1>2, <2>3, <2>4 DEF Replies, OfLast, Ops
    <2>6. Hears(Confirmed(op))
      BY <1>22, <2>5, SaysHears DEF Stored
    <2> QED BY <1>4, <1>20, <1>22, <2>1, <2>2, <2>5, <2>6 DEF Stored, HStored, Serving, Chunk, OfLast
  <1>23. CASE Checked(m)
    <2>1. host'.state = host.state /\ host'.lease = host.lease
      BY <1>2, <1>23 DEF Checked, HostsSet
    <2>2. Authorized(op) \in Replies /\ OfLast(Authorized(op), "evict.remove.authorized")
      BY <1>2 DEF Authorized, Replies, OfLast, Ops
    <2> QED BY <1>4, <1>20, <1>23, <2>1, <2>2, SaysHears DEF Checked, HAllowed, Steady, Serving, Precheck, Chunk, OfLast
  <1>24. ASSUME NEW success \in BOOLEAN, Lost(m, success) PROVE HFinished(m)
    <2>1. /\ Phased("ReconciliationRequired") /\ host'.state = "degraded" /\ host'.lease = host.lease
          /\ Says(Completed(op, success)) /\ Committed /\ m.type \in {"cookies.snapshot.chunk", "evict.result"}
      BY <1>4, <1>19, <1>20, <1>24 DEF Lost
    <2>2. PICK e : OfLast(e, "operation.completed") /\ e.success = success /\ Hears(e)
      BY <1>11, <2>1
    <2>3. e.success => Keeping(m)
      BY <1>24, <2>2 DEF Lost, Serving, Keeping, OfLast
    <2> QED BY <2>1, <2>2, <2>3 DEF HFinished
  <1>25. CASE Noted(m)
    <2>1. host'.state = host.state /\ host'.lease = host.lease
      BY <1>2, <1>25 DEF Noted, HostsSet
    <2>2. inbox' = inbox => In' = In
      BY DEF In
    <2> QED BY <1>8, <1>25, <2>1, <2>2 DEF Noted, HSilent, HRefused, Steady, HearsNothing
  <1>26. CASE Prepared(m)
    <2>1. host'.state = host.state /\ host'.lease = host.lease
      BY <1>2, <1>26 DEF Prepared, HostsSet
    <2>2. inbox' = inbox => In' = In
      BY DEF In
    <2> QED BY <1>26, <2>1, <2>2 DEF Prepared, HSilent, Steady, HearsNothing
  <1>27. CASE Retained(m)
    <2>1. /\ Phased("Completed") /\ host'.state = "leased" /\ host'.lease = host.lease
          /\ Says(Completed(op, TRUE)) /\ Committed /\ Enrolment /\ Keeping(m)
          /\ m.type = "evict.result"
      BY <1>4, <1>19, <1>20, <1>27 DEF Retained, Enrolment, Keeping, OfLast, Serving
    <2>2. PICK e : OfLast(e, "operation.completed") /\ Hears(e)
      BY <1>11, <2>1
    <2> QED BY <2>1, <2>2 DEF HFinished
  <1>28. CASE Sealed(m)
    <2>1. /\ Phased("Completed") /\ host'.state = "sealed" /\ host'.lease = 0
          /\ Says(Completed(op, TRUE)) /\ Committed /\ ~Enrolment
          /\ m.type = "evict.result"
      BY <1>4, <1>19, <1>20, <1>28 DEF Sealed, Enrolment
    <2>2. PICK e : OfLast(e, "operation.completed") /\ Hears(e)
      BY <1>11, <2>1
    <2> QED BY <2>1, <2>2 DEF HFinished
  <1>29. CASE Injected(m)
    <2>1. inbox' = inbox => In' = In
      BY DEF In
    <2>2. CASE m.success
      BY <1>29, <2>1, <2>2 DEF Injected, HSilent, Steady, HearsNothing
    <2>3. CASE ~m.success
      <3>1. host'.state = "degraded" /\ host'.lease = host.lease
        BY <1>2, <1>29, <2>3 DEF Injected, HostsSet
      <3> QED BY <1>29, <2>1, <2>3, <3>1 DEF Injected, HSpoilt, HearsNothing, HostLeased
    <2> QED BY <2>2, <2>3
  <1>30. CASE Invalidated(m)
    <2>1. ~Unresolved
      BY <1>1, <1>3, <1>7, <1>30 DEF Invalidated, Resumable, Pended, Unresolved, Committed, Out
    <2>2. host'.state = "uninitialized" /\ host'.lease = IF host.state = "uninitialized" THEN host.lease ELSE 0
      BY <1>2, <1>30 DEF Invalidated, HostsSet
    <2> QED BY <1>9, <1>30, <2>1, <2>2 DEF Invalidated, HInvalidated
  <1> QED BY <1>1, <1>13, <1>14, <1>15, <1>16, <1>17, <1>18, <1>21, <1>22, <1>23, <1>24, <1>25, <1>26, <1>27,
             <1>28, <1>29, <1>30 DEF Outcome

\* What a task sends is where it is put.
LEMMA SendsPosts == ASSUME TypeOK, NEW e \in Requests, Sends(<<e>>) PROVE Posts(e)
  <1>1. /\ Len(toHost) \in Nat /\ Len(toHost') \in Nat
        /\ \A q \in 1 .. Len(toHost) : q \in 1 .. Len(toHost') /\ toHost'[q] = toHost[q]
        /\ \A q \in 1 .. Len(toHost') :
              q \in 1 .. Len(toHost) \/ (port = "ready" /\ q = Len(toHost) + 1 /\ toHost'[q] = e)
        /\ port = "ready" => Len(toHost') = Len(toHost) + 1
    BY SendsOne
  <1>2. /\ \A q \in Out' : q \in Out \/ (Ready /\ q = Len(toHost) + 1 /\ toHost'[q] = e)
        /\ \A p \in Out : p < Len(toHost) + 1
        /\ Ready => Len(toHost) + 1 \in Out' /\ Len(toHost) + 1 \notin Out
    BY <1>1 DEF Out, Ready
  <1>3. \A q \in Out : q \in Out' /\ toHost'[q] = toHost[q]
    BY <1>1 DEF Out
  <1> QED BY <1>2, <1>3 DEF Posts

\* Two requests are posted behind the others.
LEMMA SendsPostsTwo == ASSUME TypeOK, NEW a \in Requests, NEW b \in Requests, Sends(<<a, b>>) PROVE PostsTwo(a, b)
  <1>1. /\ Len(toHost) \in Nat /\ Len(toHost') \in Nat
        /\ \A q \in 1 .. Len(toHost) : q \in 1 .. Len(toHost') /\ toHost'[q] = toHost[q]
        /\ \A q \in 1 .. Len(toHost') :
              \/ q \in 1 .. Len(toHost)
              \/ port = "ready" /\ q = Len(toHost) + 1 /\ toHost'[q] = a
              \/ port = "ready" /\ q = Len(toHost) + 2 /\ toHost'[q] = b
    BY SendsTwo
  <1>2. \A p \in Out : p < Len(toHost) + 1 /\ p < Len(toHost) + 2
    BY <1>1 DEF Out
  <1> QED BY <1>1, <1>2 DEF PostsTwo, Out, Ready

\* No request leaves the queue as it is.
LEMMA SendsNothing == ASSUME TypeOK, Sends(<<>>) PROVE PostsNothing
  BY SendsNone DEF PostsNothing, Out

\* What the controller takes was the first reply.
LEMMA TailTakes == ASSUME TypeOK, inbox # <<>>, inbox' = Tail(inbox) PROVE Takes(Head(inbox))
  <1>1. inbox \in Seq(Replies)
    BY DEF TypeOK
  <1> QED BY <1>1, TailElements DEF Takes, In

\* Every reply that the controller handles on a port that stays as it is has one of
\* these effects.
LEMMA ReplyShapes ==
    ASSUME TypeOK, TypeOK', Order, HostFacts, ReceiveStep, inbox' = Tail(inbox), port' = port, Handling(Head(inbox))
    PROVE  ReplyShape(Head(inbox))
  <1> DEFINE m == Head(inbox)
  <1>1. /\ ext \in Groups /\ ref \in References /\ op \in Ops /\ jar \in Cookies /\ inbox \in Seq(Replies)
        /\ loop.at = "idle" /\ inbox # <<>> /\ Apart /\ Handling(m)
    BY DEF TypeOK, ReceiveStep
  <1>2. Takes(m) /\ Indexed
    BY <1>1, TailTakes, Places
  <1>3. m \in Replies /\ m = inbox[1] /\ 1 \in 1 .. Len(inbox)
    BY <1>1, TailElements
  <1>4. Referred(ref, op, attempts) /\ Past(inbox, op) /\ Ported /\ op.attempt <= attempts
        /\ attempts \in Nat /\ op.attempt \in Nat
    BY <1>1 DEF Order, HostFacts, Referred, TypeOK, Ops
  <1> HIDE DEF m
  <1>5. ASSUME BoundMessage(m) PROVE Bounded /\ m.op = op.id
    BY <1>1, <1>4, <1>5 DEF BoundMessage, Bounded, Referred, References
  <1>6. ASSUME NEW e, NEW r, Leaves(e, r, <<>>) PROVE ext' = e /\ ref' = r /\ PostsNothing
    BY <1>6, SendsNothing DEF Leaves
  <1>7. ASSUME NEW e, NEW r, NEW x \in Requests, Leaves(e, r, <<x>>) PROVE ext' = e /\ ref' = r /\ Posts(x)
    BY <1>7, SendsPosts DEF Leaves
  <1>8. ASSUME NEW r \in References, r.op = ref.op, r.attempt = ref.attempt, r.kind = ref.kind, ref' = r PROVE RefKept
    BY <1>8 DEF RefKept
  <1>9. ref' = ref => RefKept
    BY DEF RefKept
  <1>10. ref' = NoRef => RefGone
    BY DEF RefGone, NoRef
  <1> SUFFICES \/ CGrant(m) \/ CEnrol(m) \/ CInject(m) \/ CRefusal(m) \/ CRequired(m) \/ CRetain(m) \/ CPrepare(m)
               \/ CResend(m) \/ CForget(m) \/ CGiveUp(m) \/ CDone(m) \/ CLeave(m) \/ CChain(m) \/ CFail(m) \/ CReset(m)
               \/ CRemove(m) \/ CIgnore(m) \/ CPart(m)
    BY <1>1, <1>2 DEF ReplyShape, m
  <1>11. CASE Granted(m)
    <2>1. ext' = [ext EXCEPT !.lease = m.lease, !.asked = "none"] /\ ref' = ref /\ PostsNothing
      BY <1>6, <1>11 DEF Granted
    <2>2. Group(ext.state, m.lease, "none", ext.evicting, ext.inval, ext.chained)
      BY <1>1, <2>1 DEF Group, Groups
    <2> QED BY <1>9, <1>11, <2>1, <2>2 DEF Granted, CGrant, Still
  <1>12. ASSUME NEW r \in References, Enrolling(m, r) PROVE CEnrol(m)
    <2> DEFINE g == [ext EXCEPT !.lease = m.lease]
    <2>1. m.lease \in Nat
      BY <1>3, <1>12 DEF Enrolling, Replies
    <2>2. g \in Groups
      BY <1>1, <2>1 DEF Groups
    <2>3. r = Begun(g, ref, "enrollment") /\ ~Bound(ref) /\ ext.asked = "enroll"
      BY <1>12 DEF Enrolling
    <2>4. /\ r.kind = "enrollment" /\ (r = ref \/ r.attempt = attempts + 1) /\ r.op = 0
      BY <1>1, <2>2, <2>3, BegunType DEF Kinds
    <2>5. OperationBegin(r, "enroll") \in Requests /\ OperationBegin(r, "enroll").type = "operation.begin"
      BY <2>4 DEF OperationBegin, Requests, References, Kinds, Reasons
    <2>6. /\ ext' = [ext EXCEPT !.lease = m.lease, !.asked = "none", !.evicting = TRUE, !.state = "evicting"]
          /\ ref' = r /\ Posts(OperationBegin(r, "enroll"))
      BY <1>7, <1>12, <2>5 DEF Enrolling
    <2>7. RefNew \/ (RefKept /\ ref.op = 0)
      BY <1>4, <2>4, <2>6 DEF RefNew, RefKept
    <2>8. Group("evicting", m.lease, "none", TRUE, ext.inval, ext.chained)
      BY <1>1, <2>6 DEF Group, Groups
    <2> QED BY <1>12, <2>3, <2>4, <2>5, <2>6, <2>7, <2>8 DEF Enrolling, CEnrol, Still
  <1>13. ASSUME NEW success \in BOOLEAN, Restored(m, success) PROVE CInject(m)
    <2>1. m.lease \in Nat
      BY <1>3, <1>13 DEF Restored, Replies
    <2>2. InjectResult(m.lease, success) \in Requests
      BY <2>1 DEF InjectResult, Requests
    <2>3. /\ ext' = [ext EXCEPT !.state = IF success THEN "leased" ELSE "degraded", !.lease = m.lease]
          /\ ref' = ref /\ Posts(InjectResult(m.lease, success))
      BY <1>7, <1>13, <2>2 DEF Restored
    <2>4. Group(IF success THEN "leased" ELSE "degraded", m.lease, ext.asked, ext.evicting, ext.inval, ext.chained)
      BY <1>1, <2>3 DEF Group, Groups
    <2>5. /\ InjectResult(m.lease, success).type = "inject.result" /\ InjectResult(m.lease, success).lease = m.lease
          /\ InjectResult(m.lease, success).success = success
      BY DEF InjectResult
    <2> QED BY <1>9, <1>13, <2>3, <2>4, <2>5 DEF Restored, CInject, Still
  <1>14. ASSUME NEW state \in HostStates \cup {"unlocking"}, NEW recon \in BOOLEAN, Denied(m, state, recon) PROVE CRefusal(m)
    <2>1. /\ ext' = [ext EXCEPT !.asked = "none", !.evicting = FALSE, !.state = state, !.recon = recon]
          /\ ref' = ref /\ PostsNothing
      BY <1>6, <1>14 DEF Denied
    <2>2. Group(state, ext.lease, "none", FALSE, ext.inval, ext.chained)
      BY <1>1, <2>1 DEF Group, Groups
    <2> QED BY <1>9, <1>14, <2>1, <2>2 DEF Denied, CRefusal, Refuses, Still
  <1>15. ASSUME NEW r \in References, Required(m, r) PROVE CRequired(m)
    <2>1. /\ ref.phase # "none" /\ ref.attempt = m.attempt /\ r = [ref EXCEPT !.op = m.op, !.phase = "snapshot_required"]
          /\ m.type = "operation.snapshot_required" /\ m.attempt \in Nat /\ m.op \in Nat
      BY <1>3, <1>15 DEF Required, Replies
    <2>2. /\ 0 < m.attempt /\ m.attempt <= op.attempt /\ (m.attempt = op.attempt => m.op = op.id)
      BY <1>3, <1>4, <2>1 DEF Past
    <2>3. ref.attempt # 0 /\ op.attempt <= ref.attempt
      BY <1>1, <1>4, <2>1 DEF Referred, References
    <2>4. ref.attempt = op.attempt /\ m.op = op.id /\ op.id # 0 /\ ref.kind = op.kind
      BY <1>4, <2>1, <2>2, <2>3 DEF Referred
    <2>5. r.op = op.id /\ r.attempt = ref.attempt /\ r.kind = ref.kind
      BY <1>1, <2>1, <2>4 DEF References
    <2>6. SnapshotChunk(r, "commit", jar) \in Requests /\ Chunk(SnapshotChunk(r, "commit", jar))
          /\ ~Precheck(SnapshotChunk(r, "commit", jar))
      BY <1>1, <2>1, <2>4, <2>5 DEF SnapshotChunk, Requests, Chunk, Precheck, OfLast
    <2>7. ext' = (IF port = "ready" THEN Evicting(ext) ELSE ext) /\ ref' = r /\ Posts(SnapshotChunk(r, "commit", jar))
      BY <1>7, <1>15, <2>6 DEF Required
    <2>8. Ready => Group("evicting", ext.lease, ext.asked, TRUE, ext.inval, ext.chained)
      BY <1>1, <2>7 DEF Ready, Evicting, Group, Groups
    <2> QED BY <1>15, <2>1, <2>3, <2>4, <2>5, <2>6, <2>7, <2>8 DEF Required, CRequired, OfLast, Still, Ready
  <1>16. ASSUME NEW count \in Nat, Retaining(m, count) PROVE CRetain(m)
    <2>1. Bounded /\ m.op = op.id
      BY <1>5, <1>16 DEF Retaining
    <2> DEFINE b == count > 0
    <2>2. b \in BOOLEAN
      OBVIOUS
    <2>3. Leaves(ext, [ref EXCEPT !.phase = "committed"], <<EvictResult(ref, b, count)>>)
      BY <1>16 DEF Retaining
    <2> HIDE DEF b
    <2>4. EvictResult(ref, b, count) \in Requests /\ OfLast(EvictResult(ref, b, count), "evict.result")
      BY <1>1, <2>1, <2>2 DEF EvictResult, Requests, References, OfLast, Bounded
    <2>5. ext' = ext /\ ref' = [ref EXCEPT !.phase = "committed"] /\ Posts(EvictResult(ref, b, count))
      BY <1>7, <2>3, <2>4
    <2>6. RefKept
      BY <1>1, <2>5 DEF RefKept, References
    <2> QED BY <1>16, <2>1, <2>4, <2>5, <2>6 DEF Retaining, CRetain, OfLast, Still
  <1>17. ASSUME NEW r \in References, Preparing(m, r) PROVE CPrepare(m)
    <2>1. Bounded /\ m.op = op.id
      BY <1>5, <1>17 DEF Preparing
    <2>2. r = [ref EXCEPT !.phase = "removal_precheck"] /\ r.op = op.id
      BY <1>1, <1>17, <2>1 DEF Preparing, References, Bounded
    <2> DEFINE a == RemovePrepare(r)
               b == SnapshotChunk(r, "removal_precheck", jar)
    <2>3. /\ a \in Requests /\ b \in Requests /\ a.type = "evict.remove.prepare" /\ Precheck(b)
      BY <1>1, <2>2 DEF RemovePrepare, SnapshotChunk, Requests, References, Precheck, Chunk, OfLast
    <2>4. ext' = ext /\ ref' = r /\ Sends(<<a, b>>)
      BY <1>17 DEF Preparing, Leaves
    <2> HIDE DEF a, b
    <2>5. PostsTwo(a, b)
      BY <2>3, <2>4, SendsPostsTwo
    <2>6. RefKept
      BY <1>1, <2>2, <2>4 DEF RefKept, References
    <2> QED BY <1>17, <2>1, <2>3, <2>4, <2>5, <2>6 DEF Preparing, CPrepare, OfLast, Preparation
  <1>18. CASE Resending(m)
    <2>1. Bounded /\ m.op = op.id
      BY <1>5, <1>18 DEF Resending
    <2>2. SnapshotChunk(ref, "commit", jar) \in Requests /\ Chunk(SnapshotChunk(ref, "commit", jar))
          /\ ~Precheck(SnapshotChunk(ref, "commit", jar))
      BY <1>1, <2>1 DEF SnapshotChunk, Requests, References, Chunk, Precheck, OfLast, Bounded
    <2>3. ext' = ext /\ ref' = ref /\ Posts(SnapshotChunk(ref, "commit", jar))
      BY <1>7, <1>18, <2>2 DEF Resending
    <2> QED BY <1>9, <1>18, <2>1, <2>2, <2>3 DEF Resending, CResend, OfLast, Still
  <1>19. CASE Forgetting(m)
    BY <1>5, <1>6, <1>10, <1>19 DEF Forgetting, CForget, OfLast, Still
  <1>20. CASE GivingUp(m)
    <2>1. /\ ext' = [ext EXCEPT !.state = "degraded", !.recon = TRUE] /\ PostsNothing
          /\ ref' = [ref EXCEPT !.phase = "reconciliation_required"]
      BY <1>6, <1>20 DEF GivingUp
    <2>2. RefKept /\ Group("degraded", ext.lease, ext.asked, ext.evicting, ext.inval, ext.chained)
      BY <1>1, <2>1 DEF RefKept, References, Group, Groups
    <2> QED BY <1>5, <1>20, <2>1, <2>2 DEF GivingUp, CGiveUp, OfLast, Still
  <1>21. ASSUME NEW t, Finishing(m, t) PROVE CDone(m) \/ CLeave(m) \/ CChain(m) \/ CFail(m)
    <2>1. /\ Bounded /\ OfLast(m, "operation.completed") /\ loop' = loop
          /\ ext' = t.ext /\ ref' = t.ref /\ Sends(t.out) /\ (ref.kind = "enrollment" <=> Enrolment)
      <3>1. Bounded /\ m.op = op.id
        BY <1>5, <1>21 DEF Finishing
      <3> QED BY <1>21, <3>1 DEF Finishing, Leaves, OfLast, Bounded, Enrolment, Still
    <2>2. ASSUME NEW g \in Groups, NEW r \in References, NEW kind \in {"eviction", "reconciliation"}, NEW reason \in Reasons,
                 Begins(t, g, r, kind, reason), g.asked = ext.asked, g.inval = ext.inval,
                 r.phase \in TerminalPhase
          PROVE  CChain(m)
      <3>1. /\ t.ref \in References /\ t.ref.kind = kind /\ t.ref.op = 0 /\ t.ref = Begun(g, r, kind)
        BY <2>2, BegunType DEF Begins, Kinds
      <3>2. t.ref.attempt = attempts + 1
        BY <2>2, <3>1 DEF Begun, NoRef
      <3>3. OperationBegin(t.ref, reason) \in Requests /\ OperationBegin(t.ref, reason).type = "operation.begin"
        BY <3>1 DEF OperationBegin, Requests, References, Kinds
      <3>4. Posts(OperationBegin(t.ref, reason))
        BY <2>1, <2>2, <3>3, SendsPosts DEF Begins
      <3>5. ext'.state = "evicting" /\ ext'.asked = "none" /\ ext.asked = "none" /\ ~ext.inval
        BY <2>1, <2>2 DEF Begins, Evicting, Idle, Groups
      <3>6. RefNew /\ ref'.kind # "enrollment"
        BY <1>4, <2>1, <3>1, <3>2 DEF RefNew
      <3> QED BY <2>1, <3>3, <3>4, <3>5, <3>6 DEF CChain
    <2>3. CASE m.success
      <3> DEFINE s == Succeeded(ext, ref.kind)
      <3>1. /\ s \in Groups /\ s.state = (IF Enrolment THEN "leased" ELSE "sealed")
            /\ s.lease = (IF Enrolment THEN ext.lease ELSE 0) /\ s.asked = ext.asked /\ s.evicting = FALSE
            /\ s.inval = ext.inval /\ s.chained = FALSE
        BY <1>1, <2>1 DEF Succeeded, Groups, HostStates
      <3>2. /\ Requested(t, s, NoRef) /\ (~(Enrolment /\ ext.chained) => Rests(t, s, NoRef))
            /\ (Enrolment /\ ext.chained /\ Idle(s) => ~Rests(t, s, NoRef))
        BY <1>21, <2>1, <2>3 DEF Finishing
      <3>3. NoRef \in References /\ NoRef.phase \in TerminalPhase /\ ~Bound(NoRef) /\ Won(m)
        BY <2>1, <2>3 DEF NoRef, References, TerminalPhase, Bound, Won
      <3> HIDE DEF s
      <3>4. Idle(s) <=> ~ext.inval /\ ext.asked = "none"
        BY <3>1 DEF Idle
      <3>5. CASE Rests(t, s, NoRef)
        <4>1. ext' = s /\ RefGone /\ PostsNothing
          BY <1>10, <2>1, <3>5, SendsNothing DEF Rests
        <4>2. Group(IF Enrolment THEN "leased" ELSE "sealed", IF Enrolment THEN ext.lease ELSE 0, ext.asked, FALSE,
                    ext.inval, FALSE)
          BY <3>1, <4>1 DEF Group
        <4> QED BY <2>1, <3>2, <3>3, <3>4, <3>5, <4>1, <4>2 DEF CDone
      <3>6. CASE ~Rests(t, s, NoRef)
        <4>1. Enrolment /\ s.state = "leased" /\ s.lease = ext.lease
          BY <3>1, <3>2, <3>6
        <4>2. CASE Invalidates(t, s, NoRef)
          <5>1. ext' = [s EXCEPT !.inval = TRUE] /\ RefGone /\ Sends(<<SessionInvalidate(ext.lease)>>) /\ Idle(s)
            BY <1>10, <2>1, <4>1, <4>2 DEF Invalidates
          <5>2. SessionInvalidate(ext.lease) \in Requests /\ SessionInvalidate(ext.lease).type = "session.invalidate"
                /\ SessionInvalidate(ext.lease).lease = ext.lease
            BY <1>1 DEF SessionInvalidate, Requests, Groups
          <5>3. Posts(SessionInvalidate(ext.lease))
            BY <5>1, <5>2, SendsPosts
          <5>4. ~ext.inval /\ ext.asked = "none"
            BY <3>4, <5>1
          <5>5. Group("leased", ext.lease, "none", FALSE, TRUE, FALSE)
            BY <3>1, <4>1, <5>1, <5>4 DEF Group, Groups
          <5> QED BY <2>1, <3>3, <4>1, <5>1, <5>2, <5>3, <5>4, <5>5 DEF CLeave
        <4>3. ASSUME NEW purpose, Unlocks(t, s, NoRef, purpose) PROVE FALSE
          BY <4>1, <4>3 DEF Unlocks
        <4>4. ~Queries(t, s, NoRef)
          BY <3>3 DEF Queries
        <4>5. ASSUME NEW kind \in {"eviction", "reconciliation"}, NEW reason \in Reasons, Begins(t, s, NoRef, kind, reason)
              PROVE  CChain(m)
          BY <2>2, <3>1, <3>3, <4>5
        <4> QED BY <3>2, <3>6, <4>2, <4>3, <4>4, <4>5 DEF Requested
      <3> QED BY <3>5, <3>6
    <2>4. CASE ~m.success
      <3> DEFINE f == Failed(ext)
                 r == [ref EXCEPT !.phase = "reconciliation_required"]
      <3>1. /\ f \in Groups /\ f.state = "degraded" /\ f.lease = ext.lease /\ f.asked = ext.asked /\ f.evicting = FALSE
            /\ f.inval = ext.inval /\ f.chained = ext.chained
        <4>1. ext.tries + 1 \in Nat
          BY <1>1 DEF Groups
        <4> QED BY <1>1, <4>1 DEF Failed, Groups, HostStates
      <3>2. /\ r \in References /\ r.phase \in TerminalPhase /\ ~Bound(r)
            /\ r.op = ref.op /\ r.attempt = ref.attempt /\ r.kind = ref.kind
        <4>1. r \in References
          BY <1>1, <2>1, PhaseType DEF Bounded
        <4> QED BY <1>1, <4>1 DEF References, TerminalPhase, Bound
      <3>3. Requested(t, f, r)
        BY <1>21, <2>4 DEF Finishing
      <3> HIDE DEF f, r
      <3>4. CASE Rests(t, f, r)
        <4>1. ext' = f /\ ref' = r /\ PostsNothing
          BY <2>1, <3>4, SendsNothing DEF Rests
        <4> QED BY <2>1, <3>1, <3>2, <4>1 DEF CFail, Group, RefKept
      <3>5. ~Invalidates(t, f, r) /\ ~Queries(t, f, r)
        BY <3>1, <3>2 DEF Invalidates, Queries
      <3>6. ASSUME NEW purpose, Unlocks(t, f, r, purpose) PROVE FALSE
        BY <3>1, <3>6 DEF Unlocks
      <3>7. ASSUME NEW kind \in {"eviction", "reconciliation"}, NEW reason \in Reasons, Begins(t, f, r, kind, reason)
            PROVE  CChain(m)
        BY <2>2, <3>1, <3>2, <3>7
      <3> QED BY <3>3, <3>4, <3>5, <3>6, <3>7 DEF Requested
    <2> QED BY <2>3, <2>4
  <1>22. CASE Resetting(m)
    <2>1. ext' = InitialGroup /\ RefGone /\ PostsNothing
      BY <1>6, <1>10, <1>22 DEF Resetting
    <2> QED BY <1>22, <2>1 DEF Resetting, CReset, Ends, Group, InitialGroup, Still
  <1>23. CASE Removing(m)
    <2>1. ext' = ext /\ ref' = [ref EXCEPT !.phase = "removal_authorized"] /\ PostsNothing
      BY <1>6, <1>23 DEF Removing
    <2>2. RefKept
      BY <1>1, <2>1 DEF RefKept, References
    <2> QED BY <1>5, <1>23, <2>1, <2>2 DEF Removing, CRemove, OfLast
  <1>24. CASE Ignoring(m)
    BY <1>6, <1>9, <1>24 DEF Ignoring, CIgnore, Still
  <1>25. CASE Parting(m)
    <2>1. ~Ready
      BY <1>3, <1>4, <1>25 DEF Ported, Parting, Ready
    <2>2. PostsNothing /\ RefKept /\ (ext' = ext \/ ext' = [ext EXCEPT !.state = "degraded", !.recon = TRUE])
      BY <1>6, <1>9, <1>25 DEF Parting
    <2>3. \E state \in {ext.state, "degraded"} :
             Group(state, ext.lease, ext.asked, ext.evicting, ext.inval, ext.chained)
      BY <1>1, <2>2 DEF Group, Groups
    <2> QED BY <1>25, <2>1, <2>2, <2>3 DEF Parting, CPart, Still
  <1> QED BY <1>1, <1>11, <1>12, <1>13, <1>14, <1>15, <1>16, <1>17, <1>18, <1>19, <1>20, <1>21, <1>22, <1>23,
             <1>24, <1>25 DEF Handling

\* A lease is asked for, and an operation is begun or asked about.
Unlocking(t, e, purpose) ==
    /\ Unlocks(t, e, ref, purpose) /\ t.ref = ref /\ t.out = <<LeaseRequest(purpose)>>
    /\ LeaseRequest(purpose) \in Requests
    /\ t.ext.state = "unlocking" /\ t.ext.lease = e.lease /\ t.ext.asked = purpose
    /\ t.ext.evicting = e.evicting /\ t.ext.inval = e.inval
    /\ t.ext.chained <=> e.chained \/ purpose = "enroll"
Working(t, e) ==
    /\ Idle(e) /\ t.ext = Evicting(e)
    /\ t.ext.state = "evicting" /\ t.ext.lease = e.lease /\ t.ext.asked = "none" /\ t.ext.evicting = TRUE
    /\ t.ext.inval = e.inval /\ t.ext.chained = e.chained
    /\ \/ t.ref = ref /\ \E x \in Requests : x.type = "operation.status.query" /\ t.out = <<x>>
       \/ /\ \E x \in Requests : x.type = "operation.begin" /\ t.out = <<x>>
          /\ t.ref.kind # "enrollment" /\ t.ref.op = 0
          /\ t.ref = ref \/ (t.ref.attempt = attempts + 1)

\* A task of the group e with the reference r: the group, the reference and the
\* messages that it leaves.
LEMMA RequestShapes ==
    ASSUME TypeOK, Order, NEW e \in Groups, NEW t, Requested(t, e, ref)
    PROVE  \/ Rests(t, e, ref)
           \/ Invalidates(t, e, ref)
           \/ \E purpose \in {"enroll", "inject"} : Unlocking(t, e, purpose)
           \/ Working(t, e)
  <1>1. ref \in References /\ attempts \in Nat
    BY DEF TypeOK
  <1>2. ASSUME NEW purpose \in {"enroll", "inject"}, Unlocks(t, e, ref, purpose)
        PROVE  Unlocking(t, e, purpose)
    <2> DEFINE c == e.chained \/ purpose = "enroll"
    <2>1. t.ext = [e EXCEPT !.asked = purpose, !.state = "unlocking", !.chained = c]
      BY <1>2 DEF Unlocks
    <2>2. c \in BOOLEAN /\ (c <=> e.chained \/ purpose = "enroll")
      OBVIOUS
    <2> HIDE DEF c
    <2>3. LeaseRequest(purpose) \in Requests
      BY DEF LeaseRequest, Requests
    <2>4. t.ext.chained = c
      BY <2>1 DEF Groups
    <2> QED BY <1>2, <2>1, <2>2, <2>3, <2>4 DEF Unlocking, Unlocks, Groups
  <1>3. ASSUME Idle(e), t.ext = Evicting(e)
        PROVE  /\ t.ext.state = "evicting" /\ t.ext.lease = e.lease /\ t.ext.asked = "none" /\ t.ext.evicting = TRUE
               /\ t.ext.inval = e.inval /\ t.ext.chained = e.chained
    BY <1>3 DEF Evicting, Idle, Groups
  <1>4. CASE Queries(t, e, ref)
    <2>1. StatusQuery(ref) \in Requests /\ StatusQuery(ref).type = "operation.status.query"
      BY <1>1 DEF StatusQuery, Requests, References
    <2> QED BY <1>3, <1>4, <2>1 DEF Working, Queries
  <1>5. ASSUME NEW kind \in {"eviction", "reconciliation"}, NEW reason \in Reasons, Begins(t, e, ref, kind, reason)
        PROVE  /\ Idle(e) /\ t.ext = Evicting(e)
               /\ \E x \in Requests : x.type = "operation.begin" /\ t.out = <<x>>
               /\ t.ref.kind # "enrollment" /\ t.ref.op = 0
               /\ t.ref = ref \/ (t.ref.attempt = attempts + 1)
    <2>1. /\ t.ref \in References /\ t.ref.kind = kind /\ t.ref.op = 0
          /\ t.ref = ref \/ t.ref.attempt = attempts + 1
      BY <1>1, <1>5, BegunType DEF Begins, Kinds
    <2>2. OperationBegin(t.ref, reason) \in Requests /\ OperationBegin(t.ref, reason).type = "operation.begin"
      BY <2>1 DEF OperationBegin, Requests, References, Kinds
    <2> QED BY <1>5, <2>1, <2>2 DEF Begins
  <1> QED BY <1>2, <1>3, <1>4, <1>5 DEF Requested, Working

\* Every other task of the controller has one of these effects.
LEMMA TaskShapes ==
    ASSUME TypeOK, TypeOK', Order, HostFacts, Removal,
           \/ (\E t : TaskStep(t)) \/ (\E reason \in Reasons : RepeatStep(reason)) \/ TurnStep
           \/ \E success \in BOOLEAN, count \in Nat : ReportStep(success, count)
           \/ RestStep
    PROVE  TaskShape
  <1>1. /\ ext \in Groups /\ ref \in References /\ op \in Ops /\ attempts \in Nat /\ op.attempt \in Nat /\ Indexed
        /\ op.attempt <= attempts /\ toHost \in Seq(Requests)
    BY Places DEF TypeOK, Order, Referred, Ops
  <1>2. inbox' = inbox => In' = In
    BY DEF In
  <1>3. ref' = ref => RefKept
    BY DEF RefKept
  <1>4. toHost' = toHost => PostsNothing
    BY DEF PostsNothing, Out
  <1>5. CASE RestStep
    BY <1>1, <1>2, <1>3, <1>4, <1>5 DEF RestStep, TaskShape, TTurn, Quietly, Still
  <1>6. CASE TurnStep
    BY <1>1, <1>2, <1>3, <1>4, <1>6 DEF TurnStep, TaskShape, TTurn, Quietly
  <1>7. ASSUME NEW reason \in Reasons, RepeatStep(reason) PROVE TaskShape
    <2>1. OperationBegin(ref, reason) \in Requests /\ OperationBegin(ref, reason).type = "operation.begin"
          /\ OperationBegin(ref, reason).kind = ref.kind
      BY <1>1, <1>7 DEF OperationBegin, Requests, References, RepeatStep
    <2>2. Sends(<<OperationBegin(ref, reason)>>)
      BY <1>7 DEF RepeatStep, Sends
    <2>3. Posts(OperationBegin(ref, reason))
      BY <2>1, <2>2, SendsPosts
    <2> QED BY <1>1, <1>2, <1>3, <1>7, <2>1, <2>3 DEF RepeatStep, TaskShape, TRepeat, Quietly, Still, Ready
  <1>8. ASSUME NEW success \in BOOLEAN, NEW count \in Nat, ReportStep(success, count) PROVE TaskShape
    <2>1. CASE Ready
      <3>1. /\ ext' = [ext EXCEPT !.state = IF success THEN "sealed" ELSE "degraded", !.recon = ~success]
            /\ ref' = ref /\ Sends(<<EvictResult(ref, success, count)>>) /\ (success => count = 0)
        BY <1>8, <2>1 DEF ReportStep, Leaves, Ready
      <3>2. EvictResult(ref, success, count) \in Requests /\ EvictResult(ref, success, count).type = "evict.result"
            /\ ~Keeping(EvictResult(ref, success, count))
        BY <1>1, <3>1 DEF EvictResult, Requests, References, Keeping
      <3>3. Posts(EvictResult(ref, success, count))
        BY <3>1, <3>2, SendsPosts
      <3>4. \E state \in {"sealed", "degraded"} :
               Group(state, ext.lease, ext.asked, ext.evicting, ext.inval, ext.chained)
        BY <1>1, <3>1 DEF Group, Groups
      <3>5. ~Uncommitted
        BY <1>8, <2>1 DEF Removal, Calm, ReportStep, Ready, Uncommitted
      <3>6. loop'.at = "idle"
        BY <1>8 DEF ReportStep, NoLoop
      <3> QED BY <1>1, <1>2, <1>3, <1>8, <2>1, <3>1, <3>2, <3>3, <3>4, <3>5, <3>6 DEF ReportStep, TaskShape, TReport
    <2>2. CASE ~Ready
      BY <1>1, <1>2, <1>3, <1>4, <1>8, <2>2 DEF ReportStep, TaskShape, TTurn, Quietly, Ready
    <2> QED BY <2>1, <2>2
  <1>9. ASSUME NEW t, TaskStep(t) PROVE TaskShape
    <2>1. /\ Requested(t, ext, ref) /\ ext' = t.ext /\ ref' = t.ref /\ Sends(t.out) /\ loop' = loop
          /\ inbox' = inbox /\ port' = port /\ Apart
      BY <1>9 DEF TaskStep, Leaves, Still
    <2> SUFFICES TInvalidate \/ TUnlock \/ TQuery \/ TBegin \/ TTurn
      BY <1>1, <1>2, <2>1 DEF TaskShape
    <2>2. CASE Rests(t, ext, ref)
      BY <1>3, <2>1, <2>2, SendsNothing DEF Rests, TTurn
    <2>3. CASE Invalidates(t, ext, ref)
      <3>1. SessionInvalidate(ext.lease) \in Requests /\ SessionInvalidate(ext.lease).type = "session.invalidate"
        BY <1>1 DEF SessionInvalidate, Requests, Groups
      <3>2. Posts(SessionInvalidate(ext.lease))
        BY <2>1, <2>3, <3>1, SendsPosts DEF Invalidates
      <3>3. Calmly /\ ext.state = "leased" /\ ext' = [ext EXCEPT !.inval = TRUE] /\ RefKept
        BY <1>3, <2>1, <2>3 DEF Invalidates, Idle, Calmly
      <3>4. Group("leased", ext.lease, "none", FALSE, TRUE, ext.chained)
        BY <1>1, <3>3 DEF Group, Groups, Calmly
      <3> QED BY <2>1, <3>1, <3>2, <3>3, <3>4 DEF TInvalidate
    <2>4. ASSUME NEW purpose \in {"enroll", "inject"},
                 Unlocking(t, ext, purpose) PROVE TUnlock
      <3>1. Posts(LeaseRequest(purpose)) /\ LeaseRequest(purpose).type = "lease.request"
        BY <2>1, <2>4, SendsPosts DEF Unlocking, LeaseRequest
      <3>2. Calmly /\ ext.state = (IF purpose = "enroll" THEN "uninitialized" ELSE "sealed")
        BY <2>4 DEF Unlocking, Unlocks, Idle, Calmly
      <3>3. Group("unlocking", ext.lease, purpose, FALSE, FALSE, ext.chained \/ purpose = "enroll")
        BY <2>1, <2>4, <3>2 DEF Unlocking, Group, Calmly
      <3> QED BY <1>3, <2>1, <2>4, <3>1, <3>2, <3>3 DEF Unlocking, TUnlock
    <2>5. CASE Working(t, ext)
      <3>1. Calmly /\ Group("evicting", ext.lease, "none", TRUE, FALSE, ext.chained)
        BY <2>1, <2>5 DEF Working, Group, Calmly, Idle
      <3>2. t.ref.attempt = attempts + 1 /\ t.ref.op = 0 => RefNew
        BY <1>1, <2>1 DEF RefNew
      <3>3. CASE t.ref = ref /\ \E x \in Requests : x.type = "operation.status.query" /\ t.out = <<x>>
        BY <1>3, <2>1, <3>1, <3>3, SendsPosts DEF TQuery
      <3>4. CASE /\ \E x \in Requests : x.type = "operation.begin" /\ t.out = <<x>>
                 /\ t.ref.kind # "enrollment" /\ t.ref.op = 0
                 /\ t.ref = ref \/ (t.ref.attempt = attempts + 1)
        <4>1. \E x : x.type = "operation.begin" /\ Posts(x)
          BY <2>1, <3>4, SendsPosts
        <4> QED BY <1>3, <2>1, <3>1, <3>2, <3>4, <4>1 DEF TBegin
      <3> QED BY <2>5, <3>3, <3>4 DEF Working
    <2>6. \/ Rests(t, ext, ref) \/ Invalidates(t, ext, ref) \/ Working(t, ext)
          \/ \E purpose \in {"enroll", "inject"} : Unlocking(t, ext, purpose)
      BY <1>1, <2>1, RequestShapes
    <2> QED BY <2>2, <2>3, <2>4, <2>5, <2>6
  <1> QED BY <1>5, <1>6, <1>7, <1>8, <1>9

\* The handshake.
LEMMA GreetShapes ==
    ASSUME TypeOK, TypeOK', Order, HostFacts, Opened, ReceiveStep, NEW t, Greeted(Head(inbox), t), port # "ready",
           inbox' = Tail(inbox)
    PROVE  GreetShape \/ AckShape(Head(inbox))
  <1> DEFINE m == Head(inbox)
             a == Adopted(m)
  <1>1. /\ ext \in Groups /\ ref \in References /\ host \in HostsSet /\ attempts \in Nat /\ op.attempt \in Nat
        /\ Indexed /\ op.attempt <= attempts /\ inbox \in Seq(Replies) /\ inbox # <<>> /\ Apart /\ loop.at = "idle"
        /\ port \in {"none", "open", "ready"}
    BY Places DEF TypeOK, Order, Referred, Ops, ReceiveStep
  <1>2. m \in Replies /\ m.type = "handshake.ack" /\ m = inbox[1]
    BY <1>1, TailElements DEF Greeted
  <1>3. /\ a \in Groups /\ a.state = m.state /\ a.lease = m.lease /\ a.asked = "none" /\ a.evicting = FALSE
        /\ a.chained = ext.chained /\ (a.inval => m.state # "uninitialized")
    BY <1>2, AdoptedType
  <1>4. /\ Requested(t, a, ref) /\ ~Invalidates(t, a, ref) /\ ext' = t.ext /\ ref' = t.ref /\ loop' = loop
        /\ port' = IF port = "open" THEN "ready" ELSE port
        /\ port = "none" => toHost' = toHost
    BY DEF Greeted, Still
  <1>5. Greeted(m, t)
    OBVIOUS
  <1> HIDE DEF m, a
  <1>6. /\ \/ ext'.state = m.state /\ ext'.asked = "none" /\ t.out = <<>> /\ ref' = ref
           \/ /\ ext'.state = "unlocking" /\ ref' = ref
              /\ \E x \in Requests : x.type = "lease.request" /\ t.out = <<x>>
              /\ \/ ext'.asked = "enroll" /\ m.state = "uninitialized" /\ ext'.chained
                 \/ ext'.asked = "inject" /\ m.state = "sealed"
           \/ /\ ext'.state = "evicting" /\ ext'.asked = "none"
              /\ \E x \in Requests : x.type \in {"operation.status.query", "operation.begin"} /\ t.out = <<x>>
              /\ ref' = ref \/ (ref'.kind # "enrollment" /\ ref'.op = 0 /\ ref'.attempt = attempts + 1)
        /\ ext'.lease = m.lease /\ (ext.chained => ext'.chained) /\ (ext'.inval => m.state # "uninitialized")
    <2>1. CASE Rests(t, a, ref)
      BY <1>3, <1>4, <2>1 DEF Rests
    <2>2. ASSUME NEW purpose \in {"enroll", "inject"},
                 Unlocking(t, a, purpose)
          PROVE  /\ ext'.state = "unlocking" /\ ref' = ref
                 /\ \E x \in Requests : x.type = "lease.request" /\ t.out = <<x>>
                 /\ \/ ext'.asked = "enroll" /\ m.state = "uninitialized" /\ ext'.chained
                    \/ ext'.asked = "inject" /\ m.state = "sealed"
                 /\ ext'.lease = m.lease /\ (ext.chained => ext'.chained) /\ (ext'.inval => m.state # "uninitialized")
      <3>1. LeaseRequest(purpose).type = "lease.request"
        BY DEF LeaseRequest
      <3>2. a.state = (IF purpose = "enroll" THEN "uninitialized" ELSE "sealed")
        BY <2>2 DEF Unlocking, Unlocks
      <3> QED BY <1>3, <1>4, <2>2, <3>1, <3>2 DEF Unlocking
    <2>3. CASE Working(t, a)
      BY <1>3, <1>4, <2>3 DEF Working
    <2>4. \/ Rests(t, a, ref) \/ Working(t, a)
          \/ \E purpose \in {"enroll", "inject"} : Unlocking(t, a, purpose)
      BY <1>3, <1>4, RequestShapes
    <2> QED BY <2>1, <2>2, <2>3, <2>4
  <1>7. /\ ref' = ref => RefKept
        /\ ref'.op = 0 /\ ref'.attempt = attempts + 1 => RefNew
    BY <1>1 DEF RefKept, RefNew
  <1>8. CASE port = "none"
    <2>1. Takes(m) /\ PostsNothing
      BY <1>1, <1>4, <1>8, TailTakes DEF PostsNothing, Out, m
    <2> QED BY <1>1, <1>2, <1>4, <1>6, <1>7, <1>8, <2>1 DEF AckShape, m
  <1>9. CASE port = "open"
    <2>1. inbox = <<Ack(host)>> /\ toHost = <<>> /\ host.up
      BY <1>9 DEF HostFacts, Ported
    <2>2. m = Ack(host) /\ Tail(inbox) = <<>>
      BY <2>1 DEF m
    <2>3. m.state = host.state /\ m.lease = host.lease /\ In' = {}
      BY <2>2 DEF Ack, In
    <2>4. ~Uncommitted
      BY <1>9, <2>1 DEF Opened, HostFacts, Pended, Uncommitted
    <2> DEFINE query == IF Bound(ref) THEN <<StatusQuery(ref)>> ELSE <<>>
    <2>5. /\ toHost' = query \o t.out /\ t.out \in Seq(Requests) /\ query \in Seq(Requests)
          /\ \A i \in 1 .. Len(query) : query[i].type = "operation.status.query"
      <3>1. t.out \in Seq(Requests)
        BY <1>1, <1>3, <1>4, RequestedType
      <3>2. StatusQuery(ref) \in Requests /\ StatusQuery(ref).type = "operation.status.query"
        BY <1>1 DEF StatusQuery, Requests, References
      <3>3. query \in Seq(Requests) /\ \A i \in 1 .. Len(query) : query[i].type = "operation.status.query"
        BY <3>2
      <3>4. toHost' = toHost \o (query \o t.out)
        BY <1>5, <1>9 DEF Greeted
      <3> HIDE DEF query
      <3>5. query \o t.out \in Seq(Requests)
        BY <3>1, <3>3, ConcatProperties
      <3>6. <<>> \o (query \o t.out) = query \o t.out
        BY <3>5, CatNothing
      <3> QED BY <2>1, <3>1, <3>3, <3>4, <3>6
    <2> HIDE DEF query
    <2>6. /\ Len(toHost') = Len(query) + Len(t.out) /\ Len(query) \in Nat /\ Len(t.out) \in Nat
          /\ \A i \in 1 .. Len(query) : toHost'[i] = query[i]
          /\ \A i \in 1 .. Len(toHost') : i > Len(query) => i - Len(query) \in 1 .. Len(t.out) /\ toHost'[i] = t.out[i - Len(query)]
      BY <2>5, CatElements
    <2>7. \A q \in Out' : q \in 1 .. Len(query) \/ (q > Len(query) /\ q \in 1 .. Len(toHost'))
      BY <2>6 DEF Out
    <2>8. ASSUME NEW x \in Requests, t.out = <<x>>
          PROVE  /\ \A q \in Out' : toHost'[q].type = "operation.status.query" \/ toHost'[q] = x
                 /\ \E q \in Out' : toHost'[q] = x
      <3>1. Len(t.out) = 1 /\ t.out[1] = x
        BY <2>8
      <3>2. \A q \in Out' : q > Len(query) /\ q \in 1 .. Len(toHost') => toHost'[q] = x
        BY <2>6, <3>1
      <3>3. Len(query) + 1 \in Out' /\ Len(query) + 1 > Len(query) /\ Len(query) + 1 \in 1 .. Len(toHost')
        BY <2>6, <3>1 DEF Out
      <3> QED BY <2>5, <2>6, <2>7, <3>2, <3>3
    <2>9. t.out = <<>> => \A q \in Out' : toHost'[q].type = "operation.status.query"
      <3>1. t.out = <<>> => Len(t.out) = 0
        OBVIOUS
      <3> QED BY <2>5, <2>6, <2>7, <3>1
    <2>10. /\ \A q \in Out' : /\ toHost'[q].type \in {"operation.status.query", "lease.request", "operation.begin"}
                              /\ ext'.state # "evicting" => toHost'[q].type # "operation.begin"
           /\ ext'.asked # "none" => \E q \in Out' : toHost'[q].type = "lease.request"
      BY <1>6, <2>8, <2>9
    <2>11. port' = "ready"
      BY <1>4, <1>9
    <2> QED BY <1>1, <1>4, <1>6, <1>7, <1>9, <2>3, <2>4, <2>10, <2>11 DEF GreetShape, Ready
  <1> QED BY <1>1, <1>8, <1>9

\* The steps that lose a port, a worker or a host, and the start of a host.
LEMMA LossShapes ==
    ASSUME TypeOK, TypeOK', HostFacts,
           HangStep \/ StopStep \/ EndStep \/ ConnectStep \/ (ReceiveStep /\ Closed(Head(inbox)))
    PROVE  LossShape
  <1>1. /\ inbox \in Seq(Replies) /\ inbox' \in Seq(Replies) /\ host \in HostsSet /\ op \in Ops /\ Indexed /\ Pended /\ Ported
        /\ Len(inbox) \in Nat /\ Len(inbox') \in Nat
    BY Places, LenProperties DEF TypeOK, HostFacts
  <1>2. ref' = ref => RefKept
    BY DEF RefKept
  <1>3. toHost' = toHost => PostsNothing
    BY DEF PostsNothing, Out
  <1>4. Told("disconnect") \in Replies /\ Told("disconnect").type = "disconnect"
    BY DEF Told, Replies
  <1>5. ASSUME NEW s \in Seq(Replies), inbox' = s \o <<Told("disconnect")>>
        PROVE  \A i \in In' : (i \in 1 .. Len(s) /\ inbox'[i] = s[i]) \/ inbox'[i].type = "disconnect"
    <2>1. Grown(s, inbox', Told("disconnect")) /\ Len(s) \in Nat
      BY <1>4, <1>5, CatGrows, LenProperties
    <2> QED BY <1>4, <2>1 DEF Grown, In
  <1>6. ASSUME Apart PROVE /\ leases' = leases /\ host'.lease \in {host.lease, 0}
                           /\ op'.id = op.id /\ op'.attempt = op.attempt /\ op'.kind = op.kind /\ op'.phase = op.phase
    BY <1>6 DEF Apart
  <1>7. CASE HangStep
    <2>1. \A i \in In' : (i + 0 \in In /\ inbox'[i] = inbox[i + 0]) \/ inbox'[i].type = "disconnect"
      <3>1. \A i \in In' : (i \in In /\ inbox'[i] = inbox[i]) \/ inbox'[i].type = "disconnect"
        BY <1>1, <1>5, <1>7 DEF HangStep, In
      <3>2. \A i \in In' : i + 0 = i
        BY <1>1 DEF Indexed
      <3> QED BY <3>1, <3>2
    <2> QED BY <1>1, <1>2, <1>3, <1>6, <1>7, <2>1 DEF HangStep, LossShape, Quietly
  <1>8. CASE StopStep
    <2>1. In' = {}
      BY <1>8 DEF StopStep, In
    <2> QED BY <1>1, <1>2, <1>3, <1>6, <1>8, <2>1 DEF StopStep, LossShape, Quietly
  <1>9. CASE EndStep
    <2>1. \A i \in In' : (i + 0 \in In /\ inbox'[i] = inbox[i + 0]) \/ inbox'[i].type = "disconnect"
      BY <1>1, <1>9 DEF EndStep, In
    <2>2. Out' = {} /\ host'.lease = host.lease
      BY <1>1, <1>9 DEF EndStep, Out, HostsSet
    <2> QED BY <1>1, <1>2, <1>9, <2>1, <2>2 DEF EndStep, LossShape, Quietly
  <1>10. CASE ConnectStep
    <2>1. host'.lease \in {host.lease, 0} /\ host'.pending = host.pending /\ ~host.pending.on
      BY <1>1, <1>10 DEF ConnectStep, Restarted, HostsSet, Pended
    <2>2. /\ op'.id = op.id /\ op'.attempt = op.attempt /\ op'.kind = op.kind
          /\ op'.phase = op.phase \/ (Uncommitted /\ op'.phase = "Aborted")
      BY <1>1, <1>10 DEF ConnectStep, Ops, Uncommitted
    <2>3. Ack(Restarted).type = "handshake.ack"
      BY DEF Ack
    <2>4. \A i \in In' : inbox'[i].type = "handshake.ack"
      <3>1. inbox' = <<Ack(Restarted)>>
        BY <1>10 DEF ConnectStep
      <3> HIDE DEF Ack, Restarted
      <3>2. Len(inbox') = 1 /\ inbox'[1] = Ack(Restarted)
        BY <3>1
      <3> QED BY <2>3, <3>2 DEF In
    <2> QED BY <1>1, <1>2, <1>3, <1>10, <2>1, <2>2, <2>4 DEF ConnectStep, LossShape, Quietly
  <1>11. CASE ReceiveStep /\ Closed(Head(inbox))
    <2>1. /\ port' = "none" /\ inbox' = Append(Tail(inbox), Told("disconnect")) /\ ext' = ext /\ ref' = ref /\ Sends(<<>>)
          /\ Apart /\ inbox # <<>>
      BY <1>11 DEF ReceiveStep, Closed, Leaves
    <2>2. /\ Tail(inbox) \in Seq(Replies)
          /\ \A i \in 1 .. Len(Tail(inbox)) : i + 1 \in In /\ Tail(inbox)[i] = inbox[i + 1]
      BY <1>1, <2>1, TailElements DEF In
    <2>3. inbox' = Tail(inbox) \o <<Told("disconnect")>>
      BY <1>4, <2>1, <2>2, CatGrows
    <2>4. \A i \in In' : (i + 1 \in In /\ inbox'[i] = inbox[i + 1]) \/ inbox'[i].type = "disconnect"
      BY <1>5, <2>2, <2>3
    <2> QED BY <1>1, <1>2, <1>6, <2>1, <2>4, SendsNothing DEF LossShape
  <1> QED BY <1>7, <1>8, <1>9, <1>10, <1>11

\* Every step has one of these shapes.
Shape ==
    \/ HostShape(Head(toHost)) \/ ReplyShape(Head(inbox)) \/ TaskShape \/ GreetShape \/ AckShape(Head(inbox)) \/ LossShape

\* The classes of Step have these shapes.
LEMMA Shapes == ASSUME TypeOK, TypeOK', Order, HostFacts, Removal, Opened, Step PROVE Shape
  <1>1. CASE ReceiveStep
    <2>1. Ported /\ Handled(Head(inbox)) /\ port \in {"none", "open", "ready"}
      BY <1>1 DEF HostFacts, ReceiveStep, TypeOK
    <2>2. CASE Closed(Head(inbox))
      BY <1>1, <2>2, LossShapes DEF Shape
    <2>3. CASE inbox' = Tail(inbox) /\ port' = port /\ Handling(Head(inbox))
      BY <1>1, <2>3, ReplyShapes DEF Shape
    <2>4. ASSUME inbox' = Tail(inbox), NEW t, Greeted(Head(inbox), t) PROVE Shape
      <3>1. port # "ready"
        <4>1. inbox # <<>> /\ inbox \in Seq(Replies)
          BY <1>1 DEF ReceiveStep, TypeOK
        <4>2. Head(inbox) = inbox[1] /\ 1 \in 1 .. Len(inbox)
          BY <4>1, TailElements
        <4> QED BY <2>1, <2>4, <4>2 DEF Ported, Greeted
      <3> QED BY <1>1, <2>4, <3>1, GreetShapes DEF Shape
    <2> QED BY <2>1, <2>2, <2>3, <2>4 DEF Handled
  <1>2. CASE HostStep
    BY <1>2, HostShapes DEF Shape
  <1>3. CASE \/ (\E t : TaskStep(t)) \/ (\E reason \in Reasons : RepeatStep(reason)) \/ TurnStep
             \/ \E success \in BOOLEAN, count \in Nat : ReportStep(success, count)
             \/ RestStep
    BY <1>3, TaskShapes DEF Shape
  <1>4. CASE HangStep \/ StopStep \/ EndStep \/ ConnectStep
    BY <1>4, LossShapes DEF Shape
  <1> QED BY <1>1, <1>2, <1>3, <1>4 DEF Step

\* What the other invariants say of it.
Known ==
    /\ port \in {"none", "open", "ready"}
    /\ Ready => \A i \in In : inbox[i].type # "handshake.ack"
    /\ Ready /\ Uncommitted => loop.at = "idle" /\ \A i \in In : ~OfLast(inbox[i], "evict.remove.authorized")
    /\ Ready /\ loop.at # "idle" => ref.op # 0
    /\ ref.op # 0 => Bounded
    /\ ref.attempt # 0 /\ ref.attempt = op.attempt => ref.kind = op.kind
    /\ Unresolved => host.state \in {"evicting", "degraded"}
    /\ Uncommitted \/ Enrolment => op.id # 0 /\ op.attempt # 0
    /\ host.state = "sealed" => ~Enrolment

\* It follows from them.
LEMMA KnownHere == ASSUME TypeOK, Order, HostFacts, Removal PROVE Known
  <1>1. op \in Ops /\ ref \in References /\ port \in {"none", "open", "ready"}
    BY DEF TypeOK
  <1>2. Ready => \A i \in In : inbox[i].type # "handshake.ack"
    BY DEF HostFacts, Ported, Ready, In
  <1>3. Ready /\ Uncommitted => loop.at = "idle" /\ \A i \in In : ~OfLast(inbox[i], "evict.remove.authorized")
    BY DEF Removal, Calm, Allowed, Ready, In, Uncommitted, OfLast
  <1>4. Referred(ref, op, attempts)
    BY DEF Order
  <1>5. Ready /\ loop.at # "idle" => ref.op # 0
    BY DEF Removal, Calm, Ready
  <1>6. ref.op # 0 => Bounded
    BY <1>1, <1>4 DEF Referred, Bounded, References, Ops
  <1>7. /\ Unresolved => host.state \in {"evicting", "degraded"}
        /\ Uncommitted \/ Enrolment => op.id # 0 /\ op.attempt # 0
    BY <1>1, <1>4 DEF HostFacts, Stated, Referred, Ops, Uncommitted, Enrolment
  <1>8. host.state = "sealed" => ~Enrolment
    BY DEF HostFacts, Stated, Enrolment
  <1> QED BY <1>1, <1>2, <1>3, <1>4, <1>5, <1>6, <1>7, <1>8 DEF Known, Referred
-----------------------------------------------------------------------------
(* Every kind of step keeps every part.                                    *)

USE DEF Drains, Indexed, HSilent, HRefused, HRequired, HStatus, HAllowed, HEnrolled, HUnlocked, HStarted, HDropped,
        HStored, HFinished, HSpoilt, HInvalidated, Takes, Apart, CGrant, CEnrol, CInject, CRefusal, CRequired,
        CRetain, CPrepare, CResend, CForget, CGiveUp, CDone, CLeave, CChain, CFail, CReset, CRemove, CIgnore,
        CPart, TInvalidate, TUnlock, TQuery, TBegin, TRepeat, TTurn, TReport, Ready, Uncommitted, RefKept, RefNew,
        PostsNothing, Sets, OfLast, Chunk, Unresolved, Ends, Preparation, Precheck, Enrolment, Committed, Keeping,
        NoneWon, NoEnd, EndAfter, LastSets, Beginning, Underway, Refuses, Coming, Restoring, HostLeased,
        CancelAfter, Leaving, Won, Clear, Bounded, Steady, HearsNothing, Hears, HearsTwo, HasOp, OfOp, Phased,
        Group, Posts, PostsTwo, RefGone, Calmly, Stage, Cancels, Claims

\* Only the host issues a number, and it issues the next one.
LEMMA NumberedKept == ASSUME Shape, Numbered PROVE Numbered'
  <1>1. ASSUME NEW m, HostShape(m) PROVE Numbered'
    BY <1>1 DEF HostShape, Numbered
  <1>2. ASSUME NEW m, ReplyShape(m) PROVE Numbered'
    BY <1>2 DEF ReplyShape, Numbered
  <1>3. CASE TaskShape
    BY <1>3 DEF TaskShape, Numbered
  <1>4. CASE GreetShape
    BY <1>4 DEF GreetShape, Numbered
  <1>5. CASE AckShape(Head(inbox))
    BY <1>5 DEF AckShape, Numbered
  <1>6. CASE LossShape
    BY <1>6 DEF LossShape, Numbered
  <1> QED BY <1>1, <1>2, <1>3, <1>4, <1>5, <1>6 DEF Shape

\* A grant and an injection come with a number that no message has yet.
LEMMA DistinctKept == ASSUME Shape, Distinct, Numbered PROVE Distinct'
  <1>1. ASSUME NEW m, HostShape(m) PROVE Distinct'
    <2>1. CASE HEnrolled(m) \/ HUnlocked(m)
      BY <1>1, <2>1 DEF HostShape, Numbered, Distinct
    <2>2. CASE ~(HEnrolled(m) \/ HUnlocked(m))
      BY <1>1, <2>2 DEF HostShape, Distinct
    <2> QED BY <2>1, <2>2
  <1>2. ASSUME NEW m, ReplyShape(m) PROVE Distinct'
    BY <1>2 DEF ReplyShape, Distinct
  <1>3. CASE TaskShape
    BY <1>3 DEF TaskShape, Distinct
  <1>4. CASE GreetShape
    BY <1>4 DEF GreetShape, Distinct
  <1>5. CASE AckShape(Head(inbox))
    BY <1>5 DEF AckShape, Distinct
  <1>6. CASE LossShape
    BY <1>6 DEF LossShape, Distinct
  <1> QED BY <1>1, <1>2, <1>3, <1>4, <1>5, <1>6 DEF Shape

\* operation.completed is said when the operation ends, and no operation goes on after its end.
LEMMA DecidedKept == ASSUME Shape, Decided PROVE Decided'
  <1>1. ASSUME NEW m, HostShape(m) PROVE Decided'
    BY <1>1 DEF HostShape, Decided
  <1>2. ASSUME NEW m, ReplyShape(m) PROVE Decided'
    BY <1>2 DEF ReplyShape, Decided
  <1>3. CASE TaskShape
    BY <1>3 DEF TaskShape, Decided
  <1>4. CASE GreetShape
    BY <1>4 DEF GreetShape, Decided
  <1>5. CASE AckShape(Head(inbox))
    BY <1>5 DEF AckShape, Decided
  <1>6. CASE LossShape
    BY <1>6 DEF LossShape, Decided
  <1> QED BY <1>1, <1>2, <1>3, <1>4, <1>5, <1>6 DEF Shape

\* A host that has just started has nothing pending.
LEMMA OpenedKept == ASSUME Shape, Opened PROVE Opened'
  <1>1. ASSUME NEW m, HostShape(m) PROVE Opened'
    BY <1>1 DEF HostShape, Opened
  <1>2. ASSUME NEW m, ReplyShape(m) PROVE Opened'
    BY <1>2 DEF ReplyShape, Opened
  <1>3. CASE TaskShape
    BY <1>3 DEF TaskShape, Opened
  <1>4. CASE GreetShape
    BY <1>4 DEF GreetShape, Opened
  <1>5. CASE AckShape(Head(inbox))
    BY <1>5 DEF AckShape, Opened
  <1>6. CASE LossShape
    BY <1>6 DEF LossShape, Opened
  <1> QED BY <1>1, <1>2, <1>3, <1>4, <1>5, <1>6 DEF Shape

\* On a ready port the handshake is over, and on an open one nothing was asked of the host.
LEMMA AloneKept == ASSUME Shape, Alone, Known PROVE Alone'
  <1>1. ASSUME NEW m, HostShape(m) PROVE Alone'
    <2>1. CASE HFinished(m)
      BY <1>1, <2>1 DEF HostShape, Known, Alone
    <2>2. CASE ~HFinished(m)
      BY <1>1, <2>2 DEF HostShape, Alone
    <2> QED BY <2>1, <2>2
  <1>2. ASSUME NEW m, ReplyShape(m) PROVE Alone'
    BY <1>2 DEF ReplyShape, Alone
  <1>3. CASE TaskShape
    BY <1>3 DEF TaskShape, Alone
  <1>4. CASE GreetShape
    BY <1>4 DEF GreetShape, Alone
  <1>5. CASE AckShape(Head(inbox))
    BY <1>5 DEF AckShape, Alone
  <1>6. CASE LossShape
    BY <1>6 DEF LossShape, Alone
  <1> QED BY <1>1, <1>2, <1>3, <1>4, <1>5, <1>6 DEF Shape

\* A new attempt has no operation yet, and the controller sends a snapshot once it knows the operation.
LEMMA UnsentKept == ASSUME Shape, Unsent PROVE Unsent'
  <1>1. ASSUME NEW m, HostShape(m) PROVE Unsent'
    BY <1>1 DEF HostShape, Unsent
  <1>2. ASSUME NEW m, ReplyShape(m) PROVE Unsent'
    BY <1>2 DEF ReplyShape, Unsent
  <1>3. CASE TaskShape
    BY <1>3 DEF TaskShape, Unsent
  <1>4. CASE GreetShape
    BY <1>4 DEF GreetShape, Unsent
  <1>5. CASE AckShape(Head(inbox))
    BY <1>5 DEF AckShape, Unsent
  <1>6. CASE LossShape
    BY <1>6 DEF LossShape, Unsent
  <1> QED BY <1>1, <1>2, <1>3, <1>4, <1>5, <1>6 DEF Shape

\* The host leaves NotCommitted by a snapshot, which nobody sent.
LEMMA AwaitedKept == ASSUME Shape, Awaited, Unsent PROVE Awaited'
  <1>1. ASSUME NEW m, HostShape(m) PROVE Awaited'
    <2>1. CASE HDropped(m) \/ HStored(m)
      BY <1>1, <2>1 DEF HostShape, Unsent, Awaited
    <2>2. CASE ~(HDropped(m) \/ HStored(m))
      BY <1>1, <2>2 DEF HostShape, Awaited
    <2> QED BY <2>1, <2>2
  <1>2. ASSUME NEW m, ReplyShape(m) PROVE Awaited'
    BY <1>2 DEF ReplyShape, Awaited
  <1>3. CASE TaskShape
    BY <1>3 DEF TaskShape, Awaited
  <1>4. CASE GreetShape
    BY <1>4 DEF GreetShape, Awaited
  <1>5. CASE AckShape(Head(inbox)) \/ LossShape
    BY <1>5 DEF AckShape, LossShape, Awaited
  <1> QED BY <1>1, <1>2, <1>3, <1>4, <1>5 DEF Shape

\* While an operation is unresolved the host neither issues a lease nor ends one.
LEMMA BeforeKept == ASSUME Shape, Before PROVE Before'
  <1>1. ASSUME NEW m, HostShape(m) PROVE Before'
    BY <1>1 DEF HostShape, Before
  <1>2. ASSUME NEW m, ReplyShape(m) PROVE Before'
    BY <1>2 DEF ReplyShape, Before
  <1>3. CASE TaskShape
    BY <1>3 DEF TaskShape, Before
  <1>4. CASE GreetShape
    BY <1>4 DEF GreetShape, Before
  <1>5. CASE AckShape(Head(inbox)) \/ LossShape
    BY <1>5 DEF AckShape, LossShape, Before
  <1> QED BY <1>1, <1>2, <1>3, <1>4, <1>5 DEF Shape

\* The host confirms and prepares only what is committed, and the controller answers only these.
LEMMA EarlyKept == ASSUME Shape, Early PROVE Early'
  <1>1. ASSUME NEW m, HostShape(m) PROVE Early'
    BY <1>1 DEF HostShape, Early
  <1>2. ASSUME NEW m, ReplyShape(m) PROVE Early'
    BY <1>2 DEF ReplyShape, Early
  <1>3. CASE TaskShape
    BY <1>3 DEF TaskShape, Early
  <1>4. CASE GreetShape
    BY <1>4 DEF GreetShape, Early
  <1>5. CASE AckShape(Head(inbox)) \/ LossShape
    BY <1>5 DEF AckShape, LossShape, Early
  <1> QED BY <1>1, <1>2, <1>3, <1>4, <1>5 DEF Shape

\* When the host stores the snapshot nothing of a removal is on its way, and a host with
\* evict.confirmed unread is not asked to prepare one.
LEMMA RetainedAloneKept == ASSUME Shape, RetainedAlone, Known, Early PROVE RetainedAlone'
  <1>1. ASSUME NEW m, HostShape(m) PROVE RetainedAlone'
    <2>1. CASE HStored(m)
      BY <1>1, <2>1 DEF HostShape, Known, Early, RetainedAlone
    <2>2. CASE ~HStored(m)
      BY <1>1, <2>2 DEF HostShape, RetainedAlone
    <2> QED BY <2>1, <2>2
  <1>2. ASSUME NEW m, ReplyShape(m) PROVE RetainedAlone'
    BY <1>2 DEF ReplyShape, RetainedAlone
  <1>3. CASE TaskShape
    BY <1>3 DEF TaskShape, RetainedAlone
  <1>4. CASE GreetShape
    BY <1>4 DEF GreetShape, RetainedAlone
  <1>5. CASE AckShape(Head(inbox)) \/ LossShape
    BY <1>5 DEF AckShape, LossShape, RetainedAlone
  <1> QED BY <1>1, <1>2, <1>3, <1>4, <1>5 DEF Shape

\* The controller keeps the cookies by the one evict.confirmed that has nothing beside it.
LEMMA KeepingAloneKept == ASSUME Shape, KeepingAlone, Early, RetainedAlone PROVE KeepingAlone'
  <1>1. ASSUME NEW m, HostShape(m) PROVE KeepingAlone'
    <2>1. CASE HStored(m)
      BY <1>1, <2>1 DEF HostShape, Early, KeepingAlone
    <2>2. CASE ~HStored(m)
      BY <1>1, <2>2 DEF HostShape, KeepingAlone
    <2> QED BY <2>1, <2>2
  <1>2. ASSUME NEW m, ReplyShape(m) PROVE KeepingAlone'
    <2>1. CASE CRetain(m)
      BY <1>2, <2>1 DEF ReplyShape, RetainedAlone, KeepingAlone
    <2>2. CASE ~CRetain(m)
      BY <1>2, <2>2 DEF ReplyShape, KeepingAlone
    <2> QED BY <2>1, <2>2
  <1>3. CASE TaskShape
    BY <1>3 DEF TaskShape, KeepingAlone
  <1>4. CASE GreetShape
    BY <1>4 DEF GreetShape, KeepingAlone
  <1>5. CASE AckShape(Head(inbox)) \/ LossShape
    BY <1>5 DEF AckShape, LossShape, KeepingAlone
  <1> QED BY <1>1, <1>2, <1>3, <1>4, <1>5 DEF Shape

\* The host ends the operation by a result that keeps the cookies, which has no precheck before it.
LEMMA WonAloneKept == ASSUME Shape, WonAlone, Decided, KeepingAlone PROVE WonAlone'
  <1>1. ASSUME NEW m, HostShape(m) PROVE WonAlone'
    <2>1. CASE HAllowed(m)
      BY <1>1, <2>1 DEF HostShape, Decided, WonAlone
    <2>2. CASE HFinished(m)
      BY <1>1, <2>2 DEF HostShape, KeepingAlone, WonAlone
    <2>3. CASE ~(HAllowed(m) \/ HFinished(m))
      BY <1>1, <2>3 DEF HostShape, WonAlone
    <2> QED BY <2>1, <2>2, <2>3
  <1>2. ASSUME NEW m, ReplyShape(m) PROVE WonAlone'
    BY <1>2 DEF ReplyShape, WonAlone
  <1>3. CASE TaskShape
    BY <1>3 DEF TaskShape, WonAlone
  <1>4. CASE GreetShape
    BY <1>4 DEF GreetShape, WonAlone
  <1>5. CASE AckShape(Head(inbox)) \/ LossShape
    BY <1>5 DEF AckShape, LossShape, WonAlone
  <1> QED BY <1>1, <1>2, <1>3, <1>4, <1>5 DEF Shape

\* The host loses its session only with an end, which comes after everything that was said before.
LEMMA UnbornKept == ASSUME Shape, Unborn, Known PROVE Unborn'
  <1>1. ASSUME NEW m, HostShape(m) PROVE Unborn'
    <2>1. CASE HRequired(m) \/ HAllowed(m) \/ HStored(m)
      BY <1>1, <2>1 DEF HostShape, Known, Unborn
    <2>2. CASE ~(HRequired(m) \/ HAllowed(m) \/ HStored(m))
      BY <1>1, <2>2 DEF HostShape, Unborn
    <2> QED BY <2>1, <2>2
  <1>2. ASSUME NEW m, ReplyShape(m) PROVE Unborn'
    BY <1>2 DEF ReplyShape, Unborn
  <1>3. CASE TaskShape
    BY <1>3 DEF TaskShape, Unborn
  <1>4. CASE GreetShape
    BY <1>4 DEF GreetShape, Unborn
  <1>5. CASE AckShape(Head(inbox)) \/ LossShape
    BY <1>5 DEF AckShape, LossShape, Unborn
  <1> QED BY <1>1, <1>2, <1>3, <1>4, <1>5 DEF Shape

\* A grant comes with the lease that the host then has.
LEMMA GrantingKept == ASSUME Shape, Granting PROVE Granting'
  <1>1. ASSUME NEW m, HostShape(m) PROVE Granting'
    BY <1>1 DEF HostShape, Granting
  <1>2. ASSUME NEW m, ReplyShape(m) PROVE Granting'
    BY <1>2 DEF ReplyShape, Granting
  <1>3. CASE TaskShape
    BY <1>3 DEF TaskShape, Granting
  <1>4. CASE GreetShape
    BY <1>4 DEF GreetShape, Granting
  <1>5. CASE AckShape(Head(inbox)) \/ LossShape
    BY <1>5 DEF AckShape, LossShape, Granting
  <1> QED BY <1>1, <1>2, <1>3, <1>4, <1>5 DEF Shape

\* A result that ends the chain comes only to a group that asks for no enrolment.
LEMMA ChainKept == ASSUME Shape, Chain, Unasked PROVE Chain'
  <1>1. ASSUME NEW m, HostShape(m) PROVE Chain'
    BY <1>1 DEF HostShape, Chain
  <1>2. ASSUME NEW m, ReplyShape(m) PROVE Chain'
    <2>1. CASE CDone(m)
      BY <1>2, <2>1 DEF ReplyShape, Chain, Unasked
    <2>2. CASE ~CDone(m)
      BY <1>2, <2>2 DEF ReplyShape, Chain
    <2> QED BY <2>1, <2>2
  <1>3. CASE TaskShape
    BY <1>3 DEF TaskShape, Chain
  <1>4. CASE GreetShape
    BY <1>4 DEF GreetShape, Chain
  <1>5. CASE AckShape(Head(inbox))
    BY <1>5 DEF AckShape, Chain
  <1>6. CASE LossShape
    BY <1>6 DEF LossShape, Chain
  <1> QED BY <1>1, <1>2, <1>3, <1>4, <1>5, <1>6 DEF Shape

\* A result of an enrolment comes after the refusal of what was asked for, and an operation of
\* another kind is over when an enrolment is asked for.
LEMMA UnaskedKept == ASSUME Shape, Unasked, Known, Decided, Alone, Unsent, Over, Operating, AnsweredFirst PROVE Unasked'
  <1>1. ASSUME NEW m, HostShape(m) PROVE Unasked'
    <2>1. CASE HFinished(m)
      BY <1>1, <2>1 DEF HostShape, Known, Unasked, Over, Operating, AnsweredFirst
    <2>2. CASE ~HFinished(m)
      BY <1>1, <2>2 DEF HostShape, Unasked
    <2> QED BY <2>1, <2>2
  <1>2. ASSUME NEW m, ReplyShape(m) PROVE Unasked'
    <2>1. CASE CRequired(m)
      BY <1>2, <2>1 DEF ReplyShape, Decided, Unsent, Unasked
    <2>2. CASE ~CRequired(m)
      BY <1>2, <2>2 DEF ReplyShape, Unasked
    <2> QED BY <2>1, <2>2
  <1>3. CASE TaskShape
    BY <1>3 DEF TaskShape, Unasked
  <1>4. CASE GreetShape
    BY <1>4 DEF GreetShape, Unasked
  <1>5. CASE AckShape(Head(inbox))
    BY <1>5 DEF AckShape, Alone, Unasked
  <1>6. CASE LossShape
    BY <1>6 DEF LossShape, Unasked
  <1> QED BY <1>1, <1>2, <1>3, <1>4, <1>5, <1>6 DEF Shape

\* An enrolment is asked for in a group without a session, whose operations are over.
LEMMA OverKept == ASSUME Shape, Over, Known PROVE Over'
  <1>1. ASSUME NEW m, HostShape(m) PROVE Over'
    BY <1>1 DEF HostShape, Over
  <1>2. ASSUME NEW m, ReplyShape(m) PROVE Over'
    BY <1>2 DEF ReplyShape, Over
  <1>3. CASE TaskShape
    BY <1>3 DEF TaskShape, Over
  <1>4. CASE GreetShape
    BY <1>4 DEF GreetShape, Known, Over
  <1>5. CASE AckShape(Head(inbox)) \/ LossShape
    BY <1>5 DEF AckShape, LossShape, Over
  <1> QED BY <1>1, <1>2, <1>3, <1>4, <1>5 DEF Shape

\* The removal is authorized for no enrolment that goes on, and no injection is on its way
\* when one is begun.
LEMMA UndisturbedKept == ASSUME Shape, Undisturbed, Known, Awaited, Before, RetainedAlone, KeepingAlone, WonAlone,
                                Unborn PROVE Undisturbed'
  <1>1. ASSUME NEW m, HostShape(m) PROVE Undisturbed'
    <2>1. CASE HStarted(m)
      BY <1>1, <2>1 DEF HostShape, Unborn, Undisturbed
    <2>2. CASE ~HStarted(m)
      BY <1>1, <2>2 DEF HostShape, Undisturbed
    <2> QED BY <2>1, <2>2
  <1>2. ASSUME NEW m, ReplyShape(m) PROVE Undisturbed'
    <2>1. CASE CEnrol(m)
      BY <1>2, <2>1 DEF ReplyShape, Known, Undisturbed
    <2>2. CASE CRequired(m)
      BY <1>2, <2>2 DEF ReplyShape, Known, Awaited, Before, Undisturbed
    <2>3. CASE CReset(m)
      BY <1>2, <2>3 DEF ReplyShape, Known, Undisturbed
    <2>4. CASE CRemove(m)
      BY <1>2, <2>4 DEF ReplyShape, Known, RetainedAlone, KeepingAlone, WonAlone, Undisturbed
    <2>5. CASE ~(CEnrol(m) \/ CRequired(m) \/ CReset(m) \/ CRemove(m))
      BY <1>2, <2>5 DEF ReplyShape, Undisturbed
    <2> QED BY <2>1, <2>2, <2>3, <2>4, <2>5
  <1>3. CASE TaskShape
    BY <1>3 DEF TaskShape, Known, Undisturbed
  <1>4. CASE GreetShape
    BY <1>4 DEF GreetShape, Undisturbed
  <1>5. CASE AckShape(Head(inbox)) \/ LossShape
    BY <1>5 DEF AckShape, LossShape, Undisturbed
  <1> QED BY <1>1, <1>2, <1>3, <1>4, <1>5 DEF Shape

\* The group leaves its operation by a result, by an end, or by a refusal, which degrades it.
LEMMA OperatingKept == ASSUME Shape, Operating, Known, Undisturbed, AnsweredFirst PROVE Operating'
  <1>1. ASSUME NEW m, HostShape(m) PROVE Operating'
    BY <1>1 DEF HostShape, Operating
  <1>2. ASSUME NEW m, ReplyShape(m) PROVE Operating'
    <2>1. CASE CInject(m)
      BY <1>2, <2>1 DEF ReplyShape, Undisturbed, Operating
    <2>2. CASE CRefusal(m)
      BY <1>2, <2>2 DEF ReplyShape, Undisturbed, Operating, AnsweredFirst
    <2>3. CASE CReset(m)
      BY <1>2, <2>3 DEF ReplyShape, Known, Operating
    <2>4. CASE ~(CInject(m) \/ CRefusal(m) \/ CReset(m))
      BY <1>2, <2>4 DEF ReplyShape, Operating
    <2> QED BY <2>1, <2>2, <2>3, <2>4
  <1>3. CASE TaskShape
    BY <1>3 DEF TaskShape, Undisturbed, Operating
  <1>4. CASE GreetShape
    BY <1>4 DEF GreetShape, Operating
  <1>5. CASE AckShape(Head(inbox)) \/ LossShape
    BY <1>5 DEF AckShape, LossShape, Operating
  <1> QED BY <1>1, <1>2, <1>3, <1>4, <1>5 DEF Shape

\* Messages are handled in their order: the request was sent before the snapshot, so that it is
\* answered before the snapshot is confirmed.
LEMMA AnsweredFirstKept == ASSUME Shape, AnsweredFirst, Known, Decided, Unsent, Before, Early, Operating,
                                  Outstanding PROVE AnsweredFirst'
  <1>1. ASSUME NEW m, HostShape(m) PROVE AnsweredFirst'
    <2>1. CASE HRefused(m)
      BY <1>1, <2>1 DEF HostShape, Decided, Early, AnsweredFirst
    <2>2. CASE ~HRefused(m)
      BY <1>1, <2>2 DEF HostShape, AnsweredFirst
    <2> QED BY <2>1, <2>2
  <1>2. ASSUME NEW m, ReplyShape(m) PROVE AnsweredFirst'
    <2>1. CASE CRequired(m)
      BY <1>2, <2>1 DEF ReplyShape, Known, Decided, Unsent, Before, Early, AnsweredFirst, Outstanding
    <2>2. CASE CFail(m)
      BY <1>2, <2>2 DEF ReplyShape, Decided, AnsweredFirst
    <2>3. CASE ~(CRequired(m) \/ CFail(m))
      BY <1>2, <2>3 DEF ReplyShape, AnsweredFirst
    <2> QED BY <2>1, <2>2, <2>3
  <1>3. CASE TaskShape
    BY <1>3 DEF TaskShape, Operating, AnsweredFirst
  <1>4. CASE GreetShape
    BY <1>4 DEF GreetShape, AnsweredFirst
  <1>5. CASE AckShape(Head(inbox)) \/ LossShape
    BY <1>5 DEF AckShape, LossShape, AnsweredFirst
  <1> QED BY <1>1, <1>2, <1>3, <1>4, <1>5 DEF Shape

\* A request for a lease is answered by a grant or by a refusal, which clear it.
LEMMA OutstandingKept == ASSUME Shape, Outstanding PROVE Outstanding'
  <1>1. ASSUME NEW m, HostShape(m) PROVE Outstanding'
    BY <1>1 DEF HostShape, Outstanding
  <1>2. ASSUME NEW m, ReplyShape(m) PROVE Outstanding'
    BY <1>2 DEF ReplyShape, Outstanding
  <1>3. CASE TaskShape
    BY <1>3 DEF TaskShape, Outstanding
  <1>4. CASE GreetShape
    BY <1>4 DEF GreetShape, Outstanding
  <1>5. CASE AckShape(Head(inbox)) \/ LossShape
    BY <1>5 DEF AckShape, LossShape, Outstanding
  <1> QED BY <1>1, <1>2, <1>3, <1>4, <1>5 DEF Shape

\* The enrolment is begun by the grant of the lease, and what may still replace the lease is the
\* host's own last grant.
LEMMA LeaseToComeKept == ASSUME Shape, LeaseToCome, Granting PROVE LeaseToCome'
  <1>1. ASSUME NEW m, HostShape(m) PROVE LeaseToCome'
    BY <1>1 DEF HostShape, LeaseToCome
  <1>2. ASSUME NEW m, ReplyShape(m) PROVE LeaseToCome'
    <2>1. CASE CEnrol(m)
      BY <1>2, <2>1 DEF ReplyShape, Granting, LeaseToCome
    <2>2. CASE ~CEnrol(m)
      BY <1>2, <2>2 DEF ReplyShape, LeaseToCome
    <2> QED BY <2>1, <2>2
  <1>3. CASE TaskShape
    BY <1>3 DEF TaskShape, LeaseToCome
  <1>4. CASE GreetShape
    BY <1>4 DEF GreetShape, LeaseToCome
  <1>5. CASE AckShape(Head(inbox)) \/ LossShape
    BY <1>5 DEF AckShape, LossShape, LeaseToCome
  <1> QED BY <1>1, <1>2, <1>3, <1>4, <1>5 DEF Shape

\* No lease is issued while the operation is unresolved, and none was on its way behind its
\* snapshot_required.
LEMMA LeaseMeantKept == ASSUME Shape, LeaseMeant, Known, Awaited, Before, LeaseToCome, WonKnown PROVE LeaseMeant'
  <1>1. ASSUME NEW m, HostShape(m) PROVE LeaseMeant'
    <2>1. CASE HEnrolled(m)
      BY <1>1, <2>1 DEF HostShape, LeaseMeant, WonKnown
    <2>2. CASE ~HEnrolled(m)
      BY <1>1, <2>2 DEF HostShape, LeaseMeant
    <2> QED BY <2>1, <2>2
  <1>2. ASSUME NEW m, ReplyShape(m) PROVE LeaseMeant'
    <2>1. CASE CEnrol(m) \/ CReset(m)
      BY <1>2, <2>1 DEF ReplyShape, Known, LeaseMeant
    <2>2. CASE CRequired(m)
      BY <1>2, <2>2 DEF ReplyShape, Known, Awaited, Before, LeaseToCome, LeaseMeant
    <2>3. CASE ~(CEnrol(m) \/ CRequired(m) \/ CReset(m))
      BY <1>2, <2>3 DEF ReplyShape, LeaseMeant
    <2> QED BY <2>1, <2>2, <2>3
  <1>3. CASE TaskShape
    BY <1>3 DEF TaskShape, Known, LeaseMeant
  <1>4. CASE GreetShape
    BY <1>4 DEF GreetShape, LeaseMeant
  <1>5. CASE AckShape(Head(inbox)) \/ LossShape
    BY <1>5 DEF AckShape, LossShape, LeaseMeant
  <1> QED BY <1>1, <1>2, <1>3, <1>4, <1>5 DEF Shape

\* A host without a session has a lease that was never restored.
LEMMA RestorableKept == ASSUME Shape, Restorable, Numbered PROVE Restorable'
  <1>1. ASSUME NEW m, HostShape(m) PROVE Restorable'
    <2>1. CASE HEnrolled(m) \/ HDropped(m)
      BY <1>1, <2>1 DEF HostShape, Numbered, Restorable
    <2>2. CASE HInvalidated(m)
      BY <1>1, <2>2 DEF HostShape, Numbered, Restorable
    <2>3. CASE ~(HEnrolled(m) \/ HDropped(m) \/ HInvalidated(m))
      BY <1>1, <2>3 DEF HostShape, Restorable
    <2> QED BY <2>1, <2>2, <2>3
  <1>2. ASSUME NEW m, ReplyShape(m) PROVE Restorable'
    BY <1>2 DEF ReplyShape, Restorable
  <1>3. CASE TaskShape
    BY <1>3 DEF TaskShape, Restorable
  <1>4. CASE GreetShape
    BY <1>4 DEF GreetShape, Restorable
  <1>5. CASE AckShape(Head(inbox)) \/ LossShape
    BY <1>5 DEF AckShape, LossShape, Restorable
  <1> QED BY <1>1, <1>2, <1>3, <1>4, <1>5 DEF Shape

\* A failed injection leaves the group degraded, and no other message has its lease.
LEMMA FailedRestoreKept == ASSUME Shape, FailedRestore, Numbered, Distinct, Restorable PROVE FailedRestore'
  <1>1. ASSUME NEW m, HostShape(m) PROVE FailedRestore'
    <2>1. CASE HEnrolled(m) \/ HUnlocked(m)
      BY <1>1, <2>1 DEF HostShape, Numbered, FailedRestore
    <2>2. CASE HFinished(m)
      BY <1>1, <2>2 DEF HostShape, Restorable, FailedRestore
    <2>3. CASE ~(HEnrolled(m) \/ HUnlocked(m) \/ HFinished(m))
      BY <1>1, <2>3 DEF HostShape, FailedRestore
    <2> QED BY <2>1, <2>2, <2>3
  <1>2. ASSUME NEW m, ReplyShape(m) PROVE FailedRestore'
    <2>1. CASE CInject(m)
      BY <1>2, <2>1 DEF ReplyShape, Distinct, FailedRestore
    <2>2. CASE CDone(m) \/ CLeave(m)
      BY <1>2, <2>2 DEF ReplyShape, Restorable, FailedRestore
    <2>3. CASE ~(CInject(m) \/ CDone(m) \/ CLeave(m))
      BY <1>2, <2>3 DEF ReplyShape, FailedRestore
    <2> QED BY <2>1, <2>2, <2>3
  <1>3. CASE TaskShape
    BY <1>3 DEF TaskShape, FailedRestore
  <1>4. CASE GreetShape
    BY <1>4 DEF GreetShape, FailedRestore
  <1>5. CASE AckShape(Head(inbox)) \/ LossShape
    BY <1>5 DEF AckShape, LossShape, FailedRestore
  <1> QED BY <1>1, <1>2, <1>3, <1>4, <1>5 DEF Shape

\* The group becomes leased by an injection or by the result of an enrolment, and the host's
\* lease ends with a message or with the group's own invalidation.
LEMMA LeasedKnownKept == ASSUME Shape, LeasedKnown, Known, Decided, Chain, Undisturbed, AnsweredFirst, LeaseMeant,
                                FailedRestore, RestoreKnown, WonKnown, GrantKnown PROVE LeasedKnown'
  <1>1. ASSUME NEW m, HostShape(m) PROVE LeasedKnown'
    <2>1. CASE HFinished(m)
      BY <1>1, <2>1 DEF HostShape, Known, LeasedKnown
    <2>2. CASE HSpoilt(m)
      BY <1>1, <2>2 DEF HostShape, FailedRestore, LeasedKnown
    <2>3. CASE ~(HFinished(m) \/ HSpoilt(m))
      BY <1>1, <2>3 DEF HostShape, LeasedKnown
    <2> QED BY <2>1, <2>2, <2>3
  <1>2. ASSUME NEW m, ReplyShape(m) PROVE LeasedKnown'
    <2>1. CASE CGrant(m)
      BY <1>2, <2>1 DEF ReplyShape, LeasedKnown, GrantKnown
    <2>2. CASE CInject(m)
      BY <1>2, <2>2 DEF ReplyShape, LeasedKnown, RestoreKnown
    <2>3. CASE CDone(m)
      BY <1>2, <2>3 DEF ReplyShape, Decided, Chain, Undisturbed, AnsweredFirst, LeasedKnown
    <2>4. CASE CLeave(m)
      BY <1>2, <2>4 DEF ReplyShape, Decided, LeaseMeant, LeasedKnown, WonKnown
    <2>5. CASE ~(CGrant(m) \/ CInject(m) \/ CDone(m) \/ CLeave(m))
      BY <1>2, <2>5 DEF ReplyShape, LeasedKnown
    <2> QED BY <2>1, <2>2, <2>3, <2>4, <2>5
  <1>3. CASE TaskShape
    BY <1>3 DEF TaskShape, LeasedKnown
  <1>4. CASE GreetShape
    BY <1>4 DEF GreetShape, LeasedKnown
  <1>5. CASE AckShape(Head(inbox)) \/ LossShape
    BY <1>5 DEF AckShape, LossShape, LeasedKnown
  <1> QED BY <1>1, <1>2, <1>3, <1>4, <1>5 DEF Shape

\* The host gives up a lease that it restored only with a message behind the injection.
LEMMA RestoreKnownKept == ASSUME Shape, RestoreKnown, Known, FailedRestore PROVE RestoreKnown'
  <1>1. ASSUME NEW m, HostShape(m) PROVE RestoreKnown'
    <2>1. CASE HFinished(m)
      BY <1>1, <2>1 DEF HostShape, Known, RestoreKnown
    <2>2. CASE HSpoilt(m)
      BY <1>1, <2>2 DEF HostShape, FailedRestore, RestoreKnown
    <2>3. CASE ~(HFinished(m) \/ HSpoilt(m))
      BY <1>1, <2>3 DEF HostShape, RestoreKnown
    <2> QED BY <2>1, <2>2, <2>3
  <1>2. ASSUME NEW m, ReplyShape(m) PROVE RestoreKnown'
    BY <1>2 DEF ReplyShape, RestoreKnown
  <1>3. CASE TaskShape
    BY <1>3 DEF TaskShape, RestoreKnown
  <1>4. CASE GreetShape
    BY <1>4 DEF GreetShape, RestoreKnown
  <1>5. CASE AckShape(Head(inbox)) \/ LossShape
    BY <1>5 DEF AckShape, LossShape, RestoreKnown
  <1> QED BY <1>1, <1>2, <1>3, <1>4, <1>5 DEF Shape

\* After a result of an enrolment the host has its session until it says the end.
LEMMA WonKnownKept == ASSUME Shape, WonKnown PROVE WonKnown'
  <1>1. ASSUME NEW m, HostShape(m) PROVE WonKnown'
    BY <1>1 DEF HostShape, WonKnown
  <1>2. ASSUME NEW m, ReplyShape(m) PROVE WonKnown'
    BY <1>2 DEF ReplyShape, WonKnown
  <1>3. CASE TaskShape
    BY <1>3 DEF TaskShape, WonKnown
  <1>4. CASE GreetShape
    BY <1>4 DEF GreetShape, WonKnown
  <1>5. CASE AckShape(Head(inbox)) \/ LossShape
    BY <1>5 DEF AckShape, LossShape, WonKnown
  <1> QED BY <1>1, <1>2, <1>3, <1>4, <1>5 DEF Shape

\* A grant that is not the host's lease any more is ended, or comes to a group that holds nothing.
LEMMA GrantKnownKept == ASSUME Shape, GrantKnown, Known, FailedRestore, LeasedKnown, RestoreKnown, WonKnown PROVE GrantKnown'
  <1>1. ASSUME NEW m, HostShape(m) PROVE GrantKnown'
    <2>1. CASE HEnrolled(m)
      BY <1>1, <2>1 DEF HostShape, LeasedKnown, RestoreKnown, WonKnown, GrantKnown
    <2>2. CASE HFinished(m)
      BY <1>1, <2>2 DEF HostShape, Known, GrantKnown
    <2>3. CASE HSpoilt(m)
      BY <1>1, <2>3 DEF HostShape, FailedRestore, GrantKnown
    <2>4. CASE ~(HEnrolled(m) \/ HFinished(m) \/ HSpoilt(m))
      BY <1>1, <2>4 DEF HostShape, GrantKnown
    <2> QED BY <2>1, <2>2, <2>3, <2>4
  <1>2. ASSUME NEW m, ReplyShape(m) PROVE GrantKnown'
    BY <1>2 DEF ReplyShape, GrantKnown
  <1>3. CASE TaskShape
    BY <1>3 DEF TaskShape, GrantKnown
  <1>4. CASE GreetShape
    BY <1>4 DEF GreetShape, GrantKnown
  <1>5. CASE AckShape(Head(inbox)) \/ LossShape
    BY <1>5 DEF AckShape, LossShape, GrantKnown
  <1> QED BY <1>1, <1>2, <1>3, <1>4, <1>5 DEF Shape

HIDE DEF Drains, Indexed, HSilent, HRefused, HRequired, HStatus, HAllowed, HEnrolled, HUnlocked, HStarted,
         HDropped, HStored, HFinished, HSpoilt, HInvalidated, Takes, Apart, CGrant, CEnrol, CInject, CRefusal,
         CRequired, CRetain, CPrepare, CResend, CForget, CGiveUp, CDone, CLeave, CChain, CFail, CReset, CRemove,
         CIgnore, CPart, TInvalidate, TUnlock, TQuery, TBegin, TRepeat, TTurn, TReport, Ready, Uncommitted,
         RefKept, RefNew, PostsNothing, Sets, OfLast, Chunk, Unresolved, Ends, Preparation, Precheck, Enrolment,
         Committed, Keeping, NoneWon, NoEnd, EndAfter, LastSets, Beginning, Underway, Refuses, Coming, Restoring,
         HostLeased, CancelAfter, Leaving, Won, Clear, Bounded, Steady, HearsNothing, Hears, HearsTwo, HasOp, OfOp,
         Phased, Group, Posts, PostsTwo, RefGone, Calmly, Stage, Cancels, Claims

\* The agreement holds in the initial state.
LEMMA AgreementStart == Init => Agreement
  <1>1. Init => In = {} /\ Out = {}
    BY DEF Init, In, Out
  <1> QED BY <1>1 DEF Init, InitialGroup, NoRef, NoOp, NoPending, NoLoop, Agreement, Numbered, Distinct, Decided,
                      Opened, Alone, Unsent, Awaited, Before, Early, RetainedAlone, KeepingAlone, WonAlone, Unborn,
                      Granting, Chain, Unasked, Over, Undisturbed, Operating, AnsweredFirst, Outstanding,
                      LeaseToCome, LeaseMeant, Restorable, FailedRestore, LeasedKnown, RestoreKnown, WonKnown,
                      GrantKnown, Ready, Beginning, Underway, NoneWon

\* Every step keeps the agreement.
LEMMA AgreementKept ==
    ASSUME TypeOK, TypeOK', Order, HostFacts, Removal, Agreement, Step PROVE Agreement'
  <1>1. Known
    BY KnownHere
  <1>2. Shape
    BY Shapes DEF Agreement
  <1>3. Numbered' /\ Distinct' /\ Decided' /\ Opened' /\ Alone' /\ Unsent' /\ Awaited' /\ Before' /\ Early'
    BY <1>1, <1>2, NumberedKept, DistinctKept, DecidedKept, OpenedKept, AloneKept, UnsentKept, AwaitedKept,
       BeforeKept, EarlyKept DEF Agreement
  <1>4. RetainedAlone' /\ KeepingAlone' /\ WonAlone' /\ Unborn' /\ Granting'
    BY <1>1, <1>2, RetainedAloneKept, KeepingAloneKept, WonAloneKept, UnbornKept, GrantingKept DEF Agreement
  <1>5. Chain' /\ Unasked' /\ Over' /\ Undisturbed' /\ Operating' /\ AnsweredFirst' /\ Outstanding'
    BY <1>1, <1>2, ChainKept, UnaskedKept, OverKept, UndisturbedKept, OperatingKept, AnsweredFirstKept,
       OutstandingKept DEF Agreement
  <1>6. LeaseToCome' /\ LeaseMeant' /\ Restorable'
    BY <1>1, <1>2, LeaseToComeKept, LeaseMeantKept, RestorableKept DEF Agreement
  <1>7. FailedRestore' /\ LeasedKnown' /\ RestoreKnown' /\ WonKnown' /\ GrantKnown'
    BY <1>1, <1>2, FailedRestoreKept, LeasedKnownKept, RestoreKnownKept, WonKnownKept, GrantKnownKept DEF Agreement
  <1> QED BY <1>3, <1>4, <1>5, <1>6, <1>7 DEF Agreement

-----------------------------------------------------------------------------
(* Theorems.                                                               *)

\* The variables keep the types of the code's records and messages, whatever the
\* names, the moves and the losses.
THEOREM Types == Spec => []TypeOK
  <1>1. TypeOK /\ [Next]_vars => TypeOK'
    BY TypesKept
  <1> QED BY <1>1, TypesStart, PTL DEF Spec

\* Attempts are in order: the reference of the extension, the begins on their way
\* and every message with an identity are about the journal's last operation or
\* an older one, never about one that the host has not begun; a repeated
\* operation.begin never begins a second operation.
THEOREM AttemptsInOrder == Spec => []Order
  <1>1. TypeOK /\ TypeOK' /\ Order /\ [Next]_vars => Order'
    BY NextStep, OrderKept
  <1> QED BY <1>1, Types, OrderStart, PTL DEF Spec

\* The host's pending operation is the journal's unresolved one, its state fits
\* the journal and the vault, and nothing invalidates a session whose committed
\* operation waits to be resumed.
THEOREM HostFits == Spec => []HostFacts
  <1>1. TypeOK /\ TypeOK' /\ HostFacts /\ [Next]_vars => HostFacts'
    BY NextStep, HostFactsKept
  <1> QED BY <1>1, Types, HostFactsStart, PTL DEF Spec

\* The guarded removal goes by the last precheck, and by the committed snapshot
\* once the host authorized it and no other precheck is on its way.
THEOREM RemovalSound == Spec => []Removal
  <1>1. TypeOK /\ TypeOK' /\ Order /\ HostFacts /\ Removal /\ [Next]_vars => Removal'
    BY NextStep, RemovalKept
  <1> QED BY <1>1, Types, AttemptsInOrder, HostFits, RemovalStart, PTL DEF Spec

\* A value that the guarded removal takes out of the browser is in the vault, or the
\* session has since been invalidated with no operation open: whenever the plan is
\* the snapshot that the host authorized, and whenever the host still waits for the
\* removal and no other precheck is on its way.
THEOREM RemovalIsVaulted == Spec => RemovedIsVaulted
  <1> DEFINE Kept == /\ Remove
                     /\ jar[loop.name] = loop.value
                     /\ \/ loop.plan = op.snapshot
                        \/ /\ port = "ready" /\ op.phase = "BrowserRemovalPending"
                           /\ ~\E q \in DOMAIN toHost : /\ toHost[q].type = "cookies.snapshot.chunk"
                                                        /\ toHost[q].purpose = "removal_precheck"
                     => vault[loop.name] = loop.value \/ (vault = Empty /\ ~Unresolved)
  <1>1. TypeOK /\ HostFacts /\ Removal => [Kept]_vars
    BY RemoveVaulted
  <1>2. RemovedIsVaulted <=> [][Kept]_vars
    BY DEF RemovedIsVaulted
  <1> HIDE DEF Kept
  <1> QED BY <1>1, <1>2, Types, HostFits, RemovalSound, PTL

\* Whatever is on its way between the extension and the host, every lease that the
\* extension has or will have is the host's lease or is followed by the message that
\* ends it.
THEOREM LeaseOnItsWay == Spec => []Agreement
  <1>1. TypeOK /\ TypeOK' /\ Order /\ HostFacts /\ Removal /\ Agreement /\ [Next]_vars => Agreement'
    BY NextStep, AgreementKept
  <1> QED BY <1>1, Types, AttemptsInOrder, HostFits, RemovalSound, AgreementStart, PTL DEF Spec

\* When nothing is on its way, a group that the extension takes for leased is leased
\* for the host too, under the same lease: no order of stale answers, repeated begins,
\* lost ports, stopped workers and restarted hosts leaves cookies in the browser under
\* a lease that the host does not know.
THEOREM LeaseAgrees == Spec => []LeasedAgrees
  <1>1. Agreement => LeasedAgrees
    <2> SUFFICES ASSUME Agreement, port = "ready", inbox = <<>>, toHost = <<>>, ext.state = "leased"
                 PROVE  host.state = "leased" /\ host.lease = ext.lease
      BY DEF LeasedAgrees
    <2>1. In = {} /\ Out = {}
      BY DEF In, Out
    <2>2. CancelAfter(0) \/ HostLeased(ext.lease) \/ Leaving
      BY DEF Agreement, LeasedKnown, Ready
    <2> QED BY <2>1, <2>2 DEF CancelAfter, HostLeased, Leaving
  <1> QED BY <1>1, LeaseOnItsWay, PTL

=============================================================================
