--------------------------- MODULE MonitorProofs ---------------------------
(***************************************************************************)
(* Proofs about Monitor, for any number of processes, switches and events, *)
(* any capacity of the two queues, and any number of failures and lost     *)
(* connections: overflow of the host's queue is reported, the observer     *)
(* thread accounts for every process, and the extension's outbox keeps its *)
(* events.                                                                 *)
(***************************************************************************)
EXTENDS Monitor, FiniteSetTheorems, SequenceTheorems, TLAPS

-----------------------------------------------------------------------------
(* Sequences and what they contain.                                        *)

\* An appended element, and nothing else, is new.
LEMMA RangeAppend ==
    ASSUME NEW S, NEW q \in Seq(S), NEW e \in S
    PROVE  Append(q, e) \in Seq(S) /\ Range(Append(q, e)) = Range(q) \cup {e}
  <1>1. /\ Append(q, e) \in Seq(S) /\ Len(Append(q, e)) = Len(q) + 1 /\ Len(q) \in Nat
        /\ \A i \in 1 .. Len(q) : Append(q, e)[i] = q[i]
        /\ Append(q, e)[Len(q) + 1] = e
    BY AppendProperties, LenProperties
  <1>2. Range(q) = {q[i] : i \in 1 .. Len(q)}
    BY RangeEquality
  <1>3. Range(Append(q, e)) = {Append(q, e)[i] : i \in 1 .. Len(q) + 1}
    BY <1>1, RangeEquality
  <1>4. \A i \in 1 .. Len(q) + 1 : i \in 1 .. Len(q) \/ i = Len(q) + 1
    BY <1>1
  <1> QED BY <1>1, <1>2, <1>3, <1>4

\* The tail lacks at most the head.
LEMMA RangeTail ==
    ASSUME NEW S, NEW q \in Seq(S), q # <<>>
    PROVE  /\ Head(q) \in S /\ Tail(q) \in Seq(S) /\ Len(Tail(q)) = Len(q) - 1
           /\ Range(q) = {Head(q)} \cup Range(Tail(q))
  <1>1. /\ Head(q) \in S /\ Tail(q) \in Seq(S) /\ Len(Tail(q)) = Len(q) - 1
        /\ \A i \in 1 .. Len(Tail(q)) : Tail(q)[i] = q[i + 1]
    BY HeadTailProperties
  <1>2. Len(q) \in Nat /\ Len(q) >= 1 /\ Head(q) = q[1]
    BY LenProperties, EmptySeq
  <1>3. Range(q) = {q[i] : i \in 1 .. Len(q)}
    BY RangeEquality
  <1>4. Range(Tail(q)) = {Tail(q)[i] : i \in 1 .. Len(q) - 1}
    BY <1>1, RangeEquality
  <1>5. \A i \in 1 .. Len(q) : i = 1 \/ (i - 1 \in 1 .. Len(q) - 1 /\ Tail(q)[i - 1] = q[i])
    BY <1>1, <1>2
  <1>6. \A i \in 1 .. Len(q) - 1 : i + 1 \in 1 .. Len(q) /\ Tail(q)[i] = q[i + 1]
    BY <1>1, <1>2
  <1>7. Range(q) \subseteq {Head(q)} \cup Range(Tail(q))
    BY <1>2, <1>3, <1>4, <1>5
  <1>8. Range(Tail(q)) \subseteq Range(q)
    BY <1>3, <1>4, <1>6
  <1>9. Head(q) \in Range(q)
    BY <1>2, <1>3
  <1> QED BY <1>1, <1>7, <1>8, <1>9

\* A sequence that is cut has every element in one of the parts.
LEMMA RangeCut ==
    ASSUME NEW S, NEW q \in Seq(S), NEW k \in 0 .. Len(q)
    PROVE  /\ SubSeq(q, 1, k) \in Seq(S) /\ SubSeq(q, k + 1, Len(q)) \in Seq(S)
           /\ Range(q) = Range(SubSeq(q, 1, k)) \cup Range(SubSeq(q, k + 1, Len(q)))
           /\ Len(SubSeq(q, k + 1, Len(q))) = Len(q) - k
           /\ \A i \in 1 .. Len(q) - k : SubSeq(q, k + 1, Len(q))[i] = q[k + i]
  <1> DEFINE a == SubSeq(q, 1, k)
             b == SubSeq(q, k + 1, Len(q))
  <1>1. Len(q) \in Nat /\ k \in Nat /\ k <= Len(q) /\ \A i \in 1 .. Len(q) : q[i] \in S
    BY LenProperties, ElementOfSeq
  <1>2. a \in Seq(S) /\ Len(a) = k /\ \A i \in 1 .. k : a[i] = q[i]
    BY <1>1, SubSeqProperties
  <1>3. b \in Seq(S) /\ Len(b) = Len(q) - k /\ \A i \in 1 .. Len(q) - k : b[i] = q[k + i]
    BY <1>1, SubSeqProperties
  <1>4. /\ Range(q) = {q[i] : i \in 1 .. Len(q)} /\ Range(a) = {a[i] : i \in 1 .. k}
        /\ Range(b) = {b[i] : i \in 1 .. Len(q) - k}
    BY <1>2, <1>3, RangeEquality
  <1> HIDE DEF a, b
  <1>5. \A i \in 1 .. Len(q) : \/ i \in 1 .. k
                               \/ i - k \in 1 .. Len(q) - k /\ b[i - k] = q[i]
    BY <1>1, <1>3
  <1>6. \A i \in 1 .. Len(q) - k : k + i \in 1 .. Len(q)
    BY <1>1
  <1>7. \A i \in 1 .. k : i \in 1 .. Len(q)
    BY <1>1
  <1>8. Range(q) = Range(a) \cup Range(b)
    BY <1>2, <1>3, <1>4, <1>5, <1>6, <1>7
  <1> QED BY <1>2, <1>3, <1>8 DEF a, b

\* The empty sequence contains nothing.
LEMMA RangeEmpty == ASSUME NEW S PROVE <<>> \in Seq(S) /\ Range(<<>>) = {}
  BY EmptySeq DEF Range

\* The enumeration of a finite set contains exactly its elements.
LEMMA SetToSeqRange ==
    ASSUME NEW S, IsFiniteSet(S)
    PROVE  SetToSeq(S) \in Seq(S) /\ Range(SetToSeq(S)) = S
  <1> DEFINE n == Cardinality(S)
             f == SetToSeq(S)
  <1>1. n \in Nat /\ ExistsBijection(1 .. n, S)
    BY FS_CardinalityType
  <1>2. PICK g \in [1 .. n -> S] : IsInjective(g)
    BY <1>1 DEF ExistsBijection, Bijection, Injection
  <1>3. f \in [1 .. n -> S] /\ IsInjective(f)
    BY <1>2 DEF SetToSeq
  <1> HIDE DEF f
  <1>4. f \in Injection(1 .. n, S)
    BY <1>3 DEF Injection
  <1>5. IsFiniteSet(1 .. n) /\ Cardinality(1 .. n) = n
    BY <1>1, FS_Interval
  <1>6. f \in Surjection(1 .. n, S)
    BY <1>4, <1>5, FS_Injection
  <1>7. f \in Seq(S)
    BY <1>1, <1>3, SeqDef
  <1>8. Range(f) = S
    BY <1>3, <1>6 DEF Surjection, Range
  <1> QED BY <1>7, <1>8 DEF f

-----------------------------------------------------------------------------
(* The host's queue.                                                       *)

\* enqueue_bounded: the queue stays one of events, and contains the overflow marker when it
\* did or when it was full.
LEMMA EnqueueMarks ==
    ASSUME NEW q \in Seq(HostEvents), NEW event \in HostEvents
    PROVE  /\ EnqueueBounded(q, event) \in Seq(HostEvents)
           /\ Overflow \in Range(q) \/ Len(q) = MaxPending
                 => Overflow \in Range(EnqueueBounded(q, event))
  <1>1. Overflow \in HostEvents /\ Len(<<>>) = 0 /\ MaxPending # 0 /\ MaxPending - 1 # 0
    BY MonitorConstants DEF HostEvents
  <1>2. CASE Len(q) # MaxPending
    BY <1>2, RangeAppend DEF EnqueueBounded
  <1>3. CASE Len(q) = MaxPending
    <2> DEFINE t == Tail(q)
               u == Tail(t)
               marked == Append(u, Overflow)
    <2>1. q # <<>>
      BY <1>1, <1>3
    <2>2. t \in Seq(HostEvents) /\ Len(t) = MaxPending - 1
      BY <1>3, <2>1, RangeTail
    <2>3. t # <<>>
      BY <1>1, <2>2
    <2>4. Tail(Append(t, Overflow)) = marked
      BY <2>2, <2>3, HeadTailAppend
    <2>5. EnqueueBounded(q, event) = Append(IF event = Overflow THEN t ELSE marked, event)
      BY <1>3, <2>4 DEF EnqueueBounded
    <2> HIDE DEF t
    <2>6. u \in Seq(HostEvents)
      BY <2>2, <2>3, RangeTail
    <2> HIDE DEF u
    <2>7. marked \in Seq(HostEvents) /\ Overflow \in Range(marked)
      BY <1>1, <2>6, RangeAppend
    <2> HIDE DEF marked
    <2>8. CASE event = Overflow
      BY <1>1, <2>2, <2>5, <2>8, RangeAppend
    <2>9. CASE event # Overflow
      BY <2>5, <2>7, <2>9, RangeAppend
    <2> QED BY <2>8, <2>9
  <1> QED BY <1>2, <1>3

\* What the observer thread and the queue hold.
EventInv ==
    /\ cmd \in [Pids -> SUBSET Switches]
    /\ trace \in Seq(Pids) /\ batch \in Seq(HostEvents) /\ queue \in Seq(HostEvents)
    /\ gap \in BOOLEAN

\* Before the subscription only the baseline accounts for a process.
BaselineInv ==
    observer = "subscribe" =>
        \A p \in Pids \ excused : \A s \in cmd[p] : <<p, s>> \in Range(batch) \cup seen

ThreadInv == EventInv /\ BaselineInv /\ Accounted /\ OverflowReported

\* An event that is put into the queue, or not, leaves the report of an overflow.
LEMMA EnqueueKeeps ==
    ASSUME ThreadInv, NEW event \in HostEvents, UNCHANGED <<queue, gap>> \/ Enqueue(event)
    PROVE  queue' \in Seq(HostEvents) /\ gap' \in BOOLEAN /\ OverflowReported'
  <1>1. queue \in Seq(HostEvents) /\ gap \in BOOLEAN /\ (gap => Overflow \in Range(queue))
    BY DEF ThreadInv, EventInv, OverflowReported
  <1>2. CASE UNCHANGED <<queue, gap>>
    BY <1>1, <1>2 DEF OverflowReported
  <1>3. CASE Enqueue(event)
    <2>1. queue' = EnqueueBounded(queue, event) /\ gap' = (gap \/ Len(queue) = MaxPending)
      BY <1>3 DEF Enqueue
    <2>2. gap' \in BOOLEAN /\ (gap' => gap \/ Len(queue) = MaxPending)
      BY <2>1
    <2>3. /\ EnqueueBounded(queue, event) \in Seq(HostEvents)
          /\ gap' => Overflow \in Range(EnqueueBounded(queue, event))
      BY <1>1, <2>2, EnqueueMarks
    <2> QED BY <2>1, <2>2, <2>3 DEF OverflowReported
  <1> QED BY <1>2, <1>3

\* The events of the matches on the command lines of processes.
LEMMA MatchesFound ==
    ASSUME NEW ps
    PROVE  /\ Matches(ps) \in Seq(HostEvents)
           /\ Range(Matches(ps)) = {e \in Pairs : e[1] \in ps /\ e[2] \in cmd[e[1]]}
  <1> DEFINE S == {e \in Pairs : e[1] \in ps /\ e[2] \in cmd[e[1]]}
  <1>1. IsFiniteSet(Pairs)
    BY MonitorConstants, FS_Product DEF Pairs
  <1>2. S \subseteq Pairs /\ IsFiniteSet(S)
    BY <1>1, FS_Subset
  <1> HIDE DEF S
  <1>3. SetToSeq(S) \in Seq(S) /\ Range(SetToSeq(S)) = S
    BY <1>2, SetToSeqRange
  <1>4. S \subseteq HostEvents
    BY <1>2 DEF HostEvents
  <1>5. SetToSeq(S) \in Seq(HostEvents)
    BY <1>3, <1>4, SeqMonotonic
  <1> QED BY <1>3, <1>5 DEF Matches, S

\* What is not about the thread or the queue leaves them.
LEMMA ThreadUnchanged ==
    ASSUME ThreadInv, UNCHANGED <<cmd, observer, trace, batch, seen, queue, excused, gap>>
    PROVE  ThreadInv'
  BY DEF ThreadInv, EventInv, BaselineInv, Accounted, OverflowReported

\* A process that starts waits in the trace, or is excused.
LEMMA StartAccounted == ASSUME ThreadInv, NEW p \in Pids, StartProcess(p) PROVE ThreadInv'
  <1>1. PICK switches \in SUBSET Switches :
           /\ cmd' = [cmd EXCEPT ![p] = switches]
           /\ trace' = IF observer = "watch" THEN Append(trace, p) ELSE trace
           /\ excused' = IF \/ observer = "subscribe"
                            \/ \E s \in Switches : <<p, s>> \in seen \cup Range(batch)
                         THEN excused \cup {p} ELSE excused \ {p}
           /\ UNCHANGED <<observer, batch, seen, queue, gap>>
    BY DEF StartProcess, engine
  <1>2. cmd' \in [Pids -> SUBSET Switches] /\ \A r \in Pids \ {p} : cmd'[r] = cmd[r]
    BY <1>1 DEF ThreadInv, EventInv
  <1>3. /\ Append(trace, p) \in Seq(Pids)
        /\ Range(Append(trace, p)) = Range(trace) \cup {p}
    BY RangeAppend DEF ThreadInv, EventInv
  <1>4. /\ trace' \in Seq(Pids) /\ Range(trace) \subseteq Range(trace')
        /\ observer = "watch" => p \in Range(trace')
    BY <1>1, <1>3 DEF ThreadInv, EventInv
  <1>5. EventInv' /\ OverflowReported'
    BY <1>1, <1>2, <1>4 DEF ThreadInv, EventInv, OverflowReported
  <1>6. \A r \in Pids \ excused' : r # p => r \in Pids \ excused
    BY <1>1
  <1>7. BaselineInv'
    BY <1>1, <1>2, <1>6 DEF ThreadInv, BaselineInv
  <1>8. Accounted'
    BY <1>1, <1>2, <1>4, <1>6 DEF ThreadInv, Accounted
  <1> QED BY <1>5, <1>7, <1>8 DEF ThreadInv

\* A process that exits need not be accounted for.
LEMMA ExitAccounted == ASSUME ThreadInv, NEW p \in Pids, ExitProcess(p) PROVE ThreadInv'
  <1>1. /\ cmd' = [cmd EXCEPT ![p] = {}] /\ excused' = excused \ {p}
        /\ UNCHANGED <<observer, trace, batch, seen, queue, gap>>
    BY DEF ExitProcess, engine
  <1>2. /\ cmd' \in [Pids -> SUBSET Switches] /\ cmd'[p] = {}
        /\ \A r \in Pids \ {p} : cmd'[r] = cmd[r]
    BY <1>1 DEF ThreadInv, EventInv
  <1> QED BY <1>1, <1>2
      DEF ThreadInv, EventInv, BaselineInv, Accounted, OverflowReported

\* The thread's steps: the baseline finds every process, the subscription adds none, and a
\* start event is looked up before it is forgotten.
LEMMA ObserverAccounts == ASSUME ThreadInv, ObserverStep PROVE ThreadInv'
  <1>1. batch = <<>> /\ UNCHANGED <<cmd, queue, gap, seen>>
    BY DEF ObserverStep, procs, engine, Connects, Baseline, Subscribe, NextFails, Inspect
  <1>2. Range(batch) = {} /\ cmd \in [Pids -> SUBSET Switches] /\ trace \in Seq(Pids)
    BY <1>1, RangeEmpty DEF ThreadInv, EventInv
  <1>3. OverflowReported'
    BY <1>1 DEF ThreadInv, OverflowReported
  <1>4. Failure \in HostEvents /\ <<>> \in Seq(HostEvents) /\ <<Failure>> \in Seq(HostEvents)
    BY DEF HostEvents
  <1>5. \A p \in Pids : \A s \in cmd[p] : <<p, s>> \in Pairs
    BY <1>2 DEF Pairs
  <1>6. CASE Connects
    BY <1>1, <1>3, <1>4, <1>6 DEF Connects, ThreadInv, EventInv, BaselineInv, Accounted
  <1>7. CASE Baseline
    <2>1. CASE batch' = Matches(Pids) /\ UNCHANGED <<excused, trace>> /\ observer' = "subscribe"
      <3>1. \A p \in Pids : \A s \in cmd[p] : <<p, s>> \in Range(batch')
        BY <1>5, <2>1, MatchesFound
      <3>2. EventInv'
        BY <1>1, <2>1, MatchesFound DEF ThreadInv, EventInv
      <3> QED BY <1>1, <1>3, <2>1, <3>1, <3>2 DEF ThreadInv, BaselineInv, Accounted
    <2>2. CASE /\ batch' = <<Failure>> /\ excused' = {p \in Pids : cmd[p] # {}}
               /\ trace' = trace /\ observer' = "subscribe"
      BY <1>1, <1>3, <1>4, <2>2 DEF ThreadInv, EventInv, BaselineInv, Accounted
    <2> QED BY <1>7, <2>1, <2>2 DEF Baseline
  <1>8. CASE Subscribe
    <2>1. \A p \in Pids \ excused : \A s \in cmd[p] : <<p, s>> \in seen
      BY <1>2, <1>8 DEF Subscribe, ThreadInv, BaselineInv
    <2> QED BY <1>1, <1>3, <1>4, <1>8, <2>1
        DEF Subscribe, ThreadInv, EventInv, BaselineInv, Accounted
  <1>9. CASE NextFails
    BY <1>1, <1>2, <1>3, <1>4, <1>9
    DEF NextFails, ThreadInv, EventInv, BaselineInv, Accounted
  <1>10. CASE Inspect
    <2> DEFINE p == Head(trace)
    <2>1. /\ observer = "watch" /\ observer' = "watch" /\ trace # <<>> /\ trace' = Tail(trace)
      BY <1>10 DEF Inspect
    <2>2. /\ p \in Pids /\ trace' \in Seq(Pids) /\ Range(trace) = {p} \cup Range(trace')
      BY <1>2, <2>1, RangeTail
    <2>3. \A r \in Pids \ excused : r # p => \A s \in cmd[r] : r \in Range(trace') \/ <<r, s>> \in seen
      BY <1>2, <2>1, <2>2 DEF ThreadInv, Accounted
    <2>4. CASE batch' = Matches({p}) /\ excused' = excused
      <3>1. \A s \in cmd[p] : <<p, s>> \in Range(batch')
        BY <1>5, <2>2, <2>4, MatchesFound
      <3>2. EventInv'
        BY <1>1, <2>2, <2>4, MatchesFound DEF ThreadInv, EventInv
      <3> HIDE DEF p
      <3> QED BY <1>1, <1>3, <2>1, <2>2, <2>3, <2>4, <3>1, <3>2 DEF ThreadInv, BaselineInv, Accounted
    <2>5. CASE batch' \in {<<>>, <<Failure>>} /\ excused' = excused \cup {p}
      <3> HIDE DEF p
      <3> QED BY <1>1, <1>3, <1>4, <2>1, <2>2, <2>3, <2>5
          DEF ThreadInv, EventInv, BaselineInv, Accounted
    <2> QED BY <1>10, <2>4, <2>5 DEF Inspect
  <1> QED BY <1>6, <1>7, <1>8, <1>9, <1>10 DEF ObserverStep

\* What the thread reports it remembers, in the queue or as seen before.
LEMMA ReportAccounts == ASSUME ThreadInv, ReportNext PROVE ThreadInv'
  <1> DEFINE event == Head(batch)
  <1>1. /\ batch # <<>> /\ batch' = Tail(batch) /\ seen' = seen \cup ({event} \cap Pairs)
        /\ UNCHANGED <<queue, gap>> \/ Enqueue(event)
        /\ UNCHANGED <<cmd, observer, trace, excused>>
    BY DEF ReportNext, procs
  <1>2. /\ event \in HostEvents /\ batch' \in Seq(HostEvents)
        /\ Range(batch) = {event} \cup Range(batch')
    BY <1>1, RangeTail DEF ThreadInv, EventInv
  <1> HIDE DEF event
  <1>3. queue' \in Seq(HostEvents) /\ gap' \in BOOLEAN /\ OverflowReported'
    BY <1>1, <1>2, EnqueueKeeps
  <1>4. EventInv'
    BY <1>1, <1>2, <1>3 DEF ThreadInv, EventInv
  <1>5. \A p \in Pids : \A s \in cmd[p] :
           <<p, s>> \in Range(batch) \cup seen => <<p, s>> \in Range(batch') \cup seen'
    BY <1>1, <1>2 DEF ThreadInv, EventInv, Pairs
  <1>6. BaselineInv' /\ Accounted'
    BY <1>1, <1>5 DEF ThreadInv, BaselineInv, Accounted
  <1> QED BY <1>3, <1>4, <1>6 DEF ThreadInv

\* The host's alert for a quarantined audit log goes through the same queue.
LEMMA OpenKeepsMarker == ASSUME ThreadInv, OpenHost PROVE ThreadInv'
  <1>1. /\ UNCHANGED <<queue, gap>> \/ Enqueue(Recovered)
        /\ UNCHANGED <<cmd, observer, trace, batch, seen, excused>>
    BY DEF OpenHost, procs, thread
  <1>2. Recovered \in HostEvents
    BY DEF HostEvents
  <1>3. queue' \in Seq(HostEvents) /\ gap' \in BOOLEAN /\ OverflowReported'
    BY <1>1, <1>2, EnqueueKeeps
  <1> QED BY <1>1, <1>3 DEF ThreadInv, EventInv, BaselineInv, Accounted

\* A poll that leaves the marker in the queue still owes the report.
LEMMA PollKeepsMarker == ASSUME ThreadInv, HandlePoll PROVE ThreadInv'
  <1>1. queue \in Seq(HostEvents) /\ Len(queue) \in Nat
    BY LenProperties DEF ThreadInv, EventInv
  <1>2. PICK k \in 0 .. Len(queue) :
           /\ queue' = SubSeq(queue, k + 1, Len(queue))
           /\ gap' = (gap /\ Overflow \notin Range(SubSeq(queue, 1, k)))
    <2> DEFINE n == IF Len(queue) < MaxPoll THEN Len(queue) ELSE MaxPoll
    <2>1. n \in 0 .. Len(queue)
      BY <1>1, MonitorConstants
    <2>2. PICK k \in 0 .. n : /\ queue' = SubSeq(queue, k + 1, Len(queue))
                              /\ gap' = (gap /\ Overflow \notin Range(SubSeq(queue, 1, k)))
      BY <2>1 DEF HandlePoll
    <2> QED BY <1>1, <2>1, <2>2
  <1>3. UNCHANGED <<cmd, observer, trace, batch, seen, excused>>
    BY DEF HandlePoll, procs, thread
  <1>4. queue' \in Seq(HostEvents) /\ Range(queue) = Range(SubSeq(queue, 1, k)) \cup Range(queue')
    BY <1>1, <1>2, RangeCut
  <1>5. gap' \in BOOLEAN /\ (gap' => gap /\ Overflow \notin Range(SubSeq(queue, 1, k)))
    BY <1>2
  <1>6. OverflowReported'
    BY <1>4, <1>5 DEF ThreadInv, OverflowReported
  <1> QED BY <1>3, <1>4, <1>5, <1>6 DEF ThreadInv, EventInv, BaselineInv, Accounted

\* The invariant of the thread and the queue holds initially.
LEMMA ThreadInvInit == Init => ThreadInv
  BY RangeEmpty DEF Init, ThreadInv, EventInv, BaselineInv, Accounted, OverflowReported

\* The invariant of the thread and the queue is kept by every step.
LEMMA ThreadInvStep == ThreadInv /\ [Next]_vars => ThreadInv'
  <1> SUFFICES ASSUME ThreadInv, [Next]_vars PROVE ThreadInv'
    OBVIOUS
  <1>1. CASE Start \/ Disconnect
    <2>1. /\ observer' \in {"connect", "none"} /\ UNCHANGED cmd
          /\ \/ UNCHANGED <<trace, batch, queue, gap>>
             \/ trace' = <<>> /\ batch' = <<>> /\ queue' = <<>> /\ gap' = FALSE
      BY <1>1 DEF Start, Disconnect, procs, engine
    <2>2. EventInv'
      BY <2>1, RangeEmpty DEF ThreadInv, EventInv
    <2>3. BaselineInv' /\ Accounted'
      BY <2>1 DEF BaselineInv, Accounted
    <2>4. OverflowReported'
      BY <2>1 DEF ThreadInv, OverflowReported
    <2> QED BY <2>2, <2>3, <2>4 DEF ThreadInv
  <1>2. CASE HandleEvent \/ RemoveGroup \/ Occurs \/ HandshakeReady \/ PollNativeMonitor
                \/ HandleMonitorAlert \/ UNCHANGED vars
    <2>1. UNCHANGED <<cmd, observer, trace, batch, seen, queue, excused, gap>>
      BY <1>2 DEF HandleEvent, RemoveGroup, Occurs, HandshakeReady, PollNativeMonitor,
                  HandleMonitorAlert, vars, procs, thread, engine
    <2> QED BY <2>1, ThreadUnchanged
  <1> QED BY <1>1, <1>2, StartAccounted, ExitAccounted, ObserverAccounts, ReportAccounts,
             OpenKeepsMarker, PollKeepsMarker
          DEF Next

\* The invariant holds in every reachable state.
LEMMA ThreadInvariant == Spec => []ThreadInv
  BY ThreadInvInit, ThreadInvStep, PTL DEF Spec

\* While the observer thread watches, every running process with a debugging switch waits in
\* the trace, is on its way to the queue or was put there (Accounted), but for the excused
\* ones, however starts, exits, failures and the thread's steps interleave.
THEOREM ProcessesAccounted == Spec => []Accounted
  BY ThreadInvariant, PTL DEF ThreadInv

\* Events that enqueue_bounded threw away leave an overflow marker in the queue until a poll
\* takes one (OverflowReported), for any capacity of at least two.
THEOREM OverflowAlwaysReported == Spec => []OverflowReported
  BY ThreadInvariant, PTL DEF ThreadInv

-----------------------------------------------------------------------------
(* The extension's outbox.                                                 *)

Entry == [id : Nat, signal : Signals]

\* addToBoundedOutbox: only the event is new; an event with a new signal is the last entry,
\* after the one that was last.
LEMMA AddEffect ==
    ASSUME NEW box \in Seq(Entry), NEW event \in Entry
    PROVE  LET next == AddToBoundedOutbox(box, event)
           IN  /\ next \in Seq(Entry) /\ Range(next) \subseteq Range(box) \cup {event}
               /\ (\A e \in Range(box) : e.signal # event.signal)
                     => event \in Range(next) /\ event = next[Len(next)]
               /\ \A e \in Range(box) : e = box[Len(box)] => e \in Range(next)
  <1> DEFINE next == AddToBoundedOutbox(box, event)
             longer == Append(box, event)
  <1>1. CASE \E e \in Range(box) : e.signal = event.signal
    BY <1>1 DEF AddToBoundedOutbox
  <1>2. CASE \A e \in Range(box) : e.signal # event.signal
    <2>1. /\ longer \in Seq(Entry) /\ Len(longer) = Len(box) + 1 /\ Len(box) \in Nat
          /\ longer[Len(box) + 1] = event
          /\ \A i \in 1 .. Len(box) : longer[i] = box[i]
          /\ Range(longer) = Range(box) \cup {event}
      BY RangeAppend, AppendProperties, LenProperties
    <2>2. PICK k \in {0, 1} : /\ next = SubSeq(longer, k + 1, Len(longer))
                              /\ k = 1 => Len(longer) > OutboxLimit
      BY <1>2 DEF AddToBoundedOutbox
    <2> HIDE DEF longer, next
    <2>3. OutboxLimit >= 2 /\ OutboxLimit \in Nat
      BY MonitorConstants
    <2>4. k \in 0 .. Len(longer) /\ Len(longer) \in Nat
      BY <2>1, <2>2
    <2>5. /\ next \in Seq(Entry) /\ Len(next) = Len(longer) - k
          /\ Range(longer) = Range(SubSeq(longer, 1, k)) \cup Range(next)
          /\ \A i \in 1 .. Len(longer) - k : next[i] = longer[k + i]
      BY <2>1, <2>2, <2>4, RangeCut
    <2>6. Range(next) = {next[i] : i \in 1 .. Len(next)}
      BY <2>5, RangeEquality
    <2>7. event \in Range(next) /\ event = next[Len(next)]
      <3>1. Len(longer) - k \in 1 .. Len(next) /\ k + (Len(longer) - k) = Len(longer)
        BY <2>1, <2>2, <2>3, <2>4, <2>5
      <3>2. next[Len(longer) - k] = event
        BY <2>1, <2>5, <3>1
      <3> QED BY <2>5, <2>6, <3>1, <3>2
    <2>8. ASSUME NEW e \in Range(box), e = box[Len(box)] PROVE e \in Range(next)
      <3>1. Len(box) \in 1 .. Len(box)
        <4>1. Range(box) = {box[i] : i \in 1 .. Len(box)}
          BY RangeEquality
        <4> QED BY <2>1, <2>8, <4>1
      <3>2. Len(box) - k \in 1 .. Len(next) /\ k + (Len(box) - k) = Len(box)
        BY <2>1, <2>2, <2>3, <2>4, <2>5, <3>1
      <3>3. next[Len(box) - k] = e
        BY <2>1, <2>5, <2>8, <3>1, <3>2
      <3> QED BY <2>6, <3>2, <3>3
    <2> QED BY <2>1, <2>5, <2>7, <2>8 DEF next
  <1> QED BY <1>1, <1>2

\* queueMonitorEvent: new ids are taken in order, and none is skipped.
LEMMA QueuedEffect ==
    ASSUME NEW box \in Seq(Entry), NEW i \in Nat, NEW signal \in Signals, Ids(box) \subseteq 1 .. i
    PROVE  /\ Queued(box, signal, i) \in Seq(Entry)
           /\ Ids(Queued(box, signal, i)) \subseteq 1 .. i + 2
           /\ i + 2 \in Ids(Queued(box, signal, i)) => i + 1 \in Ids(Queued(box, signal, i))
  <1> DEFINE first == [id |-> i + 1, signal |-> signal]
             second == [id |-> i + 2, signal |-> "overflow"]
             next == AddToBoundedOutbox(box, first)
             both == AddToBoundedOutbox(next, second)
  <1>1. first \in Entry /\ second \in Entry /\ first.id = i + 1 /\ second.id = i + 2
    BY DEF Entry, Signals
  <1>2. next \in Seq(Entry) /\ Range(next) \subseteq Range(box) \cup {first}
    BY <1>1, AddEffect
  <1>3. Ids(next) \subseteq 1 .. i + 1
    <2> HIDE DEF next, first
    <2>1. \A e \in Range(box) : e.id \in 1 .. i
      BY DEF Ids
    <2>2. \A e \in Range(next) : e.id \in 1 .. i + 1
      BY <1>1, <1>2, <2>1
    <2> QED BY <2>2 DEF Ids
  <1>4. CASE Queued(box, signal, i) = next
    BY <1>2, <1>3, <1>4
  <1>5. CASE Queued(box, signal, i) = both /\ \A e \in Range(box) : e.signal # signal
    <2>1. first \in Range(next) /\ first = next[Len(next)]
      BY <1>1, <1>5, AddEffect
    <2> HIDE DEF next
    <2>2. /\ both \in Seq(Entry) /\ Range(both) \subseteq Range(next) \cup {second}
          /\ first \in Range(both)
      BY <1>1, <1>2, <2>1, AddEffect
    <2>3. Ids(both) \subseteq 1 .. i + 2
      <3> HIDE DEF both, second
      <3>1. \A e \in Range(next) : e.id \in 1 .. i + 1
        BY <1>3 DEF Ids
      <3>2. \A e \in Range(both) : e.id \in 1 .. i + 2
        BY <1>1, <2>2, <3>1
      <3> QED BY <3>2 DEF Ids
    <2>4. i + 1 \in Ids(both)
      BY <1>1, <2>2 DEF Ids
    <2> QED BY <1>5, <2>2, <2>3, <2>4
  <1> QED BY <1>4, <1>5 DEF Queued

\* The last id in use after at most two new ones.
LEMMA LastId ==
    ASSUME NEW i \in Nat, NEW S, S \subseteq 1 .. i + 2, i + 2 \in S => i + 1 \in S
    PROVE  /\ Max({i} \cup S) \in Nat /\ S \subseteq 1 .. Max({i} \cup S)
           /\ Max({i} \cup S) >= i
           /\ \A j \in 1 .. Max({i} \cup S) : j <= i \/ j \in S
  <1> DEFINE T == {i} \cup S
             m == Max(T)
  <1>1. \E x \in T : \A y \in T : x >= y
    <2>1. CASE i + 2 \in S
      <3>1. \A y \in T : i + 2 >= y
        OBVIOUS
      <3> QED BY <2>1, <3>1
    <2>2. CASE i + 2 \notin S /\ i + 1 \in S
      <3>1. \A y \in T : i + 1 >= y
        BY <2>2
      <3> QED BY <2>2, <3>1
    <2>3. CASE i + 2 \notin S /\ i + 1 \notin S
      <3>1. \A y \in T : i >= y
        BY <2>3
      <3> QED BY <3>1
    <2> QED BY <2>1, <2>2, <2>3
  <1>2. m \in T /\ \A y \in T : m >= y
    BY <1>1 DEF Max
  <1> HIDE DEF m
  <1>3. m \in Nat /\ m >= i /\ m <= i + 2 /\ (m > i => m \in S)
    BY <1>2
  <1>4. S \subseteq 1 .. m
    BY <1>2, <1>3
  <1>5. \A j \in 1 .. m : j <= i \/ j \in S
    BY <1>3
  <1> QED BY <1>3, <1>4, <1>5 DEF m

\* A non-empty set of naturals contains its minimum.
LEMMA MinInSet == ASSUME NEW S, S \subseteq Nat, S # {} PROVE Min(S) \in S
  <1>1. PICK t \in S : \A u \in S : ~(<<u, t>> \in OpToRel(<, Nat))
    BY NatLessThanWellFounded, WFMin
  <1>2. \A u \in S : ~(u < t)
    BY <1>1 DEF OpToRel
  <1>3. \A u \in S : t =< u
    BY <1>2
  <1> QED BY <1>3 DEF Min

\* Taking the entry of an id out of the outbox leaves the others.
LEMMA RemoveEffect ==
    ASSUME NEW box \in Seq(Entry), NEW i
    PROVE  LET next == Without(box, i)
           IN  /\ next \in Seq(Entry) /\ Range(next) \subseteq Range(box)
               /\ \A e \in Range(box) : e.id # i => e \in Range(next)
  <1> DEFINE next == Without(box, i)
             I == {k \in 1 .. Len(box) : box[k].id = i}
  <1>1. CASE I = {}
    <2>1. next = box
      BY <1>1 DEF Without, RemoveFirstMatch
    <2> QED BY <2>1
  <1>2. CASE I # {}
    <2> DEFINE k == Min(I)
               a == SubSeq(box, 1, k - 1)
               b == SubSeq(box, k + 1, Len(box))
               c == SubSeq(box, k, Len(box))
    <2>1. next = a \o b
      BY <1>2 DEF Without, RemoveFirstMatch, SelectInSeq, RemoveAt
    <2>2. Len(box) \in Nat
      BY LenProperties
    <2>3. k \in I
      <3>1. I \subseteq Nat
        BY <2>2
      <3> HIDE DEF I
      <3> QED BY <1>2, <3>1, MinInSet
    <2> HIDE DEF k
    <2>4. /\ k \in 1 .. Len(box) /\ k \in 0 .. Len(box) /\ k - 1 \in 0 .. Len(box)
          /\ (k - 1) + 1 = k /\ box[k].id = i
      BY <2>2, <2>3
    <2>5. b \in Seq(Entry) /\ Range(b) \subseteq Range(box)
      <3>1. b \in Seq(Entry) /\ Range(box) = Range(SubSeq(box, 1, k)) \cup Range(b)
        BY <2>4, RangeCut
      <3> HIDE DEF b
      <3> QED BY <3>1
    <2>6. /\ a \in Seq(Entry) /\ Range(box) = Range(a) \cup Range(c) /\ c \in Seq(Entry)
          /\ Len(c) = Len(box) - (k - 1)
          /\ \A j \in 1 .. Len(box) - (k - 1) : c[j] = box[(k - 1) + j]
      BY <2>4, RangeCut
    <2>7. Range(c) = {box[k]} \cup Range(b)
      <3>1. c # <<>> /\ Head(c) = box[k] /\ Tail(c) = b
        <4>1. Len(box) \in k .. Len(box)
          BY <2>2, <2>4
        <4>2. Head(c) = box[k] /\ Tail(c) = b
          BY <2>4, <4>1, HeadTailOfSubSeq
        <4>3. Len(c) # 0 /\ Len(<<>>) = 0
          BY <2>2, <2>4, <2>6
        <4> QED BY <4>2, <4>3
      <3> HIDE DEF b, c
      <3> QED BY <2>6, <3>1, RangeTail
    <2> HIDE DEF a, b, c, next
    <2>8. next \in Seq(Entry) /\ Range(next) = Range(a) \cup Range(b)
      BY <2>1, <2>5, <2>6, RangeConcatenation, ConcatProperties
    <2> QED BY <2>4, <2>6, <2>7, <2>8 DEF next
  <1> QED BY <1>1, <1>2

\* What is in the outbox and in the alerts on their way: an alert is for an audited event.
OutboxInv ==
    /\ ids \in Nat /\ outbox \in Seq(Entry) /\ Ids(outbox) \subseteq 1 .. ids
    /\ toExt \in Seq(logged)
    /\ OutboxKept

\* A new entry of the extension: what leaves the full outbox is noted as such.
LEMMA QueueKeeps ==
    ASSUME OutboxInv, NEW signal \in Signals, QueueMonitorEvent(signal), logged' = logged,
           toExt' \in Seq(logged)
    PROVE  OutboxInv'
  <1> DEFINE box == Queued(outbox, signal, ids)
  <1>1. outbox' = box /\ ids' = Max({ids} \cup Ids(box)) /\ sliced' = sliced \cup (Ids(outbox) \ Ids(box))
    BY DEF QueueMonitorEvent
  <1>2. /\ box \in Seq(Entry) /\ Ids(box) \subseteq 1 .. ids + 2
        /\ ids + 2 \in Ids(box) => ids + 1 \in Ids(box)
    BY QueuedEffect DEF OutboxInv
  <1> HIDE DEF box
  <1>3. /\ ids' \in Nat /\ Ids(box) \subseteq 1 .. ids'
        /\ \A j \in 1 .. ids' : j <= ids \/ j \in Ids(box)
    BY <1>1, <1>2, LastId DEF OutboxInv
  <1>4. Ids(outbox)' = Ids(box)
    BY <1>1 DEF Ids
  <1>5. OutboxKept'
    <2>1. \A j \in 1 .. ids : j \in Ids(outbox) \cup logged \cup sliced
      BY DEF OutboxInv, OutboxKept
    <2>2. \A j \in 1 .. ids' : j \in 1 .. ids \/ j \in Ids(box)
      BY <1>3 DEF OutboxInv
    <2> QED BY <1>1, <1>4, <2>1, <2>2 DEF OutboxKept
  <1> QED BY <1>1, <1>2, <1>3, <1>4, <1>5 DEF OutboxInv

\* An acknowledged entry was audited before it leaves the outbox.
LEMMA AlertKeeps == ASSUME OutboxInv, HandleMonitorAlert PROVE OutboxInv'
  <1> DEFINE i == Head(toExt)
  <1>1. /\ toExt # <<>> /\ toExt' = Tail(toExt) /\ UNCHANGED <<ids, sliced, logged>>
        /\ outbox' = Without(outbox, i)
    BY DEF HandleMonitorAlert
  <1>2. i \in logged /\ toExt' \in Seq(logged)
    BY <1>1, RangeTail DEF OutboxInv
  <1> HIDE DEF i
  <1>3. /\ outbox' \in Seq(Entry) /\ Range(outbox') \subseteq Range(outbox)
        /\ \A e \in Range(outbox) : e.id # i => e \in Range(outbox')
    BY <1>1, RemoveEffect DEF OutboxInv
  <1>4. Ids(outbox)' \subseteq Ids(outbox) /\ \A j \in Ids(outbox) : j # i => j \in Ids(outbox)'
    BY <1>3 DEF Ids
  <1> QED BY <1>1, <1>2, <1>3, <1>4 DEF OutboxInv, OutboxKept

\* An event is answered with an alert only once it is audited.
LEMMA EventKeeps == ASSUME OutboxInv, HandleEvent PROVE OutboxInv'
  <1>1. UNCHANGED <<ids, outbox, sliced>>
    BY DEF HandleEvent, extension
  <1>2. \/ UNCHANGED <<logged, toExt>>
        \/ \E i : logged' = logged \cup {i} /\ toExt' = Append(toExt, i)
    BY DEF HandleEvent
  <1>3. logged \subseteq logged' /\ toExt' \in Seq(logged')
    <2>1. CASE UNCHANGED <<logged, toExt>>
      BY <2>1 DEF OutboxInv
    <2>2. ASSUME NEW i, logged' = logged \cup {i}, toExt' = Append(toExt, i)
          PROVE  logged \subseteq logged' /\ toExt' \in Seq(logged')
      <3>1. toExt \in Seq(logged')
        BY <2>2, SeqMonotonic DEF OutboxInv
      <3> QED BY <2>2, <3>1, AppendProperties
    <2> QED BY <1>2, <2>1, <2>2
  <1> QED BY <1>1, <1>3 DEF OutboxInv, OutboxKept, Ids

\* The invariant of the outbox holds initially.
LEMMA OutboxInvInit == Init => OutboxInv
  <1> SUFFICES ASSUME Init PROVE OutboxInv
    OBVIOUS
  <1>1. toExt \in Seq(logged)
    BY RangeEmpty DEF Init
  <1>2. CASE outbox = <<>> /\ ids = 0
    BY <1>1, <1>2, RangeEmpty DEF OutboxInv, OutboxKept, Ids
  <1>3. CASE outbox = <<[id |-> 1, signal |-> "host_disconnect"]>> /\ ids = 1
    <2> DEFINE e == [id |-> 1, signal |-> "host_disconnect"]
    <2>1. e \in Entry /\ e.id = 1
      BY DEF Entry, Signals
    <2> HIDE DEF e
    <2>2. outbox = <<e>>
      BY <1>3 DEF e
    <2>3. outbox \in Seq(Entry) /\ Range(outbox) = {e}
      BY <2>1, <2>2 DEF Range
    <2>4. Ids(outbox) = {1}
      BY <2>1, <2>3 DEF Ids
    <2> QED BY <1>1, <1>3, <2>3, <2>4 DEF OutboxInv, OutboxKept
  <1> QED BY <1>2, <1>3 DEF Init

\* The invariant of the outbox is kept by every step.
LEMMA OutboxInvStep == OutboxInv /\ [Next]_vars => OutboxInv'
  <1> SUFFICES ASSUME OutboxInv, [Next]_vars PROVE OutboxInv'
    OBVIOUS
  <1>1. ASSUME UNCHANGED <<ids, outbox, sliced, logged, toExt>> PROVE OutboxInv'
    BY <1>1 DEF OutboxInv, OutboxKept, Ids
  <1>2. CASE Occurs \/ HandshakeReady \/ Disconnect
    <2>1. logged' = logged /\ toExt' \in Seq(logged)
      BY <1>2, RangeEmpty DEF Occurs, HandshakeReady, Disconnect, OutboxInv
    <2>2. \/ UNCHANGED <<ids, outbox, sliced, logged, toExt>>
          \/ \E signal \in Signals : QueueMonitorEvent(signal)
      BY <1>2 DEF Occurs, HandshakeReady, Disconnect, Signals
    <2> QED BY <1>1, <2>1, <2>2, QueueKeeps
  <1>3. CASE \/ \E p \in Pids : StartProcess(p) \/ ExitProcess(p)
             \/ ObserverStep \/ ReportNext \/ Start \/ OpenHost \/ HandlePoll \/ RemoveGroup
             \/ PollNativeMonitor \/ UNCHANGED vars
    BY <1>1, <1>3
    DEF StartProcess, ExitProcess, ObserverStep, ReportNext, Start, OpenHost, HandlePoll,
        RemoveGroup, PollNativeMonitor, vars, extension, wire
  <1> QED BY <1>2, <1>3, AlertKeeps, EventKeeps DEF Next

\* An event of the extension stays in the outbox until the host has audited it (OutboxKept),
\* however often the connection is lost and the host forgets what it accepted; only the full
\* outbox throws one away, and that is noted.
THEOREM OutboxDurable == Spec => []OutboxKept
  <1>1. Spec => []OutboxInv
    BY OutboxInvInit, OutboxInvStep, PTL DEF Spec
  <1> QED BY <1>1, PTL DEF OutboxInv
============================================================================
