--------------------------- MODULE AuditLogProofs ---------------------------
(***************************************************************************)
(* An audit log that suffered nothing that breaks a chain verifies at      *)
(* every later start, an event with an id is in it at most once, and an    *)
(* event that was taken is never lost: for every number of days, lines,    *)
(* events and I/O errors.                                                  *)
(***************************************************************************)
EXTENDS AuditLog, WellFoundedInduction, TLAPS

\* The host has verified the log and not ended since.
Running == {"anchor", "compact", "remove", "drain", "settle", "append", "mark", "enqueue", "up"}

\* What the proofs need of the types, without the lines of the log.
KindInv ==
    /\ files \subseteq Days /\ clock \in Days /\ lines \in Nat
    /\ expired \subseteq files
    /\ outbox \subseteq Ids /\ todo \subseteq Ids /\ left \subseteq Ids
    /\ job \in Jobs /\ (job.from \in {"deferred", "drain"} => job.id \in Ids)
    /\ at = "enqueue" => job.from = "deferred"

\* The event of the record call in progress, and the entries of the outbox that is drained.
EventInv ==
    /\ at = "mark" /\ job.id # NoId => job.id \in IdsOf(log)
    /\ (at = "drain" /\ todo # {}) \/ at = "settle" \/ (at \in {"append", "mark"} /\ job.from = "drain") =>
          outbox \subseteq todo \cup left \cup IdsOf(log) \cup gone
    /\ todo # {} => \/ at \in {"drain", "refused"}
                    \/ at \in {"append", "mark"} /\ job.from = "drain"

\* The lines that stay when a compaction is over.
Kept == IF at = "remove" THEN {l \in log : l.day \notin expired} ELSE log

\* The lines s continue base one by one, each later in the files than those before it.
GoodChain(s, base) ==
    /\ \A l \in s : l.whole = TRUE /\ l.seq > base.seq
    /\ \A a, b \in s : a.seq < b.seq => a.mac < b.mac /\ a.day <= b.day
    /\ \A a, b \in s : a.seq = b.seq => a = b
    /\ \A b \in s : \/ b.seq = base.seq + 1 /\ b.prev = base.mac
                    \/ \E a \in s : b.seq = a.seq + 1 /\ b.prev = a.mac

Last(l, s) == l \in s /\ \A k \in s : k.seq <= l.seq

\* t is the end of the lines s that continue base.
TailOf(t, s, base) ==
    \/ s = {} /\ t = base
    \/ \E l \in s : Last(l, s) /\ t = [seq |-> l.seq, mac |-> l.mac]

NatTails == [seq : Nat, mac : Nat]
NatLines == [seq : Nat, prev : Nat, mac : Nat, day : Nat, id : Ids \cup {NoId}, whole : BOOLEAN]

\* The chain of an unbroken directory.
ChainInv ==
    broken = {} =>
        /\ log \subseteq NatLines /\ checkpoint \in NatTails /\ anchor \subseteq NatTails
        /\ \A l \in log : l.mac <= lines /\ l.day \in files
        /\ GoodChain(Kept, checkpoint)
        /\ Kept = {} \/ \E l \in Kept : Last(l, Kept)
        /\ \A a \in anchor : \/ a.seq <= checkpoint.seq
                             \/ \E l \in Kept : l.seq = a.seq /\ l.mac = a.mac
        /\ at \in Running /\ ~behind => mem \in NatTails /\ TailOf(mem, Kept, checkpoint)
        /\ at = "mark" => ~behind

\* An anchor is written before the first file, and memory starts in step with the log.
AnchorInv ==
    /\ files # {} => anchor # {}
    /\ at \in Running \ {"anchor"} => anchor # {}
    /\ at \in {"key", "verify", "anchor", "compact", "remove"} => ~behind

Inv == KindInv /\ EventInv /\ EventOnce /\ DeferredKept /\ ChainInv /\ AnchorInv
-----------------------------------------------------------------------------
(* What the steps of a record call do.                                     *)

\* How an answer is used: the job goes on with its event, or is over.
LEMMA AnswerShape ==
    ASSUME KindInv, NEW ok, Answer(ok)
    PROVE  /\ at' \in {"up", "append", "enqueue", "settle", "drain", "down"}
           /\ \/ job' = Idle
              \/ /\ job' \in Jobs /\ job'.from = "deferred" /\ job.from = "deferred"
                 /\ job'.id = job.id /\ at' \in {"append", "enqueue"}
           /\ at' \in {"append", "enqueue"} => job'.from = "deferred"
           /\ todo' \subseteq todo /\ todo \subseteq todo' \cup {job.id}
           /\ left \subseteq left' /\ left' \subseteq Ids
           /\ at' \in {"settle", "drain"} <=> job.from = "drain"
           /\ job.from = "drain" => (ok \/ job.id \in left') /\ (at' = "settle" <=> todo' = {})
           /\ answered' = answered \/ (ok /\ job.from = "deferred" /\ answered' = answered \cup {job.id})
  <1>1. CASE job.from = "plain" /\ at' = "up" /\ job' = Idle /\ UNCHANGED <<todo, left, answered>>
    BY <1>1 DEF KindInv
  <1>2. CASE /\ job.from = "deferred" /\ ok /\ at' = "up" /\ job' = Idle
             /\ answered' = answered \cup {job.id} /\ UNCHANGED <<todo, left>>
    BY <1>2 DEF KindInv
  <1>3. CASE /\ job.from = "deferred" /\ ~ok
             /\ IF job.tries = 1 THEN at' = "append" /\ job' = [job EXCEPT !.tries = 2]
                                 ELSE at' = "enqueue" /\ UNCHANGED job
             /\ UNCHANGED <<todo, left, answered>>
    BY <1>3 DEF KindInv, Jobs
  <1>4. CASE /\ job.from = "drain"
             /\ todo' = todo \ {job.id}
             /\ left' = IF ok THEN left ELSE left \cup {job.id}
             /\ at' = IF todo' = {} THEN "settle" ELSE "drain"
             /\ job' = Idle
             /\ UNCHANGED answered
    BY <1>4 DEF KindInv
  <1>5. CASE /\ job.from = "alert" /\ at' = (IF ok THEN "up" ELSE "down") /\ job' = Idle
             /\ UNCHANGED <<todo, left, answered>>
    BY <1>5 DEF KindInv
  <1> QED BY <1>1, <1>2, <1>3, <1>4, <1>5 DEF Answer

\* An event that is appended is not in the log, and no line of the log is incomplete.
LEMMA FreshEvent ==
    Appends /\ job.id # NoId => \A l \in log : l.whole /\ l.id # job.id
  BY DEF Appends, AlreadyThere, Unreadable

\* What a written line adds to the log.
LEMMA WriteShape ==
    ASSUME NEW w \in BOOLEAN, WriteLine(w)
    PROVE  /\ log \subseteq log' /\ log' \subseteq log \cup {NewLine(w)}
           /\ NewLine(w).id = job.id /\ NewLine(w).whole = w
           /\ ~Torn(clock) => NewLine(w) \in log'
           /\ IdsOf(log) \subseteq IdsOf(log')
  BY DEF WriteLine, NewLine, IdsOf

\* The event of a whole line that is appended, or was found, is in the log.
LEMMA WrittenEvent ==
    Appends /\ WriteLine(TRUE) /\ job.id # NoId => job.id \in IdsOf(log')
  <1> SUFFICES ASSUME Appends, WriteLine(TRUE), job.id # NoId PROVE job.id \in IdsOf(log')
    OBVIOUS
  <1>1. ~Torn(clock)
    BY FreshEvent DEF Torn
  <1> QED BY <1>1, WriteShape DEF IdsOf

\* An event that the log already has is one of its ids.
LEMMA FoundEvent == AlreadyThere => job.id \in IdsOf(log)
  BY DEF AlreadyThere, IdsOf

-----------------------------------------------------------------------------
(* Kinds, and the events.                                                  *)

\* Every step keeps the kinds.
LEMMA KindStep == KindInv /\ [Next]_vars => KindInv'
  <1> SUFFICES ASSUME KindInv, [Next]_vars PROVE KindInv'
    OBVIOUS
  <1>1. CASE Midnight
    BY <1>1, AuditConstants DEF Midnight, directory, control, history, KindInv, Days, Jobs,
       Idle
  <1>2. CASE ClockSetBack
    BY <1>2, AuditConstants DEF ClockSetBack, Fault, directory, control, history, KindInv,
       Days, Jobs, Idle
  <1>3. ASSUME NEW m \in {"host", "export"}, Start(m) PROVE KindInv'
    BY <1>3, AuditConstants DEF Start, directory, history, KindInv, Days, Jobs, Idle
  <1>4. CASE LoadKey
    BY <1>4, AuditConstants DEF LoadKey, history, KindInv, Days, Jobs, Idle
  <1>5. CASE VerifyChain
    BY <1>5, AuditConstants DEF VerifyChain, directory, history, KindInv, Days, Jobs, Idle
  <1>6. CASE AnchorTail
    BY <1>6, AuditConstants DEF AnchorTail, history, KindInv, Days, Jobs, Idle
  <1>7. CASE Compact
    BY <1>7, AuditConstants DEF Compact, Expired, history, KindInv, Days, Jobs, Idle
  <1>8. CASE RemoveExpired
    BY <1>8, AuditConstants DEF RemoveExpired, KindInv, Days, Jobs, Idle
  <1>9. CASE StartDrain
    BY <1>9, AuditConstants DEF StartDrain, Opened, Idle, directory, history, KindInv, Days,
       Jobs
  <1>10. CASE DrainNext
    BY <1>10, AuditConstants DEF DrainNext, directory, history, KindInv, Days, Jobs, Idle
  <1>11. CASE Settle
    BY <1>11, AuditConstants DEF Settle, Opened, Idle, history, KindInv, Days, Jobs
  <1>12. CASE MeetLeftover
    BY <1>12, AuditConstants DEF MeetLeftover, history, KindInv, Days, Jobs, Idle
  <1>13. CASE OpenFails
    BY <1>13, AuditConstants DEF OpenFails, Fault, history, KindInv, Days, Jobs, Idle
  <1>14. CASE Quarantine
    BY <1>14, AuditConstants DEF Quarantine, Idle, KindInv, Days, Jobs
  <1>15. CASE GiveUp
    BY <1>15, AuditConstants DEF GiveUp, Idle, directory, history, KindInv, Days, Jobs
  <1>16. CASE Record
    BY <1>16, AuditConstants DEF Record, directory, history, KindInv, Days, Jobs, Idle
  <1>17. ASSUME NEW i \in Ids, RecordOnceDeferred(i) PROVE KindInv'
    BY <1>17, AuditConstants DEF RecordOnceDeferred, directory, history, KindInv, Days,
       Jobs, Idle
  <1>18. CASE FindDuplicate
    BY <1>18, AuditConstants, AnswerShape DEF FindDuplicate, directory, KindInv, Days, Jobs,
       Idle
  <1>19. CASE AppendLine
    BY <1>19, AuditConstants DEF AppendLine, Appends, WriteLine, history, KindInv, Days,
       Jobs, Idle
  <1>20. CASE AppendFails
    <2>1. PICK ok \in BOOLEAN : Answer(ok)
      BY <1>20 DEF AppendFails
    <2>2. /\ files' \subseteq files \cup {clock} /\ lines' \in {lines, lines + 1}
          /\ UNCHANGED <<outbox, expired, clock>> /\ files \subseteq files'
      <3>1. CASE UNCHANGED lines /\ files' \in {files, files \cup {clock}}
        BY <1>20, <3>1 DEF AppendFails
      <3>2. CASE \E w \in BOOLEAN : WriteLine(w)
        BY <1>20, <3>2 DEF AppendFails, WriteLine
      <3> QED BY <1>20, <3>1, <3>2 DEF AppendFails
    <2> QED BY <2>1, <2>2, AuditConstants, AnswerShape DEF KindInv, Jobs, Idle
  <1>21. CASE MarkAnchor
    <2>1. PICK ok \in BOOLEAN : Answer(ok)
      BY <1>21 DEF MarkAnchor
    <2>2. UNCHANGED <<files, outbox, expired, clock, lines>>
      BY <1>21 DEF MarkAnchor
    <2> QED BY <2>1, <2>2, AuditConstants, AnswerShape DEF KindInv, Jobs, Idle
  <1>22. CASE EnqueueOutbox
    BY <1>22, AuditConstants DEF EnqueueOutbox, Fault, Idle, KindInv, Days, Jobs
  <1>23. CASE Crash
    BY <1>23, AuditConstants DEF Crash, Appends, Idle, history, KindInv, Days, Jobs
  <1>24. CASE UNCHANGED vars
    BY <1>24, AuditConstants DEF vars, directory, control, history, KindInv, Days, Jobs,
       Idle
  <1> QED BY <1>1, <1>2, <1>3, <1>4, <1>5, <1>6, <1>7, <1>8, <1>9, <1>10, <1>11, <1>12,
       <1>13, <1>14, <1>15, <1>16, <1>17, <1>18, <1>19, <1>20, <1>21, <1>22, <1>23, <1>24 DEF Next

\* Every step keeps the anchor in front of the files.
LEMMA AnchorStep == KindInv /\ AnchorInv /\ [Next]_vars => AnchorInv'
  <1> SUFFICES ASSUME KindInv, AnchorInv, [Next]_vars PROVE AnchorInv'
    OBVIOUS
  <1>1. CASE Midnight
    BY <1>1 DEF Midnight, directory, control, history, AnchorInv, Running, Opening
  <1>2. CASE ClockSetBack
    BY <1>2 DEF ClockSetBack, Fault, directory, control, history, AnchorInv, Running,
       Opening
  <1>3. ASSUME NEW m \in {"host", "export"}, Start(m) PROVE AnchorInv'
    BY <1>3 DEF Start, directory, history, AnchorInv, Running, Opening
  <1>4. CASE LoadKey
    BY <1>4 DEF LoadKey, history, AnchorInv, Running, Opening
  <1>5. CASE VerifyChain
    BY <1>5 DEF VerifyChain, directory, history, AnchorInv, Running, Opening
  <1>6. CASE AnchorTail
    BY <1>6 DEF AnchorTail, history, AnchorInv, Running, Opening
  <1>7. CASE Compact
    BY <1>7 DEF Compact, Expired, history, AnchorInv, Running, Opening
  <1>8. CASE RemoveExpired
    BY <1>8 DEF RemoveExpired, AnchorInv, Running, Opening
  <1>9. CASE StartDrain
    BY <1>9 DEF StartDrain, Opened, Idle, directory, history, AnchorInv, Running, Opening
  <1>10. CASE DrainNext
    BY <1>10 DEF DrainNext, directory, history, AnchorInv, Running, Opening
  <1>11. CASE Settle
    BY <1>11 DEF Settle, Opened, Idle, history, AnchorInv, Running, Opening
  <1>12. CASE MeetLeftover
    BY <1>12 DEF MeetLeftover, history, AnchorInv, Running, Opening
  <1>13. CASE OpenFails
    BY <1>13 DEF OpenFails, Fault, history, AnchorInv, Running, Opening
  <1>14. CASE Quarantine
    BY <1>14 DEF Quarantine, Idle, AnchorInv, Running, Opening
  <1>15. CASE GiveUp
    BY <1>15 DEF GiveUp, Idle, directory, history, AnchorInv, Running, Opening
  <1>16. CASE Record
    BY <1>16 DEF Record, directory, history, AnchorInv, Running, Opening
  <1>17. ASSUME NEW i \in Ids, RecordOnceDeferred(i) PROVE AnchorInv'
    BY <1>17 DEF RecordOnceDeferred, directory, history, AnchorInv, Running, Opening
  <1>18. CASE FindDuplicate
    BY <1>18, AuditConstants, AnswerShape DEF FindDuplicate, directory, AnchorInv, Running,
       Opening
  <1>19. CASE AppendLine
    BY <1>19 DEF AppendLine, Appends, WriteLine, history, AnchorInv, Running, Opening
  <1>20. CASE AppendFails
    BY <1>20, AuditConstants, AnswerShape DEF AppendFails, Appends, Fault, WriteLine,
       AnchorInv, Running, Opening
  <1>21. CASE MarkAnchor
    BY <1>21, AuditConstants, AnswerShape DEF MarkAnchor, Fault, AnchorInv, Running, Opening
  <1>22. CASE EnqueueOutbox
    BY <1>22 DEF EnqueueOutbox, Fault, Idle, AnchorInv, Running, Opening
  <1>23. CASE Crash
    BY <1>23 DEF Crash, Appends, Idle, history, AnchorInv, Running, Opening
  <1>24. CASE UNCHANGED vars
    BY <1>24 DEF vars, directory, control, history, AnchorInv, Running, Opening
  <1> QED BY <1>1, <1>2, <1>3, <1>4, <1>5, <1>6, <1>7, <1>8, <1>9, <1>10, <1>11, <1>12,
       <1>13, <1>14, <1>15, <1>16, <1>17, <1>18, <1>19, <1>20, <1>21, <1>22, <1>23, <1>24 DEF Next

\* Every step keeps an event from being written twice.
LEMMA OnceStep == EventOnce /\ [Next]_vars => EventOnce'
  <1> SUFFICES ASSUME EventOnce, [Next]_vars PROVE EventOnce'
    OBVIOUS
  <1>1. CASE Midnight
    BY <1>1 DEF Midnight, directory, control, history, EventOnce
  <1>2. CASE ClockSetBack
    BY <1>2 DEF ClockSetBack, Fault, directory, control, history, EventOnce
  <1>3. ASSUME NEW m \in {"host", "export"}, Start(m) PROVE EventOnce'
    BY <1>3 DEF Start, directory, history, EventOnce
  <1>4. CASE LoadKey
    BY <1>4 DEF LoadKey, history, EventOnce
  <1>5. CASE VerifyChain
    BY <1>5 DEF VerifyChain, directory, history, EventOnce
  <1>6. CASE AnchorTail
    BY <1>6 DEF AnchorTail, history, EventOnce
  <1>7. CASE Compact
    BY <1>7 DEF Compact, Expired, history, EventOnce
  <1>8. CASE RemoveExpired
    BY <1>8 DEF RemoveExpired, EventOnce
  <1>9. CASE StartDrain
    BY <1>9 DEF StartDrain, Opened, Idle, directory, history, EventOnce
  <1>10. CASE DrainNext
    BY <1>10 DEF DrainNext, directory, history, EventOnce
  <1>11. CASE Settle
    BY <1>11 DEF Settle, Opened, Idle, history, EventOnce
  <1>12. CASE MeetLeftover
    BY <1>12 DEF MeetLeftover, history, EventOnce
  <1>13. CASE OpenFails
    BY <1>13 DEF OpenFails, Fault, history, EventOnce
  <1>14. CASE Quarantine
    BY <1>14 DEF Quarantine, Idle, EventOnce
  <1>15. CASE GiveUp
    BY <1>15 DEF GiveUp, Idle, directory, history, EventOnce
  <1>16. CASE Record
    BY <1>16 DEF Record, directory, history, EventOnce
  <1>17. ASSUME NEW i \in Ids, RecordOnceDeferred(i) PROVE EventOnce'
    BY <1>17 DEF RecordOnceDeferred, directory, history, EventOnce
  <1>18. CASE FindDuplicate
    BY <1>18 DEF FindDuplicate, directory, EventOnce
  <1>19. CASE AppendLine
    <2>1. ASSUME NEW w \in BOOLEAN, WriteLine(w) PROVE EventOnce'
      BY <1>19, <2>1, FreshEvent, WriteShape DEF AppendLine, EventOnce
    <2> QED BY <1>19, <2>1 DEF AppendLine
  <1>20. CASE AppendFails
    <2>1. ASSUME NEW w \in BOOLEAN, WriteLine(w) PROVE EventOnce'
      BY <1>20, <2>1, FreshEvent, WriteShape DEF AppendFails, EventOnce
    <2>2. CASE UNCHANGED log
      BY <2>2 DEF EventOnce
    <2> QED BY <1>20, <2>1, <2>2 DEF AppendFails
  <1>21. CASE MarkAnchor
    BY <1>21 DEF MarkAnchor, Fault, EventOnce
  <1>22. CASE EnqueueOutbox
    BY <1>22 DEF EnqueueOutbox, Fault, Idle, EventOnce
  <1>23. CASE Crash
    BY <1>23 DEF Crash, Appends, Idle, history, EventOnce
  <1>24. CASE UNCHANGED vars
    BY <1>24 DEF vars, directory, control, history, EventOnce
  <1> QED BY <1>1, <1>2, <1>3, <1>4, <1>5, <1>6, <1>7, <1>8, <1>9, <1>10, <1>11, <1>12,
       <1>13, <1>14, <1>15, <1>16, <1>17, <1>18, <1>19, <1>20, <1>21, <1>22, <1>23, <1>24 DEF Next

\* Every step keeps the record call and the drained outbox in step with the log.
LEMMA EventStep == KindInv /\ EventInv /\ [Next]_vars => EventInv'
  <1> SUFFICES ASSUME KindInv, EventInv, [Next]_vars PROVE EventInv'
    OBVIOUS
  <1>1. CASE Midnight
    BY <1>1, AuditConstants DEF Midnight, directory, control, history, KindInv, EventInv,
       IdsOf
  <1>2. CASE ClockSetBack
    BY <1>2, AuditConstants DEF ClockSetBack, Fault, directory, control, history, KindInv,
       EventInv, IdsOf
  <1>3. ASSUME NEW m \in {"host", "export"}, Start(m) PROVE EventInv'
    BY <1>3, AuditConstants DEF Start, directory, history, KindInv, EventInv, IdsOf
  <1>4. CASE LoadKey
    BY <1>4, AuditConstants DEF LoadKey, history, KindInv, EventInv, IdsOf
  <1>5. CASE VerifyChain
    BY <1>5, AuditConstants DEF VerifyChain, directory, history, KindInv, EventInv, IdsOf
  <1>6. CASE AnchorTail
    BY <1>6, AuditConstants DEF AnchorTail, history, KindInv, EventInv, IdsOf
  <1>7. CASE Compact
    BY <1>7, AuditConstants DEF Compact, Expired, history, KindInv, EventInv, IdsOf
  <1>8. CASE RemoveExpired
    BY <1>8, AuditConstants DEF RemoveExpired, KindInv, EventInv, IdsOf
  <1>9. CASE StartDrain
    BY <1>9, AuditConstants DEF StartDrain, Opened, Idle, directory, history, KindInv,
       EventInv, IdsOf
  <1>10. CASE DrainNext
    BY <1>10, AuditConstants DEF DrainNext, directory, history, KindInv, EventInv, IdsOf
  <1>11. CASE Settle
    BY <1>11, AuditConstants DEF Settle, Opened, Idle, history, KindInv, EventInv, IdsOf
  <1>12. CASE MeetLeftover
    BY <1>12, AuditConstants DEF MeetLeftover, history, KindInv, EventInv, IdsOf
  <1>13. CASE OpenFails
    BY <1>13, AuditConstants DEF OpenFails, Fault, history, KindInv, EventInv, IdsOf
  <1>14. CASE Quarantine
    BY <1>14, AuditConstants DEF Quarantine, Idle, KindInv, EventInv, IdsOf
  <1>15. CASE GiveUp
    BY <1>15, AuditConstants DEF GiveUp, Idle, directory, history, KindInv, EventInv, IdsOf
  <1>16. CASE Record
    BY <1>16, AuditConstants DEF Record, directory, history, KindInv, EventInv, IdsOf
  <1>17. ASSUME NEW i \in Ids, RecordOnceDeferred(i) PROVE EventInv'
    BY <1>17, AuditConstants DEF RecordOnceDeferred, directory, history, KindInv, EventInv,
       IdsOf
  <1>18. CASE FindDuplicate
    <2>1. at = "append" /\ Answer(AlreadyThere) /\ UNCHANGED <<log, outbox, gone>>
      BY <1>18 DEF FindDuplicate, directory
    <2> QED BY <2>1, AnswerShape, FoundEvent DEF EventInv, Idle
  <1>19. CASE AppendLine
    <2>1. /\ at = "append" /\ at' = "mark" /\ Appends /\ WriteLine(TRUE)
          /\ UNCHANGED <<outbox, todo, left, job, gone>>
      BY <1>19 DEF AppendLine, Appends, history
    <2>2. IdsOf(log) \subseteq IdsOf(log')
      BY <2>1, WriteShape
    <2> QED BY <2>1, <2>2, WrittenEvent DEF EventInv
  <1>20. CASE AppendFails
    <2>1. at = "append" /\ Answer(FALSE) /\ UNCHANGED <<outbox, gone>>
      BY <1>20 DEF AppendFails, Appends
    <2>2. IdsOf(log) \subseteq IdsOf(log')
      BY <1>20, WriteShape DEF AppendFails
    <2> QED BY <2>1, <2>2, AnswerShape DEF EventInv, Idle
  <1>21. CASE MarkAnchor
    <2>1. PICK ok \in BOOLEAN : Answer(ok)
      BY <1>21 DEF MarkAnchor
    <2>2. at = "mark" /\ UNCHANGED <<log, outbox, gone>>
      BY <1>21 DEF MarkAnchor
    <2>3. job.from = "drain" => job.id \in IdsOf(log)
      BY <2>2, AuditConstants DEF KindInv, EventInv
    <2> QED BY <2>1, <2>2, <2>3, AnswerShape DEF EventInv, Idle
  <1>22. CASE EnqueueOutbox
    BY <1>22, AuditConstants DEF EnqueueOutbox, Fault, Idle, KindInv, EventInv, IdsOf
  <1>23. CASE Crash
    BY <1>23, AuditConstants DEF Crash, Appends, Idle, history, KindInv, EventInv, IdsOf
  <1>24. CASE UNCHANGED vars
    BY <1>24, AuditConstants DEF vars, directory, control, history, KindInv, EventInv, IdsOf
  <1> QED BY <1>1, <1>2, <1>3, <1>4, <1>5, <1>6, <1>7, <1>8, <1>9, <1>10, <1>11, <1>12,
       <1>13, <1>14, <1>15, <1>16, <1>17, <1>18, <1>19, <1>20, <1>21, <1>22, <1>23, <1>24 DEF Next

\* Every step keeps what was taken.
LEMMA DeferredStep == KindInv /\ EventInv /\ DeferredKept /\ [Next]_vars => DeferredKept'
  <1> SUFFICES ASSUME KindInv, EventInv, DeferredKept, [Next]_vars PROVE DeferredKept'
    OBVIOUS
  <1>1. CASE Midnight
    BY <1>1, AuditConstants DEF Midnight, directory, control, history, KindInv, EventInv,
       DeferredKept, IdsOf
  <1>2. CASE ClockSetBack
    BY <1>2, AuditConstants DEF ClockSetBack, Fault, directory, control, history, KindInv,
       EventInv, DeferredKept, IdsOf
  <1>3. ASSUME NEW m \in {"host", "export"}, Start(m) PROVE DeferredKept'
    BY <1>3, AuditConstants DEF Start, directory, history, KindInv, EventInv, DeferredKept,
       IdsOf
  <1>4. CASE LoadKey
    BY <1>4, AuditConstants DEF LoadKey, history, KindInv, EventInv, DeferredKept, IdsOf
  <1>5. CASE VerifyChain
    BY <1>5, AuditConstants DEF VerifyChain, directory, history, KindInv, EventInv,
       DeferredKept, IdsOf
  <1>6. CASE AnchorTail
    BY <1>6, AuditConstants DEF AnchorTail, history, KindInv, EventInv, DeferredKept, IdsOf
  <1>7. CASE Compact
    BY <1>7, AuditConstants DEF Compact, Expired, history, KindInv, EventInv, DeferredKept,
       IdsOf
  <1>8. CASE RemoveExpired
    BY <1>8, AuditConstants DEF RemoveExpired, KindInv, EventInv, DeferredKept, IdsOf
  <1>9. CASE StartDrain
    BY <1>9, AuditConstants DEF StartDrain, Opened, Idle, directory, history, KindInv,
       EventInv, DeferredKept, IdsOf
  <1>10. CASE DrainNext
    BY <1>10, AuditConstants DEF DrainNext, directory, history, KindInv, EventInv,
       DeferredKept, IdsOf
  <1>11. CASE Settle
    BY <1>11, AuditConstants DEF Settle, Opened, Idle, history, KindInv, EventInv,
       DeferredKept, IdsOf
  <1>12. CASE MeetLeftover
    BY <1>12, AuditConstants DEF MeetLeftover, history, KindInv, EventInv, DeferredKept,
       IdsOf
  <1>13. CASE OpenFails
    BY <1>13, AuditConstants DEF OpenFails, Fault, history, KindInv, EventInv, DeferredKept,
       IdsOf
  <1>14. CASE Quarantine
    BY <1>14, AuditConstants DEF Quarantine, Idle, KindInv, EventInv, DeferredKept, IdsOf
  <1>15. CASE GiveUp
    BY <1>15, AuditConstants DEF GiveUp, Idle, directory, history, KindInv, EventInv,
       DeferredKept, IdsOf
  <1>16. CASE Record
    BY <1>16, AuditConstants DEF Record, directory, history, KindInv, EventInv,
       DeferredKept, IdsOf
  <1>17. ASSUME NEW i \in Ids, RecordOnceDeferred(i) PROVE DeferredKept'
    BY <1>17, AuditConstants DEF RecordOnceDeferred, directory, history, KindInv, EventInv,
       DeferredKept, IdsOf
  <1>18. CASE FindDuplicate
    <2>1. Answer(AlreadyThere) /\ UNCHANGED <<log, outbox, gone, dropped>>
      BY <1>18 DEF FindDuplicate, directory
    <2> QED BY <2>1, AnswerShape, FoundEvent DEF DeferredKept
  <1>19. CASE AppendLine
    <2>1. IdsOf(log) \subseteq IdsOf(log')
      BY <1>19, WriteShape DEF AppendLine
    <2> QED BY <1>19, <2>1 DEF AppendLine, DeferredKept, history
  <1>20. CASE AppendFails
    <2>1. Answer(FALSE) /\ UNCHANGED <<outbox, gone, dropped>>
      BY <1>20 DEF AppendFails
    <2>2. IdsOf(log) \subseteq IdsOf(log')
      BY <1>20, WriteShape DEF AppendFails
    <2> QED BY <2>1, <2>2, AnswerShape DEF DeferredKept
  <1>21. CASE MarkAnchor
    <2>1. PICK ok \in BOOLEAN : Answer(ok)
      BY <1>21 DEF MarkAnchor
    <2>2. at = "mark" /\ UNCHANGED <<log, outbox, gone, dropped>>
      BY <1>21 DEF MarkAnchor
    <2>3. job.from = "deferred" => job.id \in IdsOf(log)
      BY <2>2, AuditConstants DEF KindInv, EventInv
    <2> QED BY <2>1, <2>2, <2>3, AnswerShape DEF DeferredKept
  <1>22. CASE EnqueueOutbox
    BY <1>22, AuditConstants DEF EnqueueOutbox, Fault, Idle, KindInv, EventInv,
       DeferredKept, IdsOf
  <1>23. CASE Crash
    BY <1>23, AuditConstants DEF Crash, Appends, Idle, history, KindInv, EventInv,
       DeferredKept, IdsOf
  <1>24. CASE UNCHANGED vars
    BY <1>24, AuditConstants DEF vars, directory, control, history, KindInv, EventInv,
       DeferredKept, IdsOf
  <1> QED BY <1>1, <1>2, <1>3, <1>4, <1>5, <1>6, <1>7, <1>8, <1>9, <1>10, <1>11, <1>12,
       <1>13, <1>14, <1>15, <1>16, <1>17, <1>18, <1>19, <1>20, <1>21, <1>22, <1>23, <1>24 DEF Next

-----------------------------------------------------------------------------
(* Chains.                                                                 *)

\* A non-empty set of naturals with a bound has a maximum.
LEMMA BoundedMaximum ==
    ASSUME NEW n \in Nat, NEW S, S \subseteq 0..n, S # {}
    PROVE  \E m \in S : \A k \in S : k <= m
  <1> DEFINE T == {u \in 0..n : n - u \in S}
  <1>1. T \subseteq Nat /\ \A u \in T : n - u \in S
    OBVIOUS
  <1>2. \A k \in S : n - k \in T
    OBVIOUS
  <1> HIDE DEF T
  <1>3. PICK t \in T : \A u \in T : ~(<<u, t>> \in OpToRel(<, Nat))
    <2>1. T # {}
      BY <1>2
    <2> QED BY <1>1, <2>1, NatLessThanWellFounded, WFMin
  <1>4. \A u \in T : ~(u < t)
    BY <1>1, <1>3 DEF OpToRel
  <1>5. ASSUME NEW k \in S PROVE k <= n - t
    BY <1>1, <1>2, <1>4
  <1> QED BY <1>1, <1>5

\* The last expired file is no earlier than any other.
LEMMA LastExpiredLatest ==
    KindInv /\ Expired # {} => LastExpired \in Expired /\ \A e \in Expired : e <= LastExpired
  <1> SUFFICES ASSUME KindInv, Expired # {}
               PROVE  LastExpired \in Expired /\ \A e \in Expired : e <= LastExpired
    OBVIOUS
  <1>1. Expired \subseteq 0..LastDay
    BY DEF KindInv, Expired, Days
  <1>2. \E d \in Expired : \A e \in Expired : e <= d
    BY <1>1, AuditConstants, BoundedMaximum
  <1> QED BY <1>2 DEF LastExpired

\* What verify_chain reads of a chain follows from the way it was built.
LEMMA GoodChainVerifies ==
    ASSUME NEW s, s \subseteq NatLines, NEW base \in NatTails, GoodChain(s, base)
    PROVE  Chained(s, base)
  <1>1. \A a, b \in s : a.seq < b.seq => Before(a, b)
    BY DEF GoodChain, Before, NatLines
  <1>2. \A a, b \in s : Before(a, b) => a.seq < b.seq
    BY DEF GoodChain, Before, NatLines
  <1>3. ASSUME NEW l \in s, IsFirst(l, s)
        PROVE  l.seq = base.seq + 1 /\ l.prev = base.mac
    <2>1. ASSUME NEW a \in s, l.seq = a.seq + 1 PROVE FALSE
      BY <1>1, <1>3, <2>1 DEF IsFirst, NatLines
    <2> QED BY <2>1 DEF GoodChain
  <1>4. ASSUME NEW a \in s, NEW b \in s, Follows(a, b, s)
        PROVE  b.seq = a.seq + 1 /\ b.prev = a.mac
    <2>1. a.seq < b.seq
      BY <1>2, <1>4 DEF Follows
    <2>2. ~(b.seq = base.seq + 1)
      BY <2>1 DEF GoodChain, NatLines, NatTails
    <2>3. PICK c \in s : b.seq = c.seq + 1 /\ b.prev = c.mac
      BY <2>2 DEF GoodChain
    <2>4. ~(a.seq < c.seq)
      BY <1>1, <1>4, <2>3 DEF Follows, NatLines
    <2>5. a.seq = c.seq
      BY <2>1, <2>3, <2>4 DEF NatLines
    <2>6. a = c
      BY <2>5 DEF GoodChain
    <2> QED BY <2>3, <2>6
  <1> QED BY <1>3, <1>4 DEF Chained, GoodChain

\* A line that continues the end of a chain makes a longer chain that it ends.
LEMMA ChainGrows ==
    ASSUME NEW s, s \subseteq NatLines, NEW base \in NatTails, GoodChain(s, base),
           NEW t \in NatTails, TailOf(t, s, base),
           NEW n \in NatLines, n.seq = t.seq + 1, n.prev = t.mac, n.whole = TRUE,
           \A l \in s : l.mac < n.mac /\ l.day <= n.day
    PROVE  /\ GoodChain(s \cup {n}, base)
           /\ Last(n, s \cup {n})
           /\ TailOf([seq |-> n.seq, mac |-> n.mac], s \cup {n}, base)
  <1>1. base.seq \in Nat /\ t.seq \in Nat /\ \A l \in s : l.seq \in Nat
    BY DEF NatLines, NatTails
  <1>2. t.seq >= base.seq /\ \A l \in s : l.seq <= t.seq
    BY <1>1 DEF TailOf, Last, GoodChain
  <1>3. n.seq > base.seq /\ \A l \in s : l.seq < n.seq
    BY <1>1, <1>2
  <1>4. \/ n.seq = base.seq + 1 /\ n.prev = base.mac
        \/ \E a \in s : n.seq = a.seq + 1 /\ n.prev = a.mac
    BY DEF TailOf
  <1>5. GoodChain(s \cup {n}, base)
    <2>1. \A l \in s \cup {n} : l.whole = TRUE /\ l.seq > base.seq
      BY <1>3 DEF GoodChain
    <2>2. \A a, b \in s \cup {n} : a.seq < b.seq => a.mac < b.mac /\ a.day <= b.day
      BY <1>1, <1>3 DEF GoodChain, NatLines
    <2>3. \A a, b \in s \cup {n} : a.seq = b.seq => a = b
      BY <1>1, <1>3 DEF GoodChain, NatLines
    <2>4. \A b \in s \cup {n} : \/ b.seq = base.seq + 1 /\ b.prev = base.mac
                                \/ \E a \in s \cup {n} : b.seq = a.seq + 1 /\ b.prev = a.mac
      BY <1>4 DEF GoodChain
    <2> QED BY <2>1, <2>2, <2>3, <2>4 DEF GoodChain
  <1>6. Last(n, s \cup {n})
    BY <1>1, <1>3 DEF Last, NatLines
  <1> QED BY <1>5, <1>6 DEF TailOf

\* The lines after one of a chain are a chain that continues it, with the same end.
LEMMA ChainCut ==
    ASSUME NEW s, s \subseteq NatLines, NEW base \in NatTails, GoodChain(s, base), NEW l \in s,
           NEW t, TailOf(t, s, base)
    PROVE  LET c == {k \in s : k.seq > l.seq}
               b == [seq |-> l.seq, mac |-> l.mac]
           IN  GoodChain(c, b) /\ TailOf(t, c, b)
  <1> DEFINE c == {k \in s : k.seq > l.seq}
             b == [seq |-> l.seq, mac |-> l.mac]
  <1>1. base.seq \in Nat /\ l.seq \in Nat /\ \A k \in s : k.seq \in Nat
    BY DEF NatLines, NatTails
  <1>2. ASSUME NEW k \in c
        PROVE  \/ k.seq = b.seq + 1 /\ k.prev = b.mac
               \/ \E a \in c : k.seq = a.seq + 1 /\ k.prev = a.mac
    <2>1. k.seq # base.seq + 1
      BY <1>1 DEF GoodChain
    <2>2. PICK a \in s : k.seq = a.seq + 1 /\ k.prev = a.mac
      BY <2>1 DEF GoodChain
    <2>3. CASE a.seq > l.seq
      BY <2>2, <2>3
    <2>4. CASE ~(a.seq > l.seq)
      <3>1. a.seq = l.seq
        BY <1>1, <2>2, <2>4
      <3>2. a = l
        BY <3>1 DEF GoodChain
      <3> QED BY <2>2, <3>2
    <2> QED BY <2>3, <2>4
  <1>3. GoodChain(c, b)
    BY <1>2 DEF GoodChain
  <1>4. PICK z \in s : Last(z, s) /\ t = [seq |-> z.seq, mac |-> z.mac]
    BY DEF TailOf
  <1>5. ASSUME z.seq > l.seq PROVE TailOf(t, c, b)
    BY <1>4, <1>5 DEF TailOf, Last
  <1>6. ASSUME ~(z.seq > l.seq) PROVE TailOf(t, c, b)
    <2>1. z.seq = l.seq /\ c = {}
      BY <1>1, <1>4, <1>6 DEF Last
    <2>2. z = l
      BY <2>1 DEF GoodChain
    <2> QED BY <1>4, <2>1, <2>2 DEF TailOf
  <1> QED BY <1>3, <1>5, <1>6

\* The tail that verify_chain returns is the end of the chain.
LEMMA VerifiedTailEnds ==
    ASSUME log \subseteq NatLines, checkpoint \in NatTails, GoodChain(log, checkpoint),
           log = {} \/ \E l \in log : Last(l, log)
    PROVE  VerifiedTail \in NatTails /\ TailOf(VerifiedTail, log, checkpoint)
  <1>1. CASE log = {}
    BY <1>1 DEF VerifiedTail, TailOf
  <1>2. CASE log # {}
    <2>1. PICK z \in log : Last(z, log)
      BY <1>2
    <2>2. IsLast(z, log)
      <3> SUFFICES ASSUME NEW k \in log, Before(z, k) PROVE FALSE
        BY DEF IsLast
      <3>1. k.seq <= z.seq /\ k.seq \in Nat /\ z.seq \in Nat
        BY <2>1 DEF Last, NatLines
      <3>2. CASE k.seq = z.seq
        BY <3>2 DEF GoodChain, Before, NatLines
      <3>3. CASE k.seq < z.seq
        BY <3>3 DEF GoodChain, Before, NatLines
      <3> QED BY <3>1, <3>2, <3>3
    <2>3. DEFINE y == CHOOSE x \in log : IsLast(x, log)
    <2>4. y \in log /\ IsLast(y, log)
      BY <2>2
    <2>5. Last(y, log)
      <3> SUFFICES ASSUME NEW k \in log, ~(k.seq <= y.seq) PROVE FALSE
        BY <2>4 DEF Last
      <3>1. y.seq < k.seq
        BY <2>4 DEF NatLines
      <3>2. Before(y, k)
        BY <2>4, <3>1 DEF GoodChain, Before, NatLines
      <3> QED BY <2>4, <3>2 DEF IsLast
    <2>6. VerifiedTail = [seq |-> y.seq, mac |-> y.mac]
      BY <1>2 DEF VerifiedTail
    <2> HIDE DEF y
    <2> QED BY <2>4, <2>5, <2>6 DEF TailOf, NatLines, NatTails
  <1> QED BY <1>1, <1>2

-----------------------------------------------------------------------------
(* The chain in the directory.                                             *)

\* A step that leaves the lines alone keeps the chain, also when it writes the anchor.
LEMMA ChainFrame ==
    ASSUME ChainInv, lines' = lines, at' # "remove", at' # "mark",
           broken' = {} => /\ broken = {} /\ at # "remove" /\ files \subseteq files'
                           /\ UNCHANGED <<log, checkpoint>>,
           anchor' = anchor \/ (anchor' = {mem} /\ at \in Running /\ (broken = {} => ~behind)),
           at' \in Running /\ ~behind' => at \in Running /\ ~behind /\ mem' = mem
    PROVE  ChainInv'
  <1> SUFFICES ASSUME broken' = {}
               PROVE  /\ log' \subseteq NatLines /\ checkpoint' \in NatTails /\ anchor' \subseteq NatTails
                      /\ \A l \in log' : l.mac <= lines' /\ l.day \in files'
                      /\ GoodChain(log', checkpoint')
                      /\ log' = {} \/ \E l \in log' : Last(l, log')
                      /\ \A a \in anchor' : \/ a.seq <= checkpoint'.seq
                                            \/ \E l \in log' : l.seq = a.seq /\ l.mac = a.mac
                      /\ at' \in Running /\ ~behind' =>
                            mem' \in NatTails /\ TailOf(mem', log', checkpoint')
    BY DEF ChainInv, Kept
  <1>1. broken = {} /\ Kept = log /\ UNCHANGED <<log, checkpoint>> /\ files \subseteq files'
    BY DEF Kept
  <1>2. /\ log \subseteq NatLines /\ checkpoint \in NatTails /\ anchor \subseteq NatTails
        /\ \A l \in log : l.mac <= lines /\ l.day \in files
        /\ GoodChain(log, checkpoint)
        /\ log = {} \/ \E l \in log : Last(l, log)
        /\ \A a \in anchor : \/ a.seq <= checkpoint.seq
                             \/ \E l \in log : l.seq = a.seq /\ l.mac = a.mac
        /\ at \in Running /\ ~behind => mem \in NatTails /\ TailOf(mem, log, checkpoint)
    BY <1>1 DEF ChainInv
  <1>3. anchor' \subseteq NatTails /\ \A a \in anchor' : \/ a.seq <= checkpoint.seq
                                                       \/ \E l \in log : l.seq = a.seq /\ l.mac = a.mac
    <2>1. CASE anchor' = anchor
      BY <1>2, <2>1
    <2>2. CASE anchor' = {mem} /\ at \in Running /\ ~behind
      <3>1. mem \in NatTails /\ TailOf(mem, log, checkpoint)
        BY <1>2, <2>2
      <3>2. mem.seq <= checkpoint.seq \/ \E l \in log : l.seq = mem.seq /\ l.mac = mem.mac
        BY <1>2, <3>1 DEF TailOf, NatTails
      <3> QED BY <2>2, <3>1, <3>2
    <2> QED BY <1>1, <2>1, <2>2
  <1> QED BY <1>1, <1>2, <1>3

\* A whole line that leaves the directory unbroken ends the longer chain.
LEMMA ChainAppended ==
    ASSUME KindInv, ChainInv, Appends, WriteLine(TRUE), broken' = {}
    PROVE  /\ broken = {} /\ ~behind /\ Kept = log
           /\ log \subseteq log' /\ log' \subseteq NatLines
           /\ \A l \in log' : l.mac <= lines' /\ l.day \in files'
           /\ GoodChain(log', checkpoint) /\ \E l \in log' : Last(l, log')
           /\ [seq |-> mem.seq + 1, mac |-> lines + 1] \in NatTails
           /\ TailOf([seq |-> mem.seq + 1, mac |-> lines + 1], log', checkpoint)
  <1>1. broken = {} /\ ~behind /\ ~Torn(clock) /\ ~(\E l \in log : l.day > clock)
    BY DEF WriteLine
  <1>2. /\ at = "append" /\ Kept = log
        /\ lines' = lines + 1 /\ log' = log \cup {NewLine(TRUE)} /\ files' = files \cup {clock}
    BY <1>1 DEF Appends, Kept, WriteLine
  <1>3. /\ log \subseteq NatLines /\ checkpoint \in NatTails /\ GoodChain(log, checkpoint)
        /\ \A l \in log : l.mac <= lines /\ l.day \in files
        /\ mem \in NatTails /\ TailOf(mem, log, checkpoint)
    BY <1>1, <1>2 DEF ChainInv, Running
  <1>4. clock \in Nat /\ lines \in Nat /\ job.id \in Ids \cup {NoId}
    BY AuditConstants DEF KindInv, Days, Jobs
  <1> DEFINE n == NewLine(TRUE)
  <1>5. /\ n \in NatLines /\ n.seq = mem.seq + 1 /\ n.prev = mem.mac /\ n.whole = TRUE
        /\ n.mac = lines + 1 /\ n.day = clock
    BY <1>3, <1>4 DEF NewLine, NatLines, NatTails
  <1> HIDE DEF n
  <1>6. \A l \in log : l.mac < n.mac /\ l.day <= n.day
    BY <1>1, <1>3, <1>4, <1>5 DEF NatLines
  <1>7. /\ GoodChain(log \cup {n}, checkpoint) /\ Last(n, log \cup {n})
        /\ TailOf([seq |-> n.seq, mac |-> n.mac], log \cup {n}, checkpoint)
    BY <1>3, <1>5, <1>6, ChainGrows
  <1>8. log' = log \cup {n}
    BY <1>2 DEF n
  <1>9. \A l \in log' : l.mac <= lines' /\ l.day \in files'
    <2>1. \A l \in log : l.mac \in Nat
      BY <1>3 DEF NatLines
    <2>2. lines' = lines + 1 /\ files' = files \cup {clock}
      BY <1>2
    <2>3. \A l \in log : l.mac <= lines' /\ l.day \in files'
      BY <1>3, <1>4, <2>1, <2>2
    <2>4. n.mac <= lines' /\ n.day \in files'
      BY <1>4, <1>5, <2>2
    <2> QED BY <1>8, <2>3, <2>4
  <1>10. [seq |-> mem.seq + 1, mac |-> lines + 1] \in NatTails
    BY <1>3, <1>4 DEF NatTails
  <1> QED BY <1>1, <1>2, <1>3, <1>5, <1>7, <1>8, <1>9, <1>10

\* The compaction keeps the chain: the lines that stay continue the checkpoint.
LEMMA CompactKeepsChain == KindInv /\ AnchorInv /\ ChainInv /\ Compact => ChainInv'
  <1> SUFFICES ASSUME KindInv, AnchorInv, ChainInv, Compact PROVE ChainInv'
    OBVIOUS
  <1>1. /\ at = "compact" /\ ~behind /\ Kept = log
        /\ UNCHANGED <<files, log, anchor, mem, behind, clock, lines, broken>>
    BY DEF Compact, AnchorInv, Kept, history
  <1>2. CASE at' \in {"drain", "refused"} /\ UNCHANGED <<checkpoint, expired>>
    BY <1>1, <1>2, ChainFrame DEF Running
  <1>3. CASE /\ Expired # {} /\ expired' = Expired /\ at' = "remove"
             /\ \E l \in log :
                   /\ l.day = LastExpired /\ \A k \in log : k.day = LastExpired => k.mac <= l.mac
                   /\ checkpoint' = [seq |-> l.seq, mac |-> l.mac]
    <2> SUFFICES ASSUME broken = {}
                 PROVE  /\ checkpoint' \in NatTails
                        /\ GoodChain(Kept', checkpoint')
                        /\ Kept' = {} \/ \E l \in Kept' : Last(l, Kept')
                        /\ \A a \in anchor : \/ a.seq <= checkpoint'.seq
                                             \/ \E l \in Kept' : l.seq = a.seq /\ l.mac = a.mac
                        /\ TailOf(mem, Kept', checkpoint')
      BY <1>1, <1>3 DEF ChainInv, Running
    <2>1. /\ log \subseteq NatLines /\ checkpoint \in NatTails /\ GoodChain(log, checkpoint)
          /\ anchor \subseteq NatTails
          /\ \A l \in log : l.day \in files
          /\ \A a \in anchor : \/ a.seq <= checkpoint.seq
                               \/ \E l \in log : l.seq = a.seq /\ l.mac = a.mac
          /\ TailOf(mem, log, checkpoint)
      BY <1>1 DEF ChainInv, Running
    <2>2. PICK l \in log : /\ l.day = LastExpired /\ \A k \in log : k.day = LastExpired => k.mac <= l.mac
                           /\ checkpoint' = [seq |-> l.seq, mac |-> l.mac]
      BY <1>3
    <2>3. clock - Retention \in Int /\ files \subseteq Nat
      BY AuditConstants DEF KindInv, Days
    <2>4. LastExpired \in Expired /\ \A e \in Expired : e <= LastExpired
      BY <1>3, LastExpiredLatest
    <2>5. ASSUME NEW k \in log PROVE k.day \notin Expired <=> k.seq > l.seq
      <3>1. /\ k.seq \in Nat /\ k.mac \in Nat /\ k.day \in Nat /\ k.day \in files
            /\ l.seq \in Nat /\ l.mac \in Nat /\ l.day \in Nat
        BY <2>1 DEF NatLines
      <3>2. k.day \in Expired <=> k.day <= l.day
        BY <2>2, <2>3, <2>4, <3>1 DEF Expired
      <3>3. k.day <= l.day => k.seq <= l.seq
        <4> SUFFICES ASSUME k.day <= l.day, l.seq < k.seq PROVE FALSE
          BY <3>1
        <4>1. l.mac < k.mac /\ l.day <= k.day
          BY <2>1 DEF GoodChain
        <4> QED BY <2>2, <3>1, <4>1
      <3>4. k.seq <= l.seq => k.day <= l.day
        <4>1. CASE k.seq < l.seq
          BY <2>1, <4>1 DEF GoodChain
        <4>2. CASE k.seq = l.seq
          <5>1. k = l
            BY <2>1, <4>2 DEF GoodChain
          <5> QED BY <3>1, <5>1
        <4> QED BY <3>1, <4>1, <4>2
      <3> QED BY <3>1, <3>2, <3>3, <3>4
    <2>6. Kept' = {k \in log : k.seq > l.seq}
      <3>1. Kept' = {k \in log : k.day \notin Expired}
        BY <1>1, <1>3 DEF Kept
      <3> QED BY <2>5, <3>1
    <2>7. GoodChain(Kept', checkpoint') /\ TailOf(mem, Kept', checkpoint')
      BY <2>1, <2>2, <2>6, ChainCut
    <2>8. checkpoint' \in NatTails
      BY <2>1, <2>2 DEF NatLines, NatTails
    <2>9. \A a \in anchor : \/ a.seq <= checkpoint'.seq
                            \/ \E k \in Kept' : k.seq = a.seq /\ k.mac = a.mac
      <3> SUFFICES ASSUME NEW a \in anchor, ~(a.seq <= checkpoint'.seq)
                   PROVE  \E k \in Kept' : k.seq = a.seq /\ k.mac = a.mac
        OBVIOUS
      <3>1. a.seq > l.seq /\ l.seq > checkpoint.seq
        BY <2>1, <2>2 DEF NatTails, NatLines, GoodChain
      <3>2. ~(a.seq <= checkpoint.seq)
        BY <2>1, <3>1 DEF NatTails, NatLines
      <3>3. PICK k \in log : k.seq = a.seq /\ k.mac = a.mac
        BY <2>1, <3>2
      <3> QED BY <2>6, <3>1, <3>3
    <2> QED BY <2>7, <2>8, <2>9 DEF TailOf
  <1> QED BY <1>2, <1>3 DEF Compact

\* Every step keeps the chain.
LEMMA ChainStep == KindInv /\ AnchorInv /\ ChainInv /\ [Next]_vars => ChainInv'
  <1> SUFFICES ASSUME KindInv, AnchorInv, ChainInv, [Next]_vars PROVE ChainInv'
    OBVIOUS
  <1>1. CASE Midnight
    <2>1. Kept' = Kept
      BY <1>1 DEF Midnight, Kept, directory, control
    <2> QED BY <1>1, <2>1 DEF Midnight, ChainInv, directory, control
  <1>2. CASE ClockSetBack
    <2>1. Kept' = Kept
      BY <1>2 DEF ClockSetBack, Kept, directory, control
    <2> QED BY <1>2, <2>1 DEF ClockSetBack, ChainInv, directory, control
  <1>3. ASSUME NEW m \in {"host", "export"}, Start(m) PROVE ChainInv'
    BY <1>3, ChainFrame DEF Start, directory, history, Running
  <1>4. CASE LoadKey
    BY <1>4, ChainFrame DEF LoadKey, history, Running
  <1>5. CASE VerifyChain
    <2>1. /\ at = "verify" /\ ~behind /\ at' \in {"compact", "anchor", "refused"}
          /\ UNCHANGED <<files, log, anchor, checkpoint, behind, lines, broken>>
      BY <1>5 DEF VerifyChain, AnchorInv, directory
    <2>2. CASE at' = "refused"
      BY <2>1, <2>2, ChainFrame DEF Running
    <2>3. CASE at' # "refused"
      <3>1. mem' = VerifiedTail
        BY <1>5, <2>3 DEF VerifyChain
      <3>2. Kept = log /\ Kept' = log
        BY <2>1 DEF Kept
      <3>3. broken = {} => VerifiedTail \in NatTails /\ TailOf(VerifiedTail, log, checkpoint)
        BY <3>2, VerifiedTailEnds DEF ChainInv
      <3> QED BY <2>1, <3>1, <3>2, <3>3 DEF ChainInv
    <2> QED BY <2>2, <2>3
  <1>6. CASE AnchorTail
    <2>1. ~behind
      BY <1>6 DEF AnchorTail, AnchorInv
    <2> QED BY <1>6, <2>1, ChainFrame DEF AnchorTail, Running, history
  <1>7. CASE Compact
    BY <1>7, CompactKeepsChain
  <1>8. CASE RemoveExpired
    <2>1. PICK d \in expired : /\ log' = {l \in log : l.day # d} /\ files' = files \ {d}
                               /\ expired' = expired \ {d}
                               /\ at' = IF expired = {d} THEN "drain" ELSE "remove"
      BY <1>8 DEF RemoveExpired
    <2>2. at = "remove" /\ UNCHANGED <<anchor, checkpoint, mem, behind, lines, broken>>
      BY <1>8 DEF RemoveExpired
    <2>3. Kept' = Kept
      BY <2>1, <2>2 DEF Kept
    <2>4. \A l \in log' : l \in log /\ (l.day \in files => l.day \in files')
      BY <2>1
    <2> QED BY <2>1, <2>2, <2>3, <2>4 DEF ChainInv, Running
  <1>9. CASE StartDrain
    BY <1>9, ChainFrame DEF StartDrain, Opened, directory, history, Running
  <1>10. CASE DrainNext
    BY <1>10, ChainFrame DEF DrainNext, directory, history, Running
  <1>11. CASE Settle
    BY <1>11, ChainFrame DEF Settle, Opened, history, Running
  <1>12. CASE MeetLeftover
    <2>1. at # "remove"
      BY <1>12 DEF MeetLeftover, Writing
    <2> QED BY <1>12, <2>1, ChainFrame DEF MeetLeftover, Running
  <1>13. CASE OpenFails
    <2>1. at' = "refused" /\ lines' = lines /\ UNCHANGED <<log, checkpoint, files>>
      BY <1>13 DEF OpenFails
    <2>2. broken' = {} => broken = {} /\ at # "remove"
      BY <1>13 DEF OpenFails
    <2>3. anchor' = anchor \/ (anchor' = {mem} /\ at = "anchor" /\ ~behind)
      BY <1>13 DEF OpenFails, AnchorInv
    <2> QED BY <2>1, <2>2, <2>3, ChainFrame DEF Running
  <1>14. CASE Quarantine
    <2>1. at' = "key" /\ log' = {} /\ anchor' = {} /\ checkpoint' = Genesis
      BY <1>14 DEF Quarantine
    <2>2. Kept' = {} /\ Genesis \in NatTails
      BY <2>1 DEF Kept, Genesis, NatTails
    <2> QED BY <2>1, <2>2 DEF ChainInv, GoodChain, Running
  <1>15. CASE GiveUp
    BY <1>15, ChainFrame DEF GiveUp, directory, history, Running
  <1>16. CASE Record
    BY <1>16, ChainFrame DEF Record, directory, history, Running
  <1>17. ASSUME NEW i \in Ids, RecordOnceDeferred(i) PROVE ChainInv'
    BY <1>17, ChainFrame DEF RecordOnceDeferred, directory, history, Running
  <1>18. CASE FindDuplicate
    <2>1. at = "append" /\ Answer(AlreadyThere)
          /\ UNCHANGED <<files, log, anchor, checkpoint, mem, behind, lines, broken>>
      BY <1>18 DEF FindDuplicate, directory
    <2>2. at' \notin {"remove", "mark"}
      BY <2>1, AnswerShape
    <2> QED BY <2>1, <2>2, ChainFrame DEF Running
  <1>19. CASE AppendLine
    <2>1. /\ at' = "mark" /\ Appends /\ WriteLine(TRUE) /\ UNCHANGED <<anchor, checkpoint, behind>>
          /\ mem' = [seq |-> mem.seq + 1, mac |-> lines + 1]
      BY <1>19 DEF AppendLine
    <2> SUFFICES ASSUME broken' = {} PROVE ChainInv'
      BY DEF ChainInv
    <2>2. Kept' = log'
      BY <2>1 DEF Kept
    <2> QED BY <2>1, <2>2, ChainAppended DEF ChainInv
  <1>20. CASE AppendFails
    <2>1. at = "append" /\ Appends /\ Answer(FALSE) /\ UNCHANGED <<anchor, checkpoint, mem>>
      BY <1>20 DEF AppendFails, Appends
    <2>2. at' \notin {"remove", "mark"}
      BY <2>1, AnswerShape
    <2>3. CASE UNCHANGED <<log, lines, broken, behind>> /\ files \subseteq files'
      BY <2>1, <2>2, <2>3, ChainFrame DEF Running
    <2>4. CASE WriteLine(FALSE)
      BY <2>4 DEF WriteLine, ChainInv
    <2>5. CASE WriteLine(TRUE) /\ behind' = TRUE
      <3> SUFFICES ASSUME broken' = {} PROVE ChainInv'
        BY DEF ChainInv
      <3>1. Kept' = log'
        BY <2>2 DEF Kept
      <3> QED BY <2>1, <2>2, <2>5, <3>1, ChainAppended DEF ChainInv
    <2>6. \/ UNCHANGED <<log, lines, broken, behind>> /\ files \subseteq files'
          \/ WriteLine(FALSE)
          \/ WriteLine(TRUE) /\ behind' = TRUE
      BY <1>20 DEF AppendFails
    <2> QED BY <2>3, <2>4, <2>5, <2>6
  <1>21. CASE MarkAnchor
    <2>1. PICK ok \in BOOLEAN : Answer(ok)
      BY <1>21 DEF MarkAnchor
    <2>2. at' \notin {"remove", "mark"}
      BY <2>1, AnswerShape
    <2>3. at = "mark" /\ UNCHANGED <<files, log, checkpoint, mem, behind, lines, broken>>
          /\ anchor' \in {anchor, {mem}}
      BY <1>21 DEF MarkAnchor
    <2>4. broken = {} => ~behind
      BY <2>3 DEF ChainInv
    <2> QED BY <2>2, <2>3, <2>4, ChainFrame DEF Running
  <1>22. CASE EnqueueOutbox
    BY <1>22, ChainFrame DEF EnqueueOutbox, Running
  <1>23. CASE Crash
    <2>1. at' = "down" /\ UNCHANGED <<log, anchor, checkpoint, lines>> /\ files \subseteq files'
      BY <1>23 DEF Crash
    <2>2. broken' = {} => broken = {} /\ at # "remove"
      BY <1>23 DEF Crash
    <2> QED BY <2>1, <2>2, ChainFrame DEF Running
  <1>24. CASE UNCHANGED vars
    <2>1. Kept' = Kept
      BY <1>24 DEF Kept, vars, directory, control
    <2> QED BY <1>24, <2>1 DEF ChainInv, vars, directory, control
  <1> QED BY <1>1, <1>2, <1>3, <1>4, <1>5, <1>6, <1>7, <1>8, <1>9, <1>10, <1>11, <1>12,
       <1>13, <1>14, <1>15, <1>16, <1>17, <1>18, <1>19, <1>20, <1>21, <1>22, <1>23, <1>24 DEF Next

-----------------------------------------------------------------------------
(* The invariant, and what follows from it.                                *)

\* An empty directory satisfies the invariant.
LEMMA InvInit == Init => Inv
  <1> SUFFICES ASSUME Init PROVE Inv
    OBVIOUS
  <1>1. KindInv /\ AnchorInv
    BY AuditConstants DEF Init, KindInv, AnchorInv, Days, Jobs, Idle, Running
  <1>2. EventInv /\ EventOnce /\ DeferredKept
    BY DEF Init, EventInv, EventOnce, DeferredKept
  <1>3. ChainInv
    BY DEF Init, ChainInv, GoodChain, Kept, Genesis, NatTails, Running
  <1> QED BY <1>1, <1>2, <1>3 DEF Inv

\* The invariant holds in every reachable state.
LEMMA InvHolds == Spec => []Inv
  <1>1. Inv /\ [Next]_vars => Inv'
    BY KindStep, EventStep, OnceStep, DeferredStep, AnchorStep, ChainStep DEF Inv
  <1> QED BY <1>1, InvInit, PTL DEF Spec

\* A log that suffered none of the four things that break a chain verifies at every later
\* start, wherever the host was killed.
THEOREM ChainStaysIntact == Spec => []ChainIntact
  <1>1. ASSUME Inv, broken = {}, at # "remove" PROVE VerifiesChain
    <2>1. Kept = log
      BY <1>1 DEF Kept
    <2>2. /\ log \subseteq NatLines /\ checkpoint \in NatTails /\ GoodChain(log, checkpoint)
          /\ \A a \in anchor : \/ a.seq <= checkpoint.seq
                               \/ \E l \in log : l.seq = a.seq /\ l.mac = a.mac
      BY <1>1, <2>1 DEF Inv, ChainInv
    <2>3. Chained(log, checkpoint)
      BY <2>2, GoodChainVerifies
    <2> QED BY <1>1, <2>2, <2>3 DEF Inv, AnchorInv, VerifiesChain, Anchored
  <1>2. Inv => ChainIntact
    BY <1>1 DEF ChainIntact
  <1> QED BY <1>2, InvHolds, PTL

\* An event with an id is in the log at most once, whatever record_once_deferred and the outbox
\* repeat.
THEOREM EventsOnce == Spec => []EventOnce
  <1>1. Inv => EventOnce
    BY DEF Inv
  <1> QED BY <1>1, InvHolds, PTL

\* An event that record_once_deferred took is in the log, in the outbox, or in a file that
\* expired or was moved aside, unless its append and the write of the outbox both failed.
THEOREM EventsKept == Spec => []DeferredKept
  <1>1. Inv => DeferredKept
    BY DEF Inv
  <1> QED BY <1>1, InvHolds, PTL

=============================================================================
