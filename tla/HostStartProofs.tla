--------------------------- MODULE HostStartProofs ---------------------------
(***************************************************************************)
(* One host works on each profile's directory and the legacy data moves as *)
(* a whole, for every number of browsers, profiles, hosts, kills and       *)
(* closed ports.                                                           *)
(***************************************************************************)
EXTENDS HostStart, TLAPS

Locking == {"flock", "open", "serve"}
Moving == {"move", "rename"}
Past == {"lock", "flock", "open", "serve"}

\* The lock: a host past OpenLockFile has its profile's lock file open, the file
\* never changes once it is there, and each locked inode has one holder.
LockInv ==
    /\ \A h \in Hosts : pc[h] # "gone" => of[h] \in Profiles
    /\ \A h \in Hosts : pc[h] \in Locking => fd[h] = lockfile[of[h]] /\ fd[h] # 0
    /\ \A h \in Hosts : Holds(h) => fd[h] \in holder
    /\ \A g, h \in Hosts : Holds(g) /\ Holds(h) /\ fd[g] = fd[h] => g = h

\* The owner file: one host creates it and writes it, nothing moves before that,
\* and only hosts of the profile that it names move anything.
OwnerInv ==
    /\ \A h \in Hosts : pc[h] = "write" => owner = "torn"
    /\ \A g, h \in Hosts : pc[g] = "write" /\ pc[h] = "write" => g = h
    /\ \A h \in Hosts : pc[h] \in Moving => owner = of[h]
    /\ \A h \in Hosts : pc[h] = "read" => owner # "none"
    /\ owner \in {"none", "torn"} => \A i \in Items : where[i] = "base"

\* Nothing is left to do for profile p, or p read an owner file without content.
Settled(p) ==
    \/ p \in early
    \/ \A i \in Items : where[i] # "base"
    \/ owner \in Profiles /\ owner # p

\* Migration: a host gets past it, and opens its directory, only when it is
\* settled; a host in the middle has moved everything up to its item.
MigrationInv ==
    /\ \A h \in Hosts : pc[h] \in Past => Settled(of[h])
    /\ \A p \in opened : Settled(p)
    /\ \A h \in Hosts : pc[h] \in Moving =>
          of[h] \in early \/ \A i \in Items : i < item[h] => where[i] # "base"
    /\ \A h \in Hosts : pc[h] \notin Moving => item[h] = 1

Inv == TypeOK /\ LockInv /\ OwnerInv /\ LegacyTogether /\ MigrationInv

-----------------------------------------------------------------------------
(* Types.                                                                  *)

\* There are five legacy items.
LEMMA ItemRange == Len(LegacyItems) = 5 /\ Items = 1..5
  BY DEF LegacyItems, Items

\* A step that ends a host keeps the types of what it changes.
LEMMA EndsType ==
    ASSUME TypeOK, NEW h \in Hosts, Ends(h)
    PROVE  /\ pc' \in [Hosts -> Steps] /\ of' \in [Hosts -> Profiles \cup {"nobody"}]
           /\ item' \in [Hosts -> Items] /\ fd' \in [Hosts -> 0..inodes]
           /\ id' \in [Clients -> Profiles]
           /\ port' \in [Clients -> {{}} \cup {{g} : g \in Hosts}]
           /\ adopting' \in [Clients -> SUBSET Profiles]
  <1>1. inodes \in Nat /\ 1 \in Items
    BY ItemRange DEF TypeOK
  <1>2. \A c \in Clients : port[c] \ {h} \in {{}} \cup {{g} : g \in Hosts}
    <2> TAKE c \in Clients
    <2>1. CASE port[c] = {}
      BY <2>1
    <2>2. CASE \E g \in Hosts : port[c] = {g}
      <3>1. PICK g \in Hosts : port[c] = {g}
        BY <2>2
      <3>2. port[c] \ {h} = {} \/ port[c] \ {h} = {g}
        BY <3>1
      <3> QED BY <3>2
    <2> QED BY <2>1, <2>2 DEF TypeOK
  <1> QED BY <1>1, <1>2 DEF TypeOK, Ends, Steps

\* Advance keeps the types of what it changes.
LEMMA AdvanceType ==
    ASSUME TypeOK, NEW h \in Hosts, Advance(h)
    PROVE  pc' \in [Hosts -> Steps] /\ item' \in [Hosts -> Items]
  BY ItemRange DEF TypeOK, Advance, Goes, Steps

\* The initial state is well typed.
LEMMA TypeInit == Init => TypeOK
  <1> SUFFICES ASSUME Init PROVE TypeOK
    OBVIOUS
  <1> USE ItemRange, StartConstants DEF Init
  <1>1. where \in [Items -> {"base"} \cup Profiles]
    OBVIOUS
  <1>2. pc \in [Hosts -> Steps] /\ of \in [Hosts -> Profiles \cup {"nobody"}]
    BY DEF Steps
  <1>3. lockfile \in [Profiles -> 0..inodes] /\ holder \subseteq 1..inodes /\ inodes \in Nat
    OBVIOUS
  <1>4. item \in [Hosts -> Items] /\ fd \in [Hosts -> 0..inodes]
    OBVIOUS
  <1>5. port \in [Clients -> {{}} \cup {{h} : h \in Hosts}] /\ adopting \in [Clients -> SUBSET Profiles]
    OBVIOUS
  <1>6. kills \in 0..MaxKills /\ drops \in 0..MaxDrops
    OBVIOUS
  <1> QED BY <1>1, <1>2, <1>3, <1>4, <1>5, <1>6 DEF TypeOK

\* Every step keeps the types.
LEMMA TypeStep == TypeOK /\ LockInv /\ [Next]_vars => TypeOK'
  <1> SUFFICES ASSUME TypeOK, LockInv, [Next]_vars PROVE TypeOK'
    OBVIOUS
  <1> USE StartConstants
  <1>1. ASSUME NEW c \in Clients, Connect(c) PROVE TypeOK'
    BY <1>1 DEF Connect, TypeOK, Steps, disk, lock
  <1>2. ASSUME NEW c \in Clients, SwitchProfile(c) PROVE TypeOK'
    BY <1>2 DEF SwitchProfile, TypeOK, disk, lock, hosts
  <1>3. ASSUME NEW c \in Clients, Drop(c) PROVE TypeOK'
    BY <1>3 DEF Drop, TypeOK, disk, lock, hosts
  <1>4. ASSUME NEW h \in Hosts, ClaimLegacy(h) PROVE TypeOK'
    BY <1>4 DEF ClaimLegacy, Goes, TypeOK, Steps, lock, clients
  <1>5. ASSUME NEW h \in Hosts, WriteOwner(h) PROVE TypeOK'
    BY <1>5 DEF WriteOwner, Goes, TypeOK, LockInv, Steps, lock, clients
  <1>6. ASSUME NEW h \in Hosts, ReadOwner(h) PROVE TypeOK'
    BY <1>6 DEF ReadOwner, Goes, TypeOK, LockInv, Steps, lock, clients
  <1>7. ASSUME NEW h \in Hosts, MoveItem(h) PROVE TypeOK'
    <2>1. pc' \in [Hosts -> Steps] /\ item' \in [Hosts -> Items]
      BY <1>7, AdvanceType DEF MoveItem, Goes, TypeOK, Steps
    <2> QED BY <1>7, <2>1 DEF MoveItem, TypeOK, disk, lock, clients
  <1>8. ASSUME NEW h \in Hosts, RenameItem(h) PROVE TypeOK'
    <2>1. CASE where[item[h]] = "base"
      <3>1. pc' \in [Hosts -> Steps] /\ item' \in [Hosts -> Items]
        BY <1>8, <2>1, AdvanceType DEF RenameItem
      <3>2. where' \in [Items -> {"base"} \cup Profiles]
        BY <1>8, <2>1 DEF RenameItem, TypeOK, LockInv
      <3> QED BY <1>8, <2>1, <3>1, <3>2 DEF RenameItem, TypeOK, lock, clients
    <2>2. CASE where[item[h]] # "base"
      <3>1. Ends(h) /\ UNCHANGED <<where, owner, opened, sites, early, lock, kills, drops>>
        BY <1>8, <2>2 DEF RenameItem
      <3> QED BY <3>1, EndsType DEF TypeOK, lock
    <2> QED BY <2>1, <2>2
  <1>9. ASSUME NEW h \in Hosts, OpenLockFile(h) PROVE TypeOK'
    BY <1>9 DEF OpenLockFile, Goes, TypeOK, LockInv, Steps, disk, clients
  <1>10. ASSUME NEW h \in Hosts, Flock(h) PROVE TypeOK'
    <2>1. CASE fd[h] \in holder
      BY <1>10, <2>1, EndsType DEF Flock, TypeOK, disk
    <2>2. CASE fd[h] \notin holder
      <3>1. fd[h] \in 1..inodes
        BY <1>10 DEF Flock, TypeOK, LockInv, Locking
      <3>2. holder' \subseteq 1..inodes /\ pc' \in [Hosts -> Steps]
        BY <1>10, <2>2, <3>1 DEF Flock, Goes, TypeOK, Steps
      <3> QED BY <1>10, <2>2, <3>2 DEF Flock, TypeOK, disk, clients
    <2> QED BY <2>1, <2>2
  <1>11. ASSUME NEW h \in Hosts, OpenApp(h) PROVE TypeOK'
    BY <1>11 DEF OpenApp, Goes, TypeOK, LockInv, Steps, lock, clients
  <1>12. ASSUME NEW h \in Hosts, EndOfInput(h) PROVE TypeOK'
    <2>1. Ends(h) /\ UNCHANGED <<disk, lockfile, inodes, kills, drops>> /\ holder' \subseteq holder
      BY <1>12 DEF EndOfInput, Released
    <2> QED BY <2>1, EndsType DEF TypeOK, disk
  <1>13. ASSUME NEW h \in Hosts, AddSite(h) PROVE TypeOK'
    BY <1>13 DEF AddSite, TypeOK, LockInv, lock, hosts, clients
  <1>14. ASSUME NEW h \in Hosts, Kill(h) PROVE TypeOK'
    <2>1. Ends(h) /\ UNCHANGED <<disk, lockfile, inodes, drops>> /\ holder' \subseteq holder
      BY <1>14 DEF Kill, Released
    <2>2. kills' \in 0..MaxKills
      BY <1>14 DEF Kill, TypeOK
    <2> QED BY <2>1, <2>2, EndsType DEF TypeOK, disk
  <1>15. ASSUME NEW h \in Hosts, NEW q \in Profiles, RecoveryAdopt(h, q) PROVE TypeOK'
    BY <1>15 DEF RecoveryAdopt, TypeOK, disk, lock, hosts
  <1>16. CASE UNCHANGED vars
    BY <1>16 DEF TypeOK, vars, disk, lock, hosts, clients
  <1> QED
    BY <1>1, <1>2, <1>3, <1>4, <1>5, <1>6, <1>7, <1>8, <1>9, <1>10, <1>11, <1>12, <1>13, <1>14,
       <1>15, <1>16
    DEF Next, HostStep

-----------------------------------------------------------------------------
(* The lock.                                                               *)

\* A host that ends, with the lock released if it held it, leaves the others theirs.
LEMMA EndsLock ==
    ASSUME TypeOK, LockInv, NEW h \in Hosts, Ends(h), holder' = Released(h), UNCHANGED lockfile
    PROVE  LockInv'
  <1>1. pc'[h] = "gone" /\ \A g \in Hosts \ {h} : pc'[g] = pc[g] /\ of'[g] = of[g] /\ fd'[g] = fd[g]
    BY DEF Ends, TypeOK
  <1>2. \A g \in Hosts : Holds(g)' => g # h /\ Holds(g)
    BY <1>1 DEF Holds
  <1>3. \A g \in Hosts : Holds(g)' => fd'[g] \in holder'
    <2> SUFFICES ASSUME NEW g \in Hosts, Holds(g)' PROVE fd'[g] \in holder'
      OBVIOUS
    <2>1. g # h /\ Holds(g) /\ fd'[g] = fd[g] /\ fd[g] \in holder
      BY <1>1, <1>2 DEF LockInv
    <2>2. Holds(h) => fd[g] # fd[h]
      BY <2>1 DEF LockInv
    <2> QED BY <2>1, <2>2 DEF Released
  <1>4. \A f, g \in Hosts : Holds(f)' /\ Holds(g)' /\ fd'[f] = fd'[g] => f = g
    BY <1>1, <1>2 DEF LockInv
  <1>5. \A g \in Hosts : pc'[g] # "gone" => of'[g] \in Profiles
    BY <1>1 DEF LockInv
  <1>6. \A g \in Hosts : pc'[g] \in Locking => fd'[g] = lockfile'[of'[g]] /\ fd'[g] # 0
    BY <1>1 DEF LockInv, Locking
  <1> QED BY <1>3, <1>4, <1>5, <1>6 DEF LockInv

\* A host that goes on without touching the lock leaves it as it is.
LEMMA GoesLock ==
    ASSUME TypeOK, LockInv, NEW h \in Hosts, UNCHANGED <<of, fd, lock>>,
           \A g \in Hosts \ {h} : pc'[g] = pc[g],
           pc[h] # "gone",
           pc'[h] \in Locking => pc[h] \in Locking,
           pc'[h] \in {"open", "serve"} => pc[h] \in {"open", "serve"}
    PROVE  LockInv'
  BY DEF LockInv, Holds, lock

\* Every step keeps the lock.
LEMMA LockStep == TypeOK /\ LockInv /\ [Next]_vars => LockInv'
  <1> SUFFICES ASSUME TypeOK, LockInv, [Next]_vars PROVE LockInv'
    OBVIOUS
  <1>1. ASSUME NEW c \in Clients, Connect(c) PROVE LockInv'
    <2>1. PICK h \in Hosts : /\ pc[h] = "gone"
                             /\ pc' = [pc EXCEPT ![h] = "claim"]
                             /\ of' = [of EXCEPT ![h] = id[c]]
      BY <1>1 DEF Connect
    <2>2. /\ pc'[h] = "claim" /\ of'[h] \in Profiles
          /\ \A g \in Hosts \ {h} : pc'[g] = pc[g] /\ of'[g] = of[g]
      BY <2>1 DEF TypeOK
    <2> QED BY <1>1, <2>2 DEF Connect, LockInv, Holds, Locking, lock
  <1>2. CASE UNCHANGED <<lock, hosts>>
    BY <1>2 DEF LockInv, Holds, Locking, lock, hosts
  <1>3. ASSUME NEW h \in Hosts,
               ClaimLegacy(h) \/ WriteOwner(h) \/ ReadOwner(h) \/ MoveItem(h) \/ OpenApp(h)
        PROVE  LockInv'
    <2>1. /\ UNCHANGED <<of, fd, lock>> /\ pc[h] # "gone"
          /\ \E s \in Steps \ {"flock", "open"} :
                pc' = [pc EXCEPT ![h] = s] /\ (s = "serve" => pc[h] = "open")
      BY <1>3 DEF ClaimLegacy, WriteOwner, ReadOwner, MoveItem, OpenApp, Advance, Goes, Steps
    <2> QED BY <2>1, GoesLock DEF TypeOK, Locking
  <1>4. ASSUME NEW h \in Hosts, RenameItem(h) PROVE LockInv'
    <2>1. CASE where[item[h]] = "base"
      <3>1. /\ UNCHANGED <<of, fd, lock>> /\ pc[h] # "gone"
            /\ \E s \in {"move", "lock"} : pc' = [pc EXCEPT ![h] = s]
        BY <1>4, <2>1 DEF RenameItem, Advance, Goes
      <3> QED BY <3>1, GoesLock DEF TypeOK, Locking
    <2>2. CASE where[item[h]] # "base"
      BY <1>4, <2>2, EndsLock DEF RenameItem, Released, Holds, lock
    <2> QED BY <2>1, <2>2
  <1>5. ASSUME NEW h \in Hosts, OpenLockFile(h) PROVE LockInv'
    <2>1. of[h] \in Profiles /\ pc[h] = "lock"
      BY <1>5 DEF OpenLockFile, LockInv
    <2>2. /\ pc'[h] = "flock" /\ UNCHANGED <<of, holder>>
          /\ fd'[h] = lockfile'[of[h]] /\ fd'[h] # 0
          /\ \A p \in Profiles : lockfile[p] # 0 => lockfile'[p] = lockfile[p]
          /\ \A g \in Hosts \ {h} : pc'[g] = pc[g] /\ fd'[g] = fd[g]
      BY <1>5, <2>1 DEF OpenLockFile, Goes, TypeOK
    <2>3. \A g \in Hosts \ {h} : pc[g] \in Locking => of[g] \in Profiles /\ lockfile[of[g]] # 0
      BY DEF LockInv, Locking
    <2>4. \A g \in Hosts : Holds(g)' => g # h /\ Holds(g) /\ fd'[g] = fd[g]
      BY <2>2 DEF Holds
    <2>5. \A g \in Hosts : pc'[g] # "gone" => of'[g] \in Profiles
      BY <2>1, <2>2 DEF LockInv
    <2>6. \A g \in Hosts : pc'[g] \in Locking => fd'[g] = lockfile'[of'[g]] /\ fd'[g] # 0
      BY <2>1, <2>2, <2>3 DEF LockInv
    <2> QED BY <2>2, <2>4, <2>5, <2>6 DEF LockInv
  <1>6. ASSUME NEW h \in Hosts, Flock(h) PROVE LockInv'
    <2>1. CASE fd[h] \in holder
      BY <1>6, <2>1, EndsLock DEF Flock, Released, Holds
    <2>2. CASE fd[h] \notin holder
      <3>1. /\ pc[h] = "flock" /\ pc'[h] = "open" /\ UNCHANGED <<of, fd, lockfile>>
            /\ holder' = holder \cup {fd[h]}
            /\ \A g \in Hosts \ {h} : pc'[g] = pc[g]
        BY <1>6, <2>2 DEF Flock, Goes, TypeOK
      <3>2. \A g \in Hosts : Holds(g)' => g = h \/ Holds(g)
        BY <3>1 DEF Holds
      <3>3. \A g \in Hosts : Holds(g) => fd[g] # fd[h]
        BY <2>2 DEF LockInv
      <3>4. \A g \in Hosts : Holds(g)' => fd'[g] \in holder'
        BY <3>1, <3>2 DEF LockInv
      <3>5. \A f, g \in Hosts : Holds(f)' /\ Holds(g)' /\ fd'[f] = fd'[g] => f = g
        BY <3>1, <3>2, <3>3 DEF LockInv
      <3>6. \A g \in Hosts : pc'[g] # "gone" => of'[g] \in Profiles
        BY <3>1 DEF LockInv
      <3>7. \A g \in Hosts : pc'[g] \in Locking => fd'[g] = lockfile'[of'[g]] /\ fd'[g] # 0
        BY <3>1 DEF LockInv, Locking
      <3> QED BY <3>4, <3>5, <3>6, <3>7 DEF LockInv
    <2> QED BY <2>1, <2>2
  <1>7. ASSUME NEW h \in Hosts, EndOfInput(h) \/ Kill(h) PROVE LockInv'
    BY <1>7, EndsLock DEF EndOfInput, Kill
  <1>8. UNCHANGED vars => UNCHANGED <<lock, hosts>>
    BY DEF vars
  <1>9. \A c \in Clients : SwitchProfile(c) \/ Drop(c) => UNCHANGED <<lock, hosts>>
    BY DEF SwitchProfile, Drop
  <1>10. \A h \in Hosts : AddSite(h) => UNCHANGED <<lock, hosts>>
    BY DEF AddSite
  <1>11. \A h \in Hosts, q \in Profiles : RecoveryAdopt(h, q) => UNCHANGED <<lock, hosts>>
    BY DEF RecoveryAdopt
  <1> QED
    BY <1>1, <1>2, <1>3, <1>4, <1>5, <1>6, <1>7, <1>8, <1>9, <1>10, <1>11 DEF Next, HostStep

-----------------------------------------------------------------------------
(* The owner file and the legacy items.                                    *)

\* A host that ends, or a client's step, leaves the migration as it is.
LEMMA EndsMigration ==
    ASSUME TypeOK, OwnerInv, LegacyTogether, MigrationInv, NEW h \in Hosts, Ends(h), UNCHANGED disk
    PROVE  OwnerInv' /\ LegacyTogether' /\ MigrationInv'
  <1>1. /\ pc'[h] = "gone" /\ item'[h] = 1
        /\ \A g \in Hosts \ {h} : pc'[g] = pc[g] /\ of'[g] = of[g] /\ item'[g] = item[g]
    BY DEF Ends, TypeOK
  <1>2. OwnerInv'
    BY <1>1 DEF OwnerInv, Moving, disk
  <1>3. LegacyTogether'
    BY DEF LegacyTogether, disk
  <1>4. MigrationInv'
    BY <1>1 DEF MigrationInv, Settled, Moving, Past, disk
  <1> QED BY <1>2, <1>3, <1>4

\* What is settled stays settled: an item never returns to the base, an owner
\* that is a profile is never replaced, and no host forgets an early read.
LEMMA SettledStays ==
    ASSUME NEW p \in Profiles, Settled(p), early \subseteq early',
           \A i \in Items : where[i] # "base" => where'[i] # "base",
           owner \in Profiles => owner' = owner
    PROVE  Settled(p)'
  BY DEF Settled

\* Advance, with the item of host h moved or skipped: the host has everything
\* up to its next item, or is past the migration and settled.
LEMMA AdvanceMigration ==
    ASSUME TypeOK, LockInv, OwnerInv, MigrationInv, NEW h \in Hosts, pc[h] \in Moving,
           Advance(h), UNCHANGED <<of, owner, opened, early>>,
           \A i \in Items : where[i] # "base" => where'[i] # "base",
           of[h] \in early \/ where'[item[h]] # "base"
    PROVE  MigrationInv'
  <1>1. /\ \A g \in Hosts \ {h} : pc'[g] = pc[g] /\ item'[g] = item[g]
        /\ item[h] \in Items
        /\ IF item[h] = 5 THEN pc'[h] = "lock" /\ item'[h] = 1
                          ELSE pc'[h] = "move" /\ item'[h] = item[h] + 1
    BY ItemRange DEF TypeOK, Advance, Goes
  <1>2. of[h] \in Profiles /\ \A g \in Hosts : pc[g] # "gone" => of[g] \in Profiles
    BY DEF LockInv, Moving
  <1>3. of[h] \in early \/ \A i \in Items : i <= item[h] => where'[i] # "base"
    <2>1. of[h] \in early \/ \A i \in Items : i < item[h] => where'[i] # "base"
      BY DEF MigrationInv
    <2>2. \A i \in Items : i <= item[h] => i < item[h] \/ i = item[h]
      BY <1>1, ItemRange
    <2> QED BY <2>1, <2>2
  <1>4. \A p \in Profiles : Settled(p) => Settled(p)'
    BY SettledStays
  <1>5. pc'[h] = "lock" => Settled(of[h])'
    BY <1>1, <1>3, ItemRange DEF Settled
  <1>6. \A g \in Hosts : pc'[g] \in Past => Settled(of[g])'
    BY <1>1, <1>2, <1>4, <1>5 DEF MigrationInv, Past
  <1>7. \A p \in opened : Settled(p)'
    BY <1>4 DEF MigrationInv, TypeOK
  <1>8. \A g \in Hosts : pc'[g] \in Moving =>
            of[g] \in early \/ \A i \in Items : i < item'[g] => where'[i] # "base"
    <2>1. pc'[h] \in Moving =>
            of[h] \in early \/ \A i \in Items : i < item'[h] => where'[i] # "base"
      BY <1>1, <1>3, ItemRange DEF Moving
    <2> QED BY <1>1, <2>1 DEF MigrationInv
  <1>9. \A g \in Hosts : pc'[g] \notin Moving => item'[g] = 1
    BY <1>1 DEF MigrationInv, Moving
  <1> QED BY <1>6, <1>7, <1>8, <1>9 DEF MigrationInv, Settled

\* Every step keeps the owner file, the legacy data together and the migration
\* of every profile in order.
LEMMA MigrationStep ==
    TypeOK /\ LockInv /\ OwnerInv /\ LegacyTogether /\ MigrationInv /\ [Next]_vars =>
        OwnerInv' /\ LegacyTogether' /\ MigrationInv'
  <1> SUFFICES ASSUME TypeOK, LockInv, OwnerInv, LegacyTogether, MigrationInv, [Next]_vars
               PROVE  OwnerInv' /\ LegacyTogether' /\ MigrationInv'
    OBVIOUS
  <1>1. ASSUME NEW c \in Clients, Connect(c) PROVE OwnerInv' /\ LegacyTogether' /\ MigrationInv'
    <2>1. PICK h \in Hosts : /\ pc[h] = "gone"
                             /\ pc' = [pc EXCEPT ![h] = "claim"]
                             /\ of' = [of EXCEPT ![h] = id[c]]
      BY <1>1 DEF Connect
    <2>2. /\ pc'[h] = "claim" /\ UNCHANGED <<disk, item>>
          /\ \A g \in Hosts \ {h} : pc'[g] = pc[g] /\ of'[g] = of[g]
      BY <1>1, <2>1 DEF Connect, TypeOK
    <2>3. OwnerInv'
      BY <2>2 DEF OwnerInv, Moving, disk
    <2>4. LegacyTogether'
      BY <2>2 DEF LegacyTogether, disk
    <2>5. MigrationInv'
      BY <2>1, <2>2 DEF MigrationInv, Settled, Moving, Past, disk
    <2> QED BY <2>3, <2>4, <2>5
  <1>2. CASE UNCHANGED <<where, owner, opened, early, hosts>>
    BY <1>2 DEF OwnerInv, LegacyTogether, MigrationInv, Settled, hosts
  <1>3. ASSUME NEW h \in Hosts, ClaimLegacy(h) PROVE OwnerInv' /\ LegacyTogether' /\ MigrationInv'
    <2>1. /\ pc[h] = "claim" /\ UNCHANGED <<where, opened, early, of, item>> /\ item[h] = 1
          /\ \A g \in Hosts \ {h} : pc'[g] = pc[g]
          /\ \/ pc'[h] = "lock" /\ owner' = owner /\ \A i \in Items : where[i] # "base"
             \/ pc'[h] = "write" /\ owner = "none" /\ owner' = "torn"
             \/ pc'[h] = "read" /\ owner # "none" /\ owner' = owner
      BY <1>3 DEF ClaimLegacy, Goes, TypeOK, MigrationInv, Moving
    <2>2. owner \in Profiles => owner' = owner
      BY <2>1, ProfileIds
    <2>3. OwnerInv'
      BY <2>1, ProfileIds DEF OwnerInv, LockInv, Moving
    <2>4. LegacyTogether'
      BY <2>1 DEF LegacyTogether, OwnerInv
    <2>5. \A p \in Profiles : Settled(p) => Settled(p)'
      BY <2>1, <2>2, SettledStays
    <2>6. \A p \in Profiles : pc'[h] = "lock" => Settled(p)'
      BY <2>1 DEF Settled
    <2>7. \A g \in Hosts : pc'[g] \in Past => Settled(of[g])'
      BY <2>1, <2>5, <2>6 DEF MigrationInv, Past, LockInv, Settled
    <2>8. MigrationInv'
      BY <2>1, <2>5, <2>7 DEF MigrationInv, Moving, TypeOK
    <2> QED BY <2>3, <2>4, <2>8
  <1>4. ASSUME NEW h \in Hosts, WriteOwner(h) PROVE OwnerInv' /\ LegacyTogether' /\ MigrationInv'
    <2>1. /\ pc[h] = "write" /\ UNCHANGED <<where, opened, early, of, item>> /\ item[h] = 1
          /\ owner = "torn" /\ owner' = of[h] /\ of[h] \in Profiles
          /\ pc'[h] = "move" /\ \A g \in Hosts \ {h} : pc'[g] = pc[g] /\ pc[g] # "write"
          /\ \A i \in Items : where[i] = "base"
      BY <1>4 DEF WriteOwner, Goes, TypeOK, MigrationInv, OwnerInv, LockInv, Moving
    <2>2. "torn" \notin Profiles /\ "none" \notin Profiles /\ owner \notin Profiles
      BY <2>1, ProfileIds
    <2>3. \A g \in Hosts : pc[g] \notin Moving
      BY <2>1, <2>2 DEF OwnerInv, LockInv, Moving
    <2>4. OwnerInv'
      BY <2>1, <2>2, <2>3 DEF OwnerInv
    <2>5. LegacyTogether'
      BY <2>1 DEF LegacyTogether
    <2>6. \A p \in Profiles : Settled(p) => Settled(p)'
      BY <2>1, <2>2, SettledStays
    <2>7. \A i \in Items : ~(i < item'[h])
      BY <2>1, ItemRange
    <2>8. \A g \in Hosts : pc'[g] \in Past => Settled(of[g])'
      BY <2>1, <2>6 DEF MigrationInv, Past, LockInv, Settled
    <2>9. MigrationInv'
      BY <2>1, <2>3, <2>6, <2>7, <2>8 DEF MigrationInv, Moving, TypeOK
    <2> QED BY <2>4, <2>5, <2>9
  <1>5. ASSUME NEW h \in Hosts, ReadOwner(h) PROVE OwnerInv' /\ LegacyTogether' /\ MigrationInv'
    <2>1. /\ pc[h] = "read" /\ UNCHANGED <<where, owner, opened, of, item>> /\ item[h] = 1
          /\ of[h] \in Profiles /\ owner # "none"
          /\ \A g \in Hosts \ {h} : pc'[g] = pc[g]
          /\ pc'[h] = IF owner = of[h] THEN "move" ELSE "lock"
          /\ early' = IF owner = "torn" THEN early \cup {of[h]} ELSE early
      BY <1>5 DEF ReadOwner, Goes, TypeOK, MigrationInv, OwnerInv, LockInv, Moving
    <2>2. OwnerInv'
      BY <2>1 DEF OwnerInv, Moving
    <2>3. LegacyTogether'
      BY <2>1 DEF LegacyTogether
    <2>4. \A p \in Profiles : Settled(p) => Settled(p)'
      BY <2>1, SettledStays
    <2>5. pc'[h] = "lock" => Settled(of[h])'
      <3>1. owner \in Profiles \/ owner = "torn"
        BY <2>1 DEF TypeOK
      <3> QED BY <2>1, <3>1 DEF Settled
    <2>6. \A i \in Items : ~(i < item[h])
      BY <2>1, ItemRange
    <2>7. \A g \in Hosts : pc'[g] \in Past => Settled(of[g])'
      BY <2>1, <2>4, <2>5 DEF MigrationInv, Past, LockInv, Settled
    <2>8. \A g \in Hosts : pc'[g] \in Moving =>
            of[g] \in early' \/ \A i \in Items : i < item[g] => where[i] # "base"
      BY <2>1, <2>6 DEF MigrationInv
    <2>9. MigrationInv'
      BY <2>1, <2>4, <2>7, <2>8 DEF MigrationInv, Moving, TypeOK
    <2> QED BY <2>2, <2>3, <2>9
  <1>6. ASSUME NEW h \in Hosts, MoveItem(h) PROVE OwnerInv' /\ LegacyTogether' /\ MigrationInv'
    <2>1. /\ pc[h] = "move" /\ UNCHANGED <<disk, of>>
          /\ pc'[h] \in {"move", "lock", "rename"} /\ \A g \in Hosts \ {h} : pc'[g] = pc[g]
      BY <1>6 DEF MoveItem, Advance, Goes, TypeOK
    <2>2. OwnerInv'
      BY <2>1 DEF OwnerInv, Moving, disk
    <2>3. LegacyTogether'
      BY <2>1 DEF LegacyTogether, disk
    <2>4. MigrationInv'
      <3>1. CASE where[item[h]] # "base" \/ of[h] \in opened
        <4>1. of[h] \in opened => of[h] \in early \/ where[item[h]] # "base"
          BY <2>1 DEF MigrationInv, Settled, OwnerInv, TypeOK, Moving
        <4> QED BY <1>6, <2>1, <3>1, <4>1, AdvanceMigration DEF MoveItem, disk, Moving
      <3>2. CASE ~(where[item[h]] # "base" \/ of[h] \in opened)
        <4>1. pc'[h] = "rename" /\ UNCHANGED item
          BY <1>6, <3>2 DEF MoveItem, Goes, TypeOK
        <4> QED BY <2>1, <4>1 DEF MigrationInv, Settled, Moving, Past, disk
      <3> QED BY <3>1, <3>2
    <2> QED BY <2>2, <2>3, <2>4
  <1>7. ASSUME NEW h \in Hosts, RenameItem(h) PROVE OwnerInv' /\ LegacyTogether' /\ MigrationInv'
    <2>1. CASE where[item[h]] = "base"
      <3>1. /\ pc[h] = "rename" /\ Advance(h) /\ UNCHANGED <<owner, opened, early, of>>
            /\ pc'[h] \in {"move", "lock"} /\ \A g \in Hosts \ {h} : pc'[g] = pc[g]
            /\ owner = of[h] /\ of[h] \in Profiles /\ item[h] \in Items
            /\ where' = [where EXCEPT ![item[h]] = of[h]]
        BY <1>7, <2>1 DEF RenameItem, Advance, Goes, TypeOK, OwnerInv, LockInv, Moving
      <3>2. /\ where'[item[h]] = owner
            /\ \A i \in Items \ {item[h]} : where'[i] = where[i]
        BY <3>1 DEF TypeOK
      <3>3. owner \notin {"base", "none", "torn"}
        BY <3>1, ProfileIds
      <3>4. OwnerInv'
        BY <3>1, <3>3 DEF OwnerInv, Moving
      <3>5. LegacyTogether'
        BY <3>1, <3>2 DEF LegacyTogether
      <3>6. MigrationInv'
        <4>1. \A i \in Items : where[i] # "base" => where'[i] # "base"
          BY <3>2, <3>3
        <4>2. where'[item[h]] # "base" /\ pc[h] \in Moving
          BY <3>1, <3>2, <3>3 DEF Moving
        <4> QED BY <3>1, <4>1, <4>2, AdvanceMigration
      <3> QED BY <3>4, <3>5, <3>6
    <2>2. CASE where[item[h]] # "base"
      BY <1>7, <2>2, EndsMigration DEF RenameItem, disk
    <2> QED BY <2>1, <2>2
  <1>8. ASSUME NEW h \in Hosts, OpenLockFile(h) PROVE OwnerInv' /\ LegacyTogether' /\ MigrationInv'
    <2>1. /\ pc[h] = "lock" /\ pc'[h] = "flock" /\ UNCHANGED <<disk, of, item>>
          /\ \A g \in Hosts \ {h} : pc'[g] = pc[g]
      BY <1>8 DEF OpenLockFile, Goes, TypeOK
    <2> QED BY <2>1 DEF OwnerInv, LegacyTogether, MigrationInv, Settled, Moving, Past, disk
  <1>9. ASSUME NEW h \in Hosts, Flock(h) PROVE OwnerInv' /\ LegacyTogether' /\ MigrationInv'
    <2>1. CASE fd[h] \in holder
      BY <1>9, <2>1, EndsMigration DEF Flock
    <2>2. CASE fd[h] \notin holder
      <3>1. /\ pc[h] = "flock" /\ pc'[h] = "open" /\ UNCHANGED <<disk, of, item>>
            /\ \A g \in Hosts \ {h} : pc'[g] = pc[g]
        BY <1>9, <2>2 DEF Flock, Goes, TypeOK
      <3> QED BY <3>1 DEF OwnerInv, LegacyTogether, MigrationInv, Settled, Moving, Past, disk
    <2> QED BY <2>1, <2>2
  <1>10. ASSUME NEW h \in Hosts, OpenApp(h) PROVE OwnerInv' /\ LegacyTogether' /\ MigrationInv'
    <2>1. /\ pc[h] = "open" /\ pc'[h] = "serve" /\ UNCHANGED <<where, owner, early, of, item>>
          /\ opened' = opened \cup {of[h]}
          /\ \A g \in Hosts \ {h} : pc'[g] = pc[g]
      BY <1>10 DEF OpenApp, Goes, TypeOK
    <2>2. Settled(of[h])
      BY <2>1 DEF MigrationInv, Past
    <2> QED BY <2>1, <2>2 DEF OwnerInv, LegacyTogether, MigrationInv, Settled, Moving, Past
  <1>11. ASSUME NEW h \in Hosts, EndOfInput(h) \/ Kill(h)
         PROVE  OwnerInv' /\ LegacyTogether' /\ MigrationInv'
    BY <1>11, EndsMigration DEF EndOfInput, Kill
  <1>12. \A c \in Clients : SwitchProfile(c) \/ Drop(c) => UNCHANGED <<where, owner, opened, early, hosts>>
    BY DEF SwitchProfile, Drop, disk
  <1>13. \A h \in Hosts : AddSite(h) => UNCHANGED <<where, owner, opened, early, hosts>>
    BY DEF AddSite
  <1>14. \A h \in Hosts, q \in Profiles :
            RecoveryAdopt(h, q) => UNCHANGED <<where, owner, opened, early, hosts>>
    BY DEF RecoveryAdopt, disk
  <1>15. UNCHANGED vars => UNCHANGED <<where, owner, opened, early, hosts>>
    BY DEF vars, disk
  <1> QED
    BY <1>1, <1>2, <1>3, <1>4, <1>5, <1>6, <1>7, <1>8, <1>9, <1>10, <1>11, <1>12, <1>13, <1>14,
       <1>15
    DEF Next, HostStep

-----------------------------------------------------------------------------
(* The theorems.                                                           *)

\* The initial state satisfies the invariant.
LEMMA InvInit == Init => Inv
  <1> SUFFICES ASSUME Init PROVE Inv
    OBVIOUS
  <1>1. LockInv
    BY DEF Init, LockInv, Holds, Locking
  <1>2. OwnerInv /\ LegacyTogether
    BY DEF Init, OwnerInv, LegacyTogether, Moving
  <1>3. MigrationInv
    BY DEF Init, MigrationInv, Moving, Past
  <1> QED BY TypeInit, <1>1, <1>2, <1>3 DEF Inv

\* The invariant holds in every state of every behaviour.
LEMMA InvHolds == Spec => []Inv
  <1>1. Inv /\ [Next]_vars => Inv'
    BY TypeStep, LockStep, MigrationStep DEF Inv
  <1> QED BY InvInit, <1>1, PTL DEF Spec

\* Every part of the state keeps its type.
THEOREM HostTypeCorrect == Spec => []TypeOK
  <1>1. Inv => TypeOK
    BY DEF Inv
  <1> QED BY <1>1, InvHolds, PTL

\* InstanceLock::acquire admits one host to each profile's directory, whatever
\* number of hosts start, end and are killed around it.
THEOREM OneHostPerProfile == Spec => []OneHost
  <1>1. Inv => OneHost
    BY DEF Inv, OneHost, LockInv, Holds, Locking
  <1> QED BY <1>1, InvHolds, PTL

\* migrate_legacy_profile moves the legacy items to one profile, the one that
\* the owner file names.
THEOREM LegacyStaysTogether == Spec => []LegacyTogether
  <1>1. Inv => LegacyTogether
    BY DEF Inv
  <1> QED BY <1>1, InvHolds, PTL

\* A host works on the owner's directory only when everything has moved there,
\* unless a host of that profile read the owner file before its content.
THEOREM MigratedBeforeServing == Spec => []ServesMigrated
  <1>1. Inv => ServesMigrated
    <2> SUFFICES ASSUME Inv, NEW h \in Hosts, Holds(h), owner = of[h], of[h] \notin early
                 PROVE  \A i \in Items : where[i] = owner
      BY DEF ServesMigrated
    <2>1. Settled(of[h])
      BY DEF Inv, MigrationInv, Holds, Past
    <2> QED BY <2>1 DEF Settled, Inv, LegacyTogether
  <1> QED BY <1>1, InvHolds, PTL

=============================================================================
