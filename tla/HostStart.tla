----------------------------- MODULE HostStart -----------------------------
(***************************************************************************)
(* Host processes and the data directory each of them works on: the first  *)
(* envelope names a profile, the data of an installation without profiles  *)
(* moves into the first profile that asks (native-host/src/paths.rs), the  *)
(* instance lock admits one host per profile (instance_lock.rs), and an    *)
(* extension may adopt the profile of another (dispatcher.rs, host_loop.rs).*)
(*                                                                         *)
(* Several browsers run at once, a port that closes leaves its host        *)
(* running until it reads the end of its input, and a host may be killed   *)
(* between any two of its steps.  The lock is the one of Unix, flock on a  *)
(* file that stays; an unshared handle does both steps at once on Windows. *)
(***************************************************************************)
EXTENDS Integers, Sequences

CONSTANTS
    Clients,    \* browsers with the extension
    Profiles,   \* profile ids
    Hosts,      \* host processes that may run at the same time
    MaxKills,   \* hosts killed in the middle of something
    MaxDrops    \* ports that the extension closes

ASSUME StartConstants == MaxKills \in Nat /\ MaxDrops \in Nat

\* A profile id is a UUID and differs from every other value of where, owner and of.
ASSUME ProfileIds == Profiles \cap {"base", "none", "torn", "nobody"} = {}

VARIABLES
    where,      \* for each legacy item: "base" or the profile that has it
    owner,      \* profile-migration-owner: "none", "torn" or a profile
    opened,     \* profiles whose directory a host has opened and filled
    sites,      \* profiles whose configuration got a group since
    lockfile,   \* the inode that host.lock of each profile names; 0 without one
    holder,     \* the inodes that are locked
    inodes,     \* inodes created so far
    pc,         \* what each host does next
    of,         \* the profile of each host
    item,       \* the legacy item a host is moving
    fd,         \* the inode of host.lock that a host has open
    id,         \* the profile id of each client
    port,       \* the hosts a client is connected to: none or one
    adopting,   \* recovery.adopted on its way to a client
    early,      \* history: profiles for which a host read the owner file before its content
    kills, drops

disk == <<where, owner, opened, sites, early>>
lock == <<lockfile, holder, inodes>>
hosts == <<pc, of, item, fd>>
clients == <<id, port, adopting>>
vars == <<disk, lock, hosts, clients, kills, drops>>

LegacyItems == <<"vault", "leases", "config", "audit", "hello-credential">>
Items == 1..Len(LegacyItems)
Steps == {"gone", "claim", "write", "read", "move", "rename", "lock", "flock", "open", "serve"}

TypeOK ==
    /\ where \in [Items -> {"base"} \cup Profiles]
    /\ owner \in {"none", "torn"} \cup Profiles
    /\ opened \subseteq Profiles /\ sites \subseteq Profiles /\ early \subseteq Profiles
    /\ lockfile \in [Profiles -> 0..inodes]
    /\ holder \subseteq 1..inodes
    /\ inodes \in Nat
    /\ pc \in [Hosts -> Steps]
    /\ of \in [Hosts -> Profiles \cup {"nobody"}]
    /\ item \in [Hosts -> Items]
    /\ fd \in [Hosts -> 0..inodes]
    /\ id \in [Clients -> Profiles]
    /\ port \in [Clients -> {{}} \cup {{h} : h \in Hosts}]
    /\ adopting \in [Clients -> SUBSET Profiles]
    /\ kills \in 0..MaxKills /\ drops \in 0..MaxDrops

HasSites(p) == p \in sites \/ \E i \in Items : LegacyItems[i] = "config" /\ where[i] = p

-----------------------------------------------------------------------------
Init ==
    /\ where = [i \in Items |-> "base"] /\ owner = "none" /\ opened = {} /\ sites = {} /\ early = {}
    /\ lockfile = [p \in Profiles |-> 0] /\ holder = {} /\ inodes = 0
    /\ pc = [h \in Hosts |-> "gone"] /\ of = [h \in Hosts |-> "nobody"]
    /\ item = [h \in Hosts |-> 1] /\ fd = [h \in Hosts |-> 0]
    /\ id \in [Clients -> Profiles] /\ \A c, d \in Clients : c # d => id[c] # id[d]
    /\ port = [c \in Clients |-> {}] /\ adopting = [c \in Clients |-> {}]
    /\ kills = 0 /\ drops = 0

\* The extension connects: a host starts and reads the first envelope.
Connect(c) ==
    /\ port[c] = {}
    /\ \E h \in Hosts :
        /\ pc[h] = "gone"
        /\ pc' = [pc EXCEPT ![h] = "claim"]
        /\ of' = [of EXCEPT ![h] = id[c]]
        /\ port' = [port EXCEPT ![c] = {h}]
    /\ UNCHANGED <<disk, lock, item, fd, id, adopting, kills, drops>>

\* The process ends and the kernel drops its lock; the extension sees its port close.
Ends(h) ==
    /\ pc' = [pc EXCEPT ![h] = "gone"] /\ of' = [of EXCEPT ![h] = "nobody"]
    /\ item' = [item EXCEPT ![h] = 1] /\ fd' = [fd EXCEPT ![h] = 0]
    /\ port' = [c \in Clients |-> port[c] \ {h}]
    /\ UNCHANGED <<id, adopting>>
Holds(h) == pc[h] \in {"open", "serve"}

\* Mutant: the lock is the existence of the file, which a killed host leaves.
ReleasedByHand(h) ==
    IF pc[h] = "serve" /\ \A c \in Clients : h \notin port[c] THEN holder \ {fd[h]} ELSE holder
Released(h) == IF Holds(h) THEN holder \ {fd[h]} ELSE holder
Goes(h, step) == pc' = [pc EXCEPT ![h] = step]

-----------------------------------------------------------------------------
(* migrate_legacy_profile, before the lock is taken.                       *)

\* Whoever creates profile-migration-owner becomes the owner.
ClaimLegacy(h) ==
    /\ pc[h] = "claim"
    /\ \/ (\A i \in Items : where[i] # "base") /\ Goes(h, "lock") /\ UNCHANGED owner
       \/ /\ \E i \in Items : where[i] = "base"
          /\ IF owner = "none" THEN owner' = "torn" /\ Goes(h, "write")
             ELSE Goes(h, "read") /\ UNCHANGED owner
    /\ UNCHANGED <<where, opened, sites, early, lock, of, item, fd, clients, kills, drops>>

WriteOwner(h) ==
    /\ pc[h] = "write"
    /\ owner' = of[h]
    /\ Goes(h, "move")
    /\ UNCHANGED <<where, opened, sites, early, lock, of, item, fd, clients, kills, drops>>

\* Mutant: a host that finds the file takes its profile's data for migrated.
ReadOwnerDone(h) ==
    /\ pc[h] = "read"
    /\ Goes(h, "lock")
    /\ UNCHANGED <<disk, lock, of, item, fd, clients, kills, drops>>

\* Mutant: whoever finds the file joins the migration.
ReadOwnerAnyone(h) ==
    /\ pc[h] = "read"
    /\ Goes(h, "move")
    /\ UNCHANGED <<disk, lock, of, item, fd, clients, kills, drops>>

ReadOwner(h) ==
    /\ pc[h] = "read"
    /\ Goes(h, IF owner = of[h] THEN "move" ELSE "lock")
    /\ early' = IF owner = "torn" THEN early \cup {of[h]} ELSE early
    /\ UNCHANGED <<where, owner, opened, sites, lock, of, item, fd, clients, kills, drops>>

Advance(h) ==
    /\ item' = [item EXCEPT ![h] = IF @ = Len(LegacyItems) THEN 1 ELSE @ + 1]
    /\ Goes(h, IF item[h] = Len(LegacyItems) THEN "lock" ELSE "move")

\* migrate_one: skip what is not there or would overwrite something, then rename.
MoveItem(h) ==
    /\ pc[h] = "move"
    /\ IF where[item[h]] # "base" \/ of[h] \in opened THEN Advance(h)
       ELSE Goes(h, "rename") /\ UNCHANGED item
    /\ UNCHANGED <<disk, lock, of, fd, clients, kills, drops>>

\* The rename fails, and with it the start, when another host was faster.
RenameItem(h) ==
    /\ pc[h] = "rename"
    /\ IF where[item[h]] = "base"
       THEN /\ where' = [where EXCEPT ![item[h]] = of[h]]
            /\ Advance(h)
            /\ UNCHANGED <<of, fd, clients>>
       ELSE Ends(h) /\ UNCHANGED where
    /\ UNCHANGED <<owner, opened, sites, early, lock, kills, drops>>

-----------------------------------------------------------------------------
(* InstanceLock::acquire and NativeHostApp::open.                          *)

OpenLockFile(h) ==
    /\ pc[h] = "lock"
    /\ Goes(h, "flock")
    /\ IF lockfile[of[h]] = 0
       THEN /\ inodes' = inodes + 1
            /\ lockfile' = [lockfile EXCEPT ![of[h]] = inodes + 1]
            /\ fd' = [fd EXCEPT ![h] = inodes + 1]
       ELSE fd' = [fd EXCEPT ![h] = lockfile[of[h]]] /\ UNCHANGED <<inodes, lockfile>>
    /\ UNCHANGED <<disk, holder, of, item, clients, kills, drops>>

\* flock(LOCK_EX | LOCK_NB): another holder ends this host.
Flock(h) ==
    /\ pc[h] = "flock"
    /\ IF fd[h] \in holder THEN Ends(h) /\ UNCHANGED holder
       ELSE /\ holder' = holder \cup {fd[h]}
            /\ Goes(h, "open")
            /\ UNCHANGED <<of, item, fd, clients>>
    /\ UNCHANGED <<disk, lockfile, inodes, kills, drops>>

OpenApp(h) ==
    /\ pc[h] = "open"
    /\ opened' = opened \cup {of[h]}
    /\ Goes(h, "serve")
    /\ UNCHANGED <<where, owner, sites, early, lock, of, item, fd, clients, kills, drops>>

-----------------------------------------------------------------------------
(* Serving.                                                                *)

\* group.add, as far as the other components are concerned.
AddSite(h) ==
    /\ pc[h] = "serve" /\ \E c \in Clients : h \in port[c]
    /\ sites' = sites \cup {of[h]}
    /\ UNCHANGED <<where, owner, opened, early, lock, hosts, clients, kills, drops>>

\* handle_recovery_adopt: an empty profile, and the user verified for the other one.
RecoveryAdopt(h, q) ==
    /\ pc[h] = "serve" /\ ~HasSites(of[h])
    /\ q # of[h] /\ q \in opened /\ HasSites(q)
    /\ \E c \in Clients : h \in port[c] /\ adopting' = [adopting EXCEPT ![c] = {q}]
    /\ UNCHANGED <<disk, lock, hosts, id, port, kills, drops>>

\* The extension takes the other id and closes its port.
SwitchProfile(c) ==
    /\ \E q \in adopting[c] : id' = [id EXCEPT ![c] = q]
    /\ adopting' = [adopting EXCEPT ![c] = {}]
    /\ port' = [port EXCEPT ![c] = {}]
    /\ UNCHANGED <<disk, lock, hosts, kills, drops>>

\* The extension's port closes while the host may still be busy.
Drop(c) ==
    /\ drops < MaxDrops /\ port[c] # {}
    /\ drops' = drops + 1
    /\ port' = [port EXCEPT ![c] = {}]
    /\ UNCHANGED <<disk, lock, hosts, id, adopting, kills>>

\* Mutant: the lock file is removed on exit.
EndOfInputUnlinks(h) ==
    /\ pc[h] = "serve" /\ \A c \in Clients : h \notin port[c]
    /\ holder' = Released(h)
    /\ lockfile' = [lockfile EXCEPT ![of[h]] = 0]
    /\ Ends(h)
    /\ UNCHANGED <<disk, inodes, kills, drops>>

\* A host that reads the end of its input ends.
EndOfInput(h) ==
    /\ pc[h] = "serve" /\ \A c \in Clients : h \notin port[c]
    /\ holder' = Released(h)
    /\ Ends(h)
    /\ UNCHANGED <<disk, lockfile, inodes, kills, drops>>

\* Chrome or the system kills a host.
Kill(h) ==
    /\ kills < MaxKills /\ pc[h] # "gone"
    /\ kills' = kills + 1
    /\ holder' = Released(h)
    /\ Ends(h)
    /\ UNCHANGED <<disk, lockfile, inodes, drops>>

-----------------------------------------------------------------------------
HostStep(h) ==
    \/ ClaimLegacy(h) \/ WriteOwner(h) \/ ReadOwner(h) \/ MoveItem(h) \/ RenameItem(h)
    \/ OpenLockFile(h) \/ Flock(h) \/ OpenApp(h) \/ EndOfInput(h)

Next ==
    \/ \E c \in Clients : Connect(c) \/ SwitchProfile(c) \/ Drop(c)
    \/ \E h \in Hosts : HostStep(h) \/ AddSite(h) \/ Kill(h)
    \/ \E h \in Hosts, q \in Profiles : RecoveryAdopt(h, q)

Spec == Init /\ [][Next]_vars

\* The extension reconnects a second after every disconnect; a host goes on until it blocks
\* on its input, and ends when that is at its end.
FairSpec ==
    /\ Spec
    /\ \A c \in Clients : WF_vars(Connect(c)) /\ WF_vars(SwitchProfile(c))
    /\ \A h \in Hosts : WF_vars(HostStep(h))

-----------------------------------------------------------------------------
\* At most one host works on a profile's directory, although a reconnect starts the next host
\* before the last one has ended, two browsers may use one profile after a recovery, and a
\* host may be killed with the lock held (InstanceLock: "Refusing the second instance").
OneHost == \A g, h \in Hosts : Holds(g) /\ Holds(h) /\ of[g] = of[h] => g = h

\* The legacy data stays together: whatever has moved is with the profile that the owner file
\* names, although hosts of several profiles, or two hosts of one, migrate at the same time.
LegacyTogether == \A i \in Items : where[i] = "base" \/ where[i] = owner

\* No host opens the owner's directory before everything has moved there, so that a migration
\* cut short is completed and never hidden by files the host creates; except where a second
\* host of the same profile read the owner file while the first had not yet written it.
ServesMigrated ==
    \A h \in Hosts : Holds(h) /\ owner = of[h] /\ of[h] \notin early =>
        \A i \in Items : where[i] = owner

\* A browser that is disconnected is served again: some host serves its profile.
Serves(p) == \E h \in Hosts : of[h] = p /\ pc[h] = "serve" /\ \E c \in Clients : h \in port[c]
Wanted(p) == \E c \in Clients : id[c] = p
Reconnects == \A p \in Profiles : Wanted(p) ~> Serves(p) \/ ~Wanted(p)

=============================================================================
