------------------------- MODULE GroupConfigProofs -------------------------
(***************************************************************************)
(* The vault of a protected group survives group.remove and a change of    *)
(* policy that fail or are cut short, the next start undoes or finishes    *)
(* what was left half done, and the host stays startable: for every number *)
(* of groups, scopes and I/O errors.                                       *)
(***************************************************************************)
EXTENDS GroupConfig, TLAPS

Opening == {"load", "recover", "open"}
Serves == {"up", "build", "stage", "commit", "rollback", "finish", "project", "persist"}

\* The request in progress deletes a vault in two steps.
Deletes == job.op \in {"remove", "monitor"}

\* What the proofs need of the types.
ShapeInv ==
    /\ DOMAIN disk \subseteq Groups /\ \A g \in DOMAIN disk : disk[g] \in Definitions
    /\ DOMAIN config \subseteq Groups /\ \A g \in DOMAIN config : config[g] \in Definitions
    /\ DOMAIN live \subseteq Groups
    /\ \A g \in DOMAIN live : live[g] \in [policy : PolicyLevel, lease : LeaseStates]
    /\ lease \in [Groups -> LeaseStates \cup {"none"}] /\ phase5 \in {"none", "sealed"}
    /\ at \in {"down"} \cup Opening \cup Serves
    /\ job.g \in Groups /\ faults \in Nat
    /\ at \in {"down", "load", "recover"} => DOMAIN live = {}
    /\ at \in {"down", "load"} => DOMAIN config = {}

\* The request at each of its steps, and the ids it may not draw again.
JobInv ==
    /\ DOMAIN disk \cup DOMAIN config \cup DOMAIN live \cup vault \cup staged \subseteq used
    /\ at = "build" => job.op = "add"
    /\ at \in {"build", "commit"} /\ job.op = "add" =>
          /\ job.g \notin DOMAIN disk \cup DOMAIN config \cup DOMAIN live \cup vault \cup staged
          /\ job.g \in used /\ job.def \in Definitions
    /\ at = "stage" => Deletes /\ job.g \in DOMAIN live
    /\ at = "stage" /\ job.op = "monitor" =>
          IF job.g \in DOMAIN config THEN job.def \in Definitions /\ job.def.policy = "monitor"
          ELSE job.def = <<>>
    /\ at = "commit" => job.op \in {"add", "policy", "remove", "monitor"}
    /\ at = "commit" /\ job.op = "monitor" =>
          job.g \in DOMAIN config /\ job.def \in Definitions /\ job.def.policy = "monitor"
    /\ at = "commit" /\ job.op = "policy" =>
          /\ job.g \in DOMAIN config /\ job.g \in DOMAIN live /\ job.def \in Definitions
          /\ job.def.policy = "monitor" => live[job.g].policy = "monitor"
    /\ at \in {"rollback", "finish"} => Deletes
    /\ at = "project" => job.op = "remove"
    /\ at = "persist" => job.op = "monitor"
    /\ at \in {"commit", "rollback", "finish"} /\ Deletes => job.g \in DOMAIN live /\ job.g \notin vault
    /\ at = "persist" => job.g \notin vault \cup staged

\* The sessions: only protected groups are claimed, and the vault of a group
\* is given up after the file stopped protecting it.
SessionInv ==
    /\ \A g \in captured : Protects(disk, g)
    /\ SessionKept
    /\ at \in {"recover", "open", "finish"} => config = disk
    /\ at = "finish" => ~Protects(disk, job.g)
    /\ at = "finish" /\ job.op = "remove" => job.g \notin DOMAIN disk

\* The runtimes are those of the configuration, which is that of the file.
Agrees ==
    /\ config = disk
    /\ staged \subseteq IF at \in {"commit", "rollback", "finish"} /\ Deletes THEN {job.g} ELSE {}
    /\ DOMAIN live = DOMAIN config \cup (IF at = "finish" /\ job.op = "remove" THEN {job.g} ELSE {})
    /\ \A g \in DOMAIN config : live[g].policy = config[g].policy

HealInv ==
    /\ at = "open" =>
          /\ staged = {} /\ DOMAIN live \subseteq DOMAIN config
          /\ \A g \in DOMAIN live : live[g].policy = config[g].policy
    /\ at \in Serves \ {"rollback"} /\ ~failed => Agrees
    /\ at \in Serves /\ faults = 0 => Agrees

\* Without I/O errors: what a host could still seal or restore is protected.
OrphanInv ==
    faults = 0 =>
        /\ \A g \in vault : Protects(disk, g)
        /\ \A g \in DOMAIN live : live[g].policy = "monitor" /\ ~(at = "finish" /\ g = job.g) =>
              live[g].lease = "uninitialized"
        /\ at \in {"commit", "rollback"} /\ job.g \in staged => Protects(disk, job.g)

\* A lease file that load_or_initialize would refuse beside a vault.
StartInv ==
    /\ at \in Serves \cup {"open"} => (DOMAIN live \ DOMAIN config) \cap DOMAIN disk = {}
    /\ halfway = {} =>
        /\ \A g \in DOMAIN disk \cup DOMAIN config : lease[g] = "uninitialized" => g \notin vault
        /\ \A g \in staged : Protects(disk, g) => lease[g] # "uninitialized"
        /\ at \in Serves => \A g \in staged :
              \/ g \notin DOMAIN config \cup DOMAIN disk
              \/ at \in {"commit", "rollback", "finish"} /\ Deletes /\ g = job.g
        /\ at \in {"commit", "rollback"} /\ Deletes /\ job.g \in staged /\ job.g \in DOMAIN config =>
              lease[job.g] # "uninitialized"

Inv == ShapeInv /\ JobInv /\ SessionInv /\ HealInv /\ OrphanInv /\ StartInv
-----------------------------------------------------------------------------
(* The functions that the steps build.                                     *)

\* A definition is not the empty value that stands for none.
LEMMA DefinitionNotEmpty == \A d \in Definitions : d # <<>>
  <1> SUFFICES ASSUME NEW d \in Definitions, d = <<>> PROVE FALSE
    OBVIOUS
  <1>1. "scope" \in DOMAIN d
    BY DEF Definitions
  <1>2. DOMAIN d = {}
    BY DOMAIN <<>> = {}
  <1> QED BY <1>1, <1>2

\* What a request to remove a group, and one that defines a group, write.
LEMMA CandidateShape ==
    /\ job.op = "remove" =>
          /\ DOMAIN Candidate = DOMAIN config \ {job.g}
          /\ \A g \in DOMAIN config \ {job.g} : Candidate[g] = config[g]
    /\ job.op # "remove" =>
          /\ DOMAIN Candidate = DOMAIN config \cup {job.g}
          /\ Candidate[job.g] = job.def
          /\ \A g \in DOMAIN config \ {job.g} : Candidate[g] = config[g]
  BY DEF Candidate, Restrict, With

\* SetLease changes one lease, in the runtime and in its file.
LEMMA SetLeaseShape ==
    ASSUME ShapeInv, NEW g \in DOMAIN live, NEW s \in LeaseStates, SetLease(g, s)
    PROVE  /\ DOMAIN live' = DOMAIN live
           /\ live'[g] = [policy |-> live[g].policy, lease |-> s]
           /\ \A h \in DOMAIN live \ {g} : live'[h] = live[h]
           /\ lease' \in [Groups -> LeaseStates \cup {"none"}] /\ lease'[g] = s
           /\ \A h \in Groups \ {g} : lease'[h] = lease[h]
  BY DEF ShapeInv, SetLease

-----------------------------------------------------------------------------
(* The start.                                                              *)

\* The first step of a start keeps the invariant.
LEMMA StartStep == Inv /\ Start => Inv'
  <1> SUFFICES ASSUME Inv, Start PROVE Inv'
    OBVIOUS
  <1>1. ShapeInv'
    BY DEF Inv, Start, files, cookies, ShapeInv, Opening, Serves, PolicyLevel, LeaseStates
  <1>2. JobInv'
    BY DEF Inv, Start, files, cookies, JobInv, Deletes
  <1>3. SessionInv'
    BY DEF Inv, Start, files, cookies, SessionInv, SessionKept, Protects
  <1>4. HealInv'
    BY DEF Inv, Start, files, cookies, HealInv, Agrees, Serves, Deletes
  <1>5. OrphanInv'
    BY DEF Inv, Start, files, cookies, OrphanInv, Protects
  <1>6. StartInv'
    BY DEF Inv, Start, files, cookies, StartInv, Serves, Deletes, Protects
  <1> QED BY <1>1, <1>2, <1>3, <1>4, <1>5, <1>6 DEF Inv

\* Loading the configuration keeps it: the lease that is moved is a sealed one.
LEMMA LoadConfigStep == Inv /\ LoadConfig => Inv'
  <1> SUFFICES ASSUME Inv, LoadConfig PROVE Inv'
    OBVIOUS
  <1>1. ShapeInv'
    BY DEF Inv, LoadConfig, MigratePhase5, cookies, history, ShapeInv, Opening, Serves,
       PolicyLevel, LeaseStates
  <1>2. JobInv'
    BY DEF Inv, LoadConfig, MigratePhase5, cookies, history, JobInv, Deletes
  <1>3. SessionInv'
    BY DEF Inv, LoadConfig, MigratePhase5, cookies, history, SessionInv, SessionKept,
       Protects
  <1>4. HealInv'
    BY DEF Inv, LoadConfig, MigratePhase5, cookies, history, HealInv, Agrees, Serves,
       Deletes
  <1>5. OrphanInv'
    BY DEF Inv, LoadConfig, MigratePhase5, cookies, history, OrphanInv, Protects
  <1>6. \A g \in Groups : lease'[g] = lease[g] \/ lease'[g] = "sealed"
    BY DEF Inv, LoadConfig, MigratePhase5, ShapeInv
  <1>7. StartInv'
    BY <1>6 DEF Inv, LoadConfig, cookies, history, JobInv, ShapeInv, StartInv, Serves,
       Deletes, Protects
  <1> QED BY <1>1, <1>2, <1>3, <1>4, <1>5, <1>7 DEF Inv

\* So does recovering a staged deletion: the file is the configuration by now.
LEMMA RecoverStagedStep == Inv /\ RecoverStaged => Inv'
  <1> SUFFICES ASSUME Inv, RecoverStaged PROVE Inv'
    OBVIOUS
  <1>1. ShapeInv'
    BY DEF Inv, RecoverStaged, Protects, cookies, history, ShapeInv, Opening, Serves,
       PolicyLevel, LeaseStates
  <1>2. JobInv'
    BY DEF Inv, RecoverStaged, Protects, cookies, history, JobInv, Deletes
  <1>3. SessionInv'
    BY DEF Inv, RecoverStaged, Protects, cookies, history, SessionInv, SessionKept
  <1>4. at = "recover" /\ DOMAIN live = {} /\ config = disk
    BY DEF Inv, ShapeInv, SessionInv, RecoverStaged
  <1>5. HealInv'
    BY <1>4 DEF Inv, RecoverStaged, cookies, history, HealInv, Agrees, Serves, Deletes
  <1>6. OrphanInv'
    BY <1>4 DEF Inv, RecoverStaged, cookies, history, OrphanInv, Protects
  <1>7. StartInv'
    BY <1>4 DEF Inv, RecoverStaged, cookies, history, StartInv, Serves, Deletes, Protects
  <1> QED BY <1>1, <1>2, <1>3, <1>5, <1>6, <1>7 DEF Inv

\* So does building a runtime: it follows the file, and a lease file that
\* contradicts the vault is refused.
LEMMA OpenGroupStep == Inv /\ OpenGroup => Inv'
  <1> SUFFICES ASSUME Inv, OpenGroup PROVE Inv'
    OBVIOUS
  <1>1. at = "open" /\ config = disk /\ staged = {} /\ DOMAIN live \subseteq DOMAIN config
        /\ \A h \in DOMAIN live : live[h].policy = config[h].policy
    BY DEF Inv, SessionInv, HealInv, OpenGroup
  <1>2. CASE DOMAIN live = DOMAIN config
    <2>1. at' = "up" /\ UNCHANGED <<disk, phase5, vault, staged, lease, config, live, job,
                                    captured, halfway, used, failed, faults>>
      BY <1>2 DEF OpenGroup, cookies, history
    <2>2. ShapeInv'
      BY <1>1, <2>1 DEF Inv, ShapeInv, Opening, Serves, PolicyLevel, LeaseStates
    <2>3. JobInv'
      BY <1>1, <2>1 DEF Inv, JobInv, Deletes
    <2>4. SessionInv'
      BY <1>1, <2>1 DEF Inv, SessionInv, SessionKept, Protects
    <2>5. HealInv'
      BY <1>1, <1>2, <2>1 DEF Inv, HealInv, Agrees, Serves, Deletes
    <2>6. OrphanInv'
      BY <1>1, <2>1 DEF Inv, OrphanInv, Protects
    <2>7. StartInv'
      BY <1>1, <2>1 DEF Inv, StartInv, Serves, Deletes, Protects
    <2> QED BY <2>2, <2>3, <2>4, <2>5, <2>6, <2>7 DEF Inv
  <1>3. CASE DOMAIN live # DOMAIN config
    <2>1. PICK g \in DOMAIN config \ DOMAIN live :
            /\ ~Refuses(g)
            /\ lease' = [lease EXCEPT ![g] = LoadedLease(g)]
            /\ live' = With(live, g, [policy |-> config[g].policy, lease |-> LoadedLease(g)])
            /\ UNCHANGED at
      BY <1>3 DEF OpenGroup
    <2>2. UNCHANGED <<disk, phase5, vault, staged, config, at, job, captured, halfway, used,
                      failed, faults>>
      BY <1>1, <2>1 DEF OpenGroup, cookies, history
    <2>3. g \in Groups /\ config[g] \in Definitions
      BY DEF Inv, ShapeInv
    <2>4. /\ LoadedLease(g) \in LeaseStates
          /\ LoadedLease(g) # "uninitialized" => g \in vault
          /\ LoadedLease(g) = "uninitialized" => g \notin vault
      <3>1. lease[g] \in LeaseStates \cup {"none"}
        BY <2>3 DEF Inv, ShapeInv
      <3>2. CASE lease[g] = "none"
        BY <3>2 DEF LoadedLease, LeaseStates
      <3>3. CASE lease[g] # "none"
        BY <2>1, <3>1, <3>3 DEF LoadedLease, Refuses, LeaseStates
      <3> QED BY <3>2, <3>3
    <2>5. /\ DOMAIN live' = DOMAIN live \cup {g}
          /\ live'[g] = [policy |-> config[g].policy, lease |-> LoadedLease(g)]
          /\ \A h \in DOMAIN live : live'[h] = live[h]
      BY <2>1 DEF With
    <2>6. /\ lease' \in [Groups -> LeaseStates \cup {"none"}] /\ lease'[g] = LoadedLease(g)
          /\ \A h \in Groups \ {g} : lease'[h] = lease[h]
      BY <2>1, <2>3, <2>4 DEF Inv, ShapeInv
    <2>7. ShapeInv'
      <3>1. \A h \in DOMAIN live' : live'[h] \in [policy : PolicyLevel, lease : LeaseStates]
        BY <2>3, <2>4, <2>5 DEF Inv, ShapeInv, Definitions
      <3> QED BY <1>1, <2>2, <2>3, <2>5, <2>6, <3>1 DEF Inv, ShapeInv, Opening
    <2>8. JobInv'
      BY <1>1, <2>2, <2>5 DEF Inv, JobInv, Deletes
    <2>9. SessionInv'
      BY <1>1, <2>2 DEF Inv, SessionInv, SessionKept, Protects
    <2>10. HealInv'
      BY <1>1, <2>2, <2>5 DEF Inv, HealInv, Serves
    <2>11. OrphanInv'
      <3>1. faults = 0 /\ config[g].policy = "monitor" => LoadedLease(g) = "uninitialized"
        BY <1>1, <2>4 DEF Inv, OrphanInv, Protects
      <3> QED BY <1>1, <2>2, <2>5, <3>1 DEF Inv, OrphanInv, Protects
    <2>12. StartInv'
      BY <1>1, <2>2, <2>3, <2>4, <2>5, <2>6 DEF Inv, ShapeInv, StartInv, Serves, Deletes,
         Protects
    <2> QED BY <2>7, <2>8, <2>9, <2>10, <2>11, <2>12 DEF Inv
  <1> QED BY <1>2, <1>3

\* The memory is empty when the host ends.
LEMMA EndsShape ==
    Ends => /\ DOMAIN config' = {} /\ DOMAIN live' = {} /\ at' = "down"
            /\ job'.g = Wikipedia /\ job'.op = "none"
  BY DEF Ends, NoConfig, Idle

\* An I/O error is counted.
LEMMA FaultCounts == ShapeInv /\ Fault => faults' \in Nat /\ faults' # 0
  BY DEF ShapeInv, Fault

\* The end of the host keeps the invariant, whether a start failed or it was killed.
LEMMA EndStep == Inv /\ (StartFails \/ Crash) => Inv'
  <1> SUFFICES ASSUME Inv, StartFails \/ Crash PROVE Inv'
    OBVIOUS
  <1>1. /\ DOMAIN config' = {} /\ DOMAIN live' = {} /\ at' = "down"
        /\ job'.g = Wikipedia /\ job'.op = "none"
    BY EndsShape DEF StartFails, Crash
  <1>2. UNCHANGED <<disk, phase5, vault, staged, lease, captured, halfway, used>>
    BY DEF StartFails, Crash, history
  <1>3. faults' \in Nat /\ (faults' = 0 => faults = 0)
    BY FaultCounts DEF Inv, ShapeInv, StartFails, Crash
  <1>4. ShapeInv'
    BY <1>1, <1>2, <1>3, ConfigConstants DEF Inv, ShapeInv
  <1>5. JobInv'
    BY <1>1, <1>2 DEF Inv, JobInv, Deletes
  <1>6. SessionInv'
    BY <1>1, <1>2 DEF Inv, SessionInv, SessionKept, Protects
  <1>7. HealInv'
    BY <1>1, <1>2 DEF Inv, HealInv, Serves
  <1>8. OrphanInv'
    BY <1>1, <1>2, <1>3 DEF Inv, OrphanInv, Protects
  <1>9. StartInv'
    BY <1>1, <1>2 DEF Inv, StartInv, Serves, Deletes, Protects
  <1> QED BY <1>4, <1>5, <1>6, <1>7, <1>8, <1>9 DEF Inv

-----------------------------------------------------------------------------
(* The requests.                                                           *)

\* A request to add a group keeps the invariant: its id was never drawn before.
LEMMA GroupAddStep ==
    ASSUME Inv, NEW g \in Groups, NEW s \in Scopes, NEW p \in PolicyLevel, GroupAdd(g, s, p)
    PROVE  Inv'
  <1>1. ShapeInv'
    BY DEF Inv, GroupAdd, files, cookies, ShapeInv, Opening, Serves, PolicyLevel,
       LeaseStates
  <1>2. JobInv'
    BY DEF Inv, GroupAdd, Definitions, files, cookies, JobInv, Deletes
  <1>3. SessionInv'
    BY DEF Inv, GroupAdd, files, cookies, SessionInv, SessionKept, Protects
  <1>4. HealInv'
    BY DEF Inv, GroupAdd, files, cookies, HealInv, Agrees, Serves, Deletes
  <1>5. OrphanInv'
    BY DEF Inv, GroupAdd, files, cookies, OrphanInv, Protects
  <1>6. StartInv'
    BY DEF Inv, GroupAdd, files, cookies, StartInv, Serves, Deletes, Protects
  <1> QED BY <1>1, <1>2, <1>3, <1>4, <1>5, <1>6 DEF Inv

\* Writing the first lease of the new group keeps it: the group has no vault.
LEMMA BuildGroupStep == Inv /\ BuildGroup => Inv'
  <1> SUFFICES ASSUME Inv, BuildGroup PROVE Inv'
    OBVIOUS
  <1>1. /\ at = "build" /\ job.op = "add" /\ job.g \in Groups
        /\ job.g \notin DOMAIN disk \cup DOMAIN config \cup DOMAIN live \cup vault \cup staged
    BY DEF Inv, ShapeInv, JobInv, BuildGroup
  <1>2. UNCHANGED <<disk, phase5, vault, staged, config, live, captured, halfway, used>>
    BY DEF BuildGroup, cookies
  <1>3. \/ at' = "commit" /\ UNCHANGED <<job, failed, faults>>
        \/ at' = "up" /\ job' = Idle /\ failed' = TRUE /\ faults' \in Nat /\ faults' # 0
    BY FaultCounts DEF Inv, BuildGroup, Fails
  <1>4. /\ lease' \in [Groups -> LeaseStates \cup {"none"}]
        /\ \A h \in Groups \ {job.g} : lease'[h] = lease[h]
    BY DEF Inv, ShapeInv, BuildGroup, LeaseStates
  <1>5. ShapeInv'
    BY <1>1, <1>2, <1>3, <1>4, ConfigConstants DEF Inv, ShapeInv, Opening, Serves, Idle
  <1>6. JobInv'
    BY <1>1, <1>2, <1>3 DEF Inv, JobInv, Deletes
  <1>7. SessionInv'
    BY <1>1, <1>2, <1>3 DEF Inv, SessionInv, SessionKept, Protects
  <1>8. HealInv'
    BY <1>1, <1>2, <1>3 DEF Inv, HealInv, Agrees, Serves, Deletes
  <1>9. OrphanInv'
    BY <1>1, <1>2, <1>3 DEF Inv, OrphanInv, Protects
  <1>10. StartInv'
    BY <1>1, <1>2, <1>3, <1>4 DEF Inv, ShapeInv, StartInv, Serves, Deletes, Protects
  <1> QED BY <1>5, <1>6, <1>7, <1>8, <1>9, <1>10 DEF Inv

\* A request to remove a group keeps it.
LEMMA GroupRemoveStep ==
    ASSUME Inv, NEW g \in Groups, GroupRemove(g)
    PROVE  Inv'
  <1>1. ShapeInv'
    BY DEF Inv, GroupRemove, files, cookies, history, ShapeInv, Opening, Serves,
       PolicyLevel, LeaseStates
  <1>2. JobInv'
    BY DEF Inv, GroupRemove, files, cookies, history, JobInv, Deletes
  <1>3. SessionInv'
    BY DEF Inv, GroupRemove, files, cookies, history, SessionInv, SessionKept, Protects
  <1>4. HealInv'
    BY DEF Inv, GroupRemove, files, cookies, history, HealInv, Agrees, Serves, Deletes
  <1>5. OrphanInv'
    BY DEF Inv, GroupRemove, files, cookies, history, OrphanInv, Protects
  <1>6. StartInv'
    BY DEF Inv, GroupRemove, files, cookies, history, StartInv, Serves, Deletes, Protects
  <1> QED BY <1>1, <1>2, <1>3, <1>4, <1>5, <1>6 DEF Inv

\* A request to change a policy keeps it: only an entry into Monitor deletes a vault, and a
\* request that stays in Monitor finds the runtime there.
LEMMA GroupSetPolicyStep ==
    ASSUME Inv, NEW g \in DOMAIN live, NEW p \in PolicyLevel, GroupSetPolicy(g, p)
    PROVE  Inv'
  <1> DEFINE entering == p = "monitor" /\ live[g].policy # "monitor"
             def == [config[g] EXCEPT !.policy = p]
  <1>1. /\ at = "up" /\ g \in Groups /\ (entering \/ g \in DOMAIN config)
        /\ at' = IF entering THEN "stage" ELSE "commit"
        /\ UNCHANGED <<disk, phase5, vault, staged, lease, config, live, captured, halfway,
                       used, failed, faults>>
    BY DEF Inv, ShapeInv, GroupSetPolicy, files, history
  <1>2. /\ job'.op = IF entering THEN "monitor" ELSE "policy"
        /\ job'.g = g
        /\ job'.def = IF g \in DOMAIN config THEN def ELSE <<>>
    BY DEF GroupSetPolicy
  <1>3. g \in DOMAIN config => def \in Definitions /\ def.policy = p
    BY DEF Inv, ShapeInv, Definitions
  <1>4. ShapeInv'
    BY <1>1, <1>2 DEF Inv, ShapeInv, Opening, Serves
  <1>5. JobInv'
    <2>1. CASE entering
      BY <1>1, <1>2, <1>3, <2>1 DEF Inv, JobInv, Deletes
    <2>2. CASE ~entering
      BY <1>1, <1>2, <1>3, <2>2 DEF Inv, JobInv, Deletes
    <2> QED BY <2>1, <2>2
  <1>6. SessionInv'
    BY <1>1 DEF Inv, SessionInv, SessionKept, Protects
  <1>7. HealInv'
    BY <1>1, <1>2 DEF Inv, HealInv, Agrees, Serves, Deletes
  <1>8. OrphanInv'
    BY <1>1, <1>2 DEF Inv, HealInv, Agrees, Serves, OrphanInv, Protects
  <1>9. StartInv'
    BY <1>1, <1>2 DEF Inv, StartInv, Serves, Deletes, Protects
  <1> QED BY <1>4, <1>5, <1>6, <1>7, <1>8, <1>9 DEF Inv

-----------------------------------------------------------------------------
(* The deletion in two steps.                                              *)

\* A request that fails, and leaves no deletion staged that it does not account for, keeps the
\* invariant.
LEMMA FailedRequest ==
    ASSUME Inv, at \in Serves, at' = "up", job' = Idle, failed' = TRUE, faults' \in Nat,
           faults' = 0 => faults = 0 /\ ~Deletes /\ at # "finish",
           UNCHANGED <<disk, phase5, vault, staged, config, live, captured, used>>,
           lease' \in [Groups -> LeaseStates \cup {"none"}],
           \A h \in vault \cup staged : lease'[h] = lease[h],
           halfway' = {} => halfway = {} /\ \A h \in staged : h \notin DOMAIN config \cup DOMAIN disk
    PROVE  Inv'
  <1>1. job'.op = "none" /\ job'.g = Wikipedia
    BY DEF Idle
  <1>2. ShapeInv'
    BY <1>1, ConfigConstants DEF Inv, ShapeInv, Opening, Serves
  <1>3. JobInv'
    BY <1>1 DEF Inv, JobInv
  <1>4. SessionInv'
    BY DEF Inv, SessionInv, SessionKept, Protects
  <1>5. HealInv'
    BY DEF Inv, HealInv, Agrees, Serves, Deletes
  <1>6. OrphanInv'
    BY DEF Inv, OrphanInv, Protects
  <1>7. StartInv'
    BY DEF Inv, StartInv, Serves, Deletes, Protects
  <1> QED BY <1>2, <1>3, <1>4, <1>5, <1>6, <1>7 DEF Inv

\* Staging keeps the invariant: the vault that is put aside is the only staged file that the
\* next start would have to undo.
LEMMA StageDeleteStep == Inv /\ StageDelete => Inv'
  <1> SUFFICES ASSUME Inv, StageDelete PROVE Inv'
    OBVIOUS
  <1>1. /\ at = "stage" /\ job.g \in Groups /\ job.g \in DOMAIN live /\ job.op \in {"remove", "monitor"}
        /\ UNCHANGED <<disk, phase5, lease, config, live, captured, halfway, used>>
    BY DEF Inv, ShapeInv, JobInv, Deletes, StageDelete, cookies
  <1>2. (~failed \/ faults = 0) => Agrees /\ staged = {} /\ DOMAIN live = DOMAIN config
    BY <1>1 DEF Inv, HealInv, Agrees, Serves, Deletes
  <1>3. \A h \in staged : halfway = {} => h \notin DOMAIN config \cup DOMAIN disk
    BY <1>1 DEF Inv, StartInv, Serves, Deletes, Protects
  <1>4. CASE Fails /\ UNCHANGED <<vault, staged>>
             /\ (Fault \/ (job.g \in vault /\ job.g \in staged /\ UNCHANGED faults))
    <2>1. faults' \in Nat /\ faults' # 0
      BY <1>2, <1>4, FaultCounts DEF Inv, ShapeInv
    <2> QED BY <1>1, <1>3, <1>4, <2>1, FailedRequest DEF Inv, ShapeInv, Fails, Serves
  <1>5. CASE /\ ~(job.g \in vault /\ job.g \in staged)
             /\ vault' = vault \ {job.g}
             /\ staged' = IF job.g \in vault THEN staged \cup {job.g} ELSE staged
             /\ IF job.op = "monitor" /\ job.def = <<>> THEN Answers
                ELSE at' = "commit" /\ UNCHANGED <<job, failed>>
             /\ UNCHANGED faults
    <2>1. /\ vault' = vault \ {job.g} /\ UNCHANGED <<failed, faults>>
          /\ staged' = IF job.g \in vault THEN staged \cup {job.g} ELSE staged
          /\ \/ at' = "up" /\ job' = Idle /\ job.g \notin DOMAIN config
             \/ at' = "commit" /\ UNCHANGED job
                /\ (job.op = "monitor" => job.g \in DOMAIN config /\ job.def \in Definitions
                                          /\ job.def.policy = "monitor")
      BY <1>1, <1>5, DefinitionNotEmpty DEF Inv, JobInv, Answers
    <2>2. ShapeInv'
      BY <1>1, <2>1, ConfigConstants DEF Inv, ShapeInv, Opening, Serves, Idle
    <2>3. JobInv'
      BY <1>1, <2>1 DEF Inv, JobInv, Deletes
    <2>4. SessionInv'
      BY <1>1, <2>1 DEF Inv, SessionInv, SessionKept, Protects
    <2>5. HealInv'
      <3>1. ~failed \/ faults = 0 => Agrees'
        BY <1>1, <1>2, <2>1 DEF Agrees, Deletes
      <3> QED BY <2>1, <3>1 DEF Inv, HealInv, Serves
    <2>6. OrphanInv'
      BY <1>1, <1>2, <2>1 DEF Inv, OrphanInv, Protects
    <2>7. StartInv'
      BY <1>1, <2>1 DEF Inv, StartInv, Serves, Deletes, Protects
    <2> QED BY <2>2, <2>3, <2>4, <2>5, <2>6, <2>7 DEF Inv
  <1> QED BY <1>4, <1>5 DEF StageDelete

\* What a commit writes is valid: the file keeps every group but the one the request names.
LEMMA WrittenShape ==
    ASSUME Inv, at = "commit"
    PROVE  /\ DOMAIN Candidate \subseteq DOMAIN config \cup {job.g}
           /\ DOMAIN Candidate \subseteq Groups /\ DOMAIN Candidate \subseteq used
           /\ \A g \in DOMAIN Candidate : Candidate[g] \in Definitions
           /\ \A g \in DOMAIN Candidate : g # job.g => g \in DOMAIN config /\ Candidate[g] = config[g]
           /\ DOMAIN config \ {job.g} \subseteq DOMAIN Candidate
           /\ job.g \in DOMAIN Candidate <=> job.op # "remove"
           /\ job.op # "remove" => Candidate[job.g] = job.def
           /\ job.op \in {"policy", "monitor"} => job.g \in DOMAIN config
           /\ job.op \in {"remove", "monitor"} => ~Protects(Candidate, job.g)
  <1>1. /\ DOMAIN config \subseteq Groups /\ DOMAIN config \subseteq used
        /\ job.g \in Groups /\ job.op \in {"add", "policy", "remove", "monitor"}
        /\ \A g \in DOMAIN config : config[g] \in Definitions
    BY DEF Inv, ShapeInv, JobInv
  <1>2. /\ job.op \in {"policy", "monitor"} => job.g \in DOMAIN config
        /\ job.op # "remove" => job.def \in Definitions /\ job.g \in used
        /\ job.op = "monitor" => job.def.policy = "monitor"
    BY <1>1 DEF Inv, JobInv
  <1> QED BY <1>1, <1>2, CandidateShape DEF Protects

\* A write that replaced the file keeps what the file promises about sessions and lease files.
LEMMA WrittenKeeps ==
    ASSUME Inv, at = "commit", Written, UNCHANGED <<vault, staged, lease, halfway>>
    PROVE  /\ \A g \in captured' : Protects(disk', g)
           /\ SessionKept'
           /\ halfway = {} =>
                 /\ \A g \in DOMAIN disk' : lease[g] = "uninitialized" => g \notin vault
                 /\ \A g \in staged : ~Protects(disk', g)
                 /\ \A g \in staged : g \notin DOMAIN config \cup DOMAIN disk' \/ (Deletes /\ g = job.g)
  <1>1. disk' = Candidate /\ captured' = {g \in captured \cup vault : Protects(Candidate, g)}
    BY DEF Written
  <1>2. (\A g \in captured' : Protects(disk', g)) /\ SessionKept'
    BY <1>1 DEF Inv, SessionInv, SessionKept, Protects
  <1>3. job.op = "add" => job.g \notin vault \cup staged
    BY DEF Inv, JobInv
  <1>4. ASSUME halfway = {}
        PROVE  \A g \in DOMAIN disk' : lease[g] = "uninitialized" => g \notin vault
    <2>1. \A g \in DOMAIN config : lease[g] = "uninitialized" => g \notin vault
      BY <1>4 DEF Inv, StartInv
    <2>2. job.op # "add" /\ job.g \in DOMAIN disk' => job.g \in DOMAIN config
      BY <1>1, WrittenShape DEF Inv, JobInv
    <2> QED BY <1>1, <1>3, <2>1, <2>2, WrittenShape
  <1>5. ASSUME halfway = {}, NEW g \in staged
        PROVE  g \notin DOMAIN config \cup DOMAIN disk' \/ (Deletes /\ g = job.g)
    <2>1. g \notin DOMAIN config \cup DOMAIN disk \/ (Deletes /\ g = job.g)
      BY <1>5 DEF Inv, StartInv, Serves
    <2>2. g = job.g /\ ~Deletes => job.g \in DOMAIN config
      BY <1>3, WrittenShape DEF Inv, JobInv, Deletes
    <2> QED BY <1>1, <2>1, <2>2, WrittenShape
  <1>6. ASSUME halfway = {}, NEW g \in staged
        PROVE  ~Protects(disk', g)
    BY <1>1, <1>5, <1>6, WrittenShape DEF Protects, Deletes
  <1> QED BY <1>2, <1>4, <1>5, <1>6

\* Committing keeps the invariant.
LEMMA CommitConfigStep == Inv /\ CommitConfig => Inv'
  <1> SUFFICES ASSUME Inv, CommitConfig PROVE Inv'
    OBVIOUS
  <1>1. /\ at = "commit" /\ Written /\ disk' = Candidate /\ config' = Candidate
        /\ UNCHANGED <<phase5, vault, staged, lease, halfway, used, failed, faults>>
    BY DEF CommitConfig, Written, Answers, cookies
  <1>2. /\ DOMAIN live \subseteq Groups /\ DOMAIN live \subseteq used /\ job.g \in Groups
        /\ job.op \in {"add", "policy", "remove", "monitor"}
        /\ \A g \in DOMAIN live : live[g] \in [policy : PolicyLevel, lease : LeaseStates]
    BY <1>1 DEF Inv, ShapeInv, JobInv
  <1>3. /\ job.op # "remove" => job.def \in Definitions
        /\ job.op = "add" => /\ job.g \notin DOMAIN live /\ job.g \in used
                             /\ job.g \notin DOMAIN config \cup vault \cup staged
        /\ job.op # "add" => job.g \in DOMAIN live
        /\ job.op \in {"remove", "monitor"} => job.g \notin vault
        /\ job.op = "monitor" => job.def.policy = "monitor"
        /\ job.op = "policy" /\ job.def.policy = "monitor" => live[job.g].policy = "monitor"
    BY <1>1, <1>2 DEF Inv, JobInv, Deletes
  <1>4. /\ job.op \in {"add", "policy"} => at' = "up" /\ job' = Idle
        /\ job.op \in {"remove", "monitor"} => at' = "finish" /\ UNCHANGED job
    BY DEF CommitConfig, Answers
  <1>5. /\ DOMAIN live' = DOMAIN live \cup {job.g}
        /\ \A g \in DOMAIN live : g # job.g => live'[g] = live[g]
        /\ job.op = "add" => live'[job.g] = [policy |-> job.def.policy, lease |-> "uninitialized"]
        /\ job.op = "remove" => live'[job.g] = live[job.g]
        /\ job.op \in {"policy", "monitor"} =>
              live'[job.g] = [policy |-> job.def.policy, lease |-> live[job.g].lease]
    <2>1. CASE job.op = "add"
      BY <1>2, <1>3, <2>1 DEF CommitConfig, With
    <2>2. CASE job.op = "remove"
      BY <1>2, <1>3, <2>2 DEF CommitConfig
    <2>3. CASE job.op \in {"policy", "monitor"}
      BY <1>2, <1>3, <2>3 DEF CommitConfig
    <2> QED BY <1>2, <2>1, <2>2, <2>3
  <1>6. ShapeInv'
    <2>1. \A g \in DOMAIN live' : live'[g] \in [policy : PolicyLevel, lease : LeaseStates]
      BY <1>2, <1>3, <1>5 DEF Definitions, LeaseStates
    <2>2. at' \in {"up", "finish"} /\ job'.g \in Groups
      BY <1>2, <1>4, ConfigConstants DEF Idle
    <2> QED BY <1>1, <1>2, <1>5, <2>1, <2>2, WrittenShape DEF Inv, ShapeInv, Serves
  <1>7. JobInv'
    BY <1>1, <1>2, <1>3, <1>4, <1>5, WrittenShape DEF Inv, JobInv, Deletes, Idle
  <1>8. SessionInv'
    <2>1. at' = "finish" => ~Protects(disk', job'.g)
      BY <1>1, <1>2, <1>4, WrittenShape
    <2>2. at' = "finish" /\ job'.op = "remove" => job'.g \notin DOMAIN disk'
      BY <1>1, <1>2, <1>4, WrittenShape
    <2> QED BY <1>1, <1>2, <1>4, <2>1, <2>2, WrittenKeeps DEF SessionInv
  <1>9. Agrees => Agrees'
    <2> SUFFICES ASSUME Agrees PROVE Agrees'
      OBVIOUS
    <2>1. DOMAIN live = DOMAIN config /\ \A g \in DOMAIN config : live[g].policy = config[g].policy
      BY <1>1 DEF Agrees
    <2>2. staged \subseteq IF Deletes THEN {job.g} ELSE {}
      BY <1>1 DEF Agrees
    <2>3. config' = disk'
      BY <1>1
    <2>4. staged' \subseteq IF at' \in {"commit", "rollback", "finish"} /\ Deletes' THEN {job'.g} ELSE {}
      BY <1>1, <1>2, <1>4, <2>2 DEF Deletes
    <2>5. DOMAIN live' = DOMAIN config' \cup (IF at' = "finish" /\ job'.op = "remove" THEN {job'.g} ELSE {})
      BY <1>1, <1>2, <1>3, <1>4, <1>5, <2>1, WrittenShape
    <2>6. \A g \in DOMAIN config' : live'[g].policy = config'[g].policy
      BY <1>1, <1>2, <1>3, <1>5, <2>1, WrittenShape
    <2> QED BY <2>3, <2>4, <2>5, <2>6 DEF Agrees
  <1>10. HealInv'
    BY <1>1, <1>2, <1>4, <1>9 DEF Inv, HealInv, Serves
  <1>11. OrphanInv'
    <2> SUFFICES ASSUME faults = 0
                 PROVE  /\ \A g \in vault : Protects(disk', g)
                        /\ \A g \in DOMAIN live' :
                              live'[g].policy = "monitor" /\ ~(at' = "finish" /\ g = job'.g) =>
                              live'[g].lease = "uninitialized"
      BY <1>1, <1>2, <1>4 DEF OrphanInv
    <2>1. Agrees
      BY <1>1 DEF Inv, HealInv, Serves
    <2>2. config = disk /\ \A g \in DOMAIN config : live[g].policy = config[g].policy
      BY <2>1 DEF Agrees
    <2>3. \A g \in vault : Protects(config, g)
      BY <2>2 DEF Inv, OrphanInv
    <2>4. \A g \in DOMAIN live : live[g].policy = "monitor" => live[g].lease = "uninitialized"
      BY <1>1 DEF Inv, OrphanInv
    <2>5. \A g \in vault : Protects(disk', g)
      <3> SUFFICES ASSUME NEW g \in vault PROVE Protects(Candidate, g)
        BY <1>1
      <3>1. CASE g # job.g
        BY <1>1, <2>3, <3>1, WrittenShape DEF Protects
      <3>2. CASE g = job.g
        <4>1. job.op = "policy" /\ job.def.policy \in PolicyLevel
          BY <1>2, <1>3, <3>2 DEF Definitions
        <4>2. job.def.policy # "monitor"
          BY <1>3, <2>2, <2>3, <3>2, <4>1 DEF Protects
        <4> QED BY <1>1, <3>2, <4>1, <4>2, WrittenShape DEF Protects, PolicyLevel
      <3> QED BY <3>1, <3>2
    <2>6. ASSUME NEW g \in DOMAIN live', live'[g].policy = "monitor", ~(at' = "finish" /\ g = job'.g)
          PROVE  live'[g].lease = "uninitialized"
      <3>1. CASE g # job.g
        BY <1>5, <2>4, <2>6, <3>1
      <3>2. CASE g = job.g
        BY <1>2, <1>3, <1>4, <1>5, <2>4, <2>6, <3>2
      <3> QED BY <3>1, <3>2
    <2> QED BY <2>5, <2>6
  <1>12. StartInv'
    <2>1. halfway = {} =>
            /\ \A g \in DOMAIN disk' : lease[g] = "uninitialized" => g \notin vault
            /\ \A g \in staged : ~Protects(disk', g)
            /\ \A g \in staged : g \notin DOMAIN disk' \/ (at' = "finish" /\ Deletes' /\ g = job'.g)
      BY <1>1, <1>4, WrittenKeeps DEF Deletes
    <2> QED BY <1>1, <1>2, <1>4, <2>1 DEF StartInv
  <1> QED BY <1>6, <1>7, <1>8, <1>10, <1>11, <1>12 DEF Inv

\* A failed commit keeps it, before and after the file was replaced.
LEMMA CommitFailsStep == Inv /\ CommitFails => Inv'
  <1> SUFFICES ASSUME Inv, CommitFails PROVE Inv'
    OBVIOUS
  <1>1. /\ at = "commit" /\ job.g \in Groups /\ job.op \in {"add", "policy", "remove", "monitor"}
        /\ UNCHANGED <<phase5, vault, staged, lease, config, live, halfway, used>>
        /\ faults \in Nat /\ lease \in [Groups -> LeaseStates \cup {"none"}]
    BY DEF Inv, ShapeInv, JobInv, CommitFails, cookies
  <1>2. IF Deletes THEN at' = "rollback" /\ UNCHANGED <<job, failed>>
        ELSE at' = "up" /\ job' = Idle /\ failed' = TRUE
    BY DEF CommitFails, Fails, Deletes
  <1>3. halfway = {} => \A g \in staged : g \notin DOMAIN config \cup DOMAIN disk \/ (Deletes /\ g = job.g)
    BY <1>1 DEF Inv, StartInv, Serves
  <1>4. CASE UNCHANGED <<disk, captured>>
    <2>1. faults' \in Nat /\ (faults' = 0 => faults = 0)
      BY <1>1, FaultCounts DEF Inv, CommitFails
    <2>2. CASE ~Deletes
      BY <1>1, <1>2, <1>3, <1>4, <2>1, <2>2, FailedRequest DEF Serves
    <2>3. CASE Deletes
      <3>1. at' = "rollback" /\ UNCHANGED <<job, failed>>
        BY <1>2, <2>3
      <3>2. ShapeInv'
        BY <1>1, <1>4, <2>1, <3>1 DEF Inv, ShapeInv, Serves
      <3>3. JobInv'
        BY <1>1, <1>4, <2>3, <3>1 DEF Inv, JobInv, Deletes
      <3>4. SessionInv'
        BY <1>1, <1>4, <3>1 DEF Inv, SessionInv, SessionKept, Protects
      <3>5. HealInv'
        BY <1>1, <1>4, <2>1, <3>1 DEF Inv, HealInv, Agrees, Serves, Deletes
      <3>6. OrphanInv'
        BY <1>1, <1>4, <2>1, <3>1 DEF Inv, OrphanInv, Protects
      <3>7. StartInv'
        BY <1>1, <1>4, <3>1 DEF Inv, StartInv, Serves, Deletes, Protects
      <3> QED BY <3>2, <3>3, <3>4, <3>5, <3>6, <3>7 DEF Inv
    <2> QED BY <2>2, <2>3
  <1>5. CASE Fault /\ Written
    <2>1. faults' \in Nat /\ faults' # 0 /\ disk' = Candidate
      BY <1>5, FaultCounts DEF Inv, Written
    <2>2. at' \in {"up", "rollback"} /\ job'.g \in Groups /\ (at' = "up" => failed' = TRUE)
      BY <1>1, <1>2, ConfigConstants DEF Idle
    <2>3. /\ at' = "rollback" => Deletes /\ UNCHANGED job
          /\ at' = "up" => ~Deletes /\ job'.op = "none"
      BY <1>2 DEF Idle
    <2>4. /\ \A g \in captured' : Protects(disk', g)
          /\ SessionKept'
          /\ halfway = {} =>
                /\ \A g \in DOMAIN disk' : lease[g] = "uninitialized" => g \notin vault
                /\ \A g \in staged : ~Protects(disk', g)
                /\ \A g \in staged : g \notin DOMAIN config \cup DOMAIN disk' \/ (Deletes /\ g = job.g)
      BY <1>1, <1>5, WrittenKeeps
    <2>5. ShapeInv'
      BY <1>1, <2>1, <2>2, WrittenShape DEF Inv, ShapeInv, Serves
    <2>6. JobInv'
      BY <1>1, <2>1, <2>3, <2>2, WrittenShape DEF Inv, JobInv, Deletes
    <2>7. SessionInv'
      BY <2>2, <2>4 DEF SessionInv
    <2>8. HealInv'
      BY <2>1, <2>2 DEF HealInv, Serves
    <2>9. OrphanInv'
      BY <2>1 DEF OrphanInv
    <2>10. StartInv'
      <3>1. (DOMAIN live' \ DOMAIN config') \cap DOMAIN disk' = {}
        <4>1. (DOMAIN live \ DOMAIN config) \cap DOMAIN disk = {}
          BY <1>1 DEF Inv, StartInv, Serves
        <4>2. job.op = "add" => job.g \notin DOMAIN live
          BY <1>1 DEF Inv, JobInv
        <4> QED BY <1>1, <2>1, <4>1, <4>2, WrittenShape
      <3>2. halfway = {} => \A g \in DOMAIN config : lease[g] = "uninitialized" => g \notin vault
        BY DEF Inv, StartInv
      <3>3. halfway = {} /\ Deletes /\ job.g \in staged /\ job.g \in DOMAIN config =>
              lease[job.g] # "uninitialized"
        BY <1>1 DEF Inv, StartInv
      <3> QED BY <1>1, <2>2, <2>3, <2>4, <3>1, <3>2, <3>3 DEF StartInv, Deletes
    <2> QED BY <2>5, <2>6, <2>7, <2>8, <2>9, <2>10 DEF Inv
  <1> QED BY <1>4, <1>5 DEF CommitFails

\* Undoing a staged deletion keeps it: the vault comes back beside a lease that admits it.
LEMMA RollbackStep == Inv /\ Rollback => Inv'
  <1> SUFFICES ASSUME Inv, Rollback PROVE Inv'
    OBVIOUS
  <1>1. /\ at = "rollback" /\ job.g \in Groups /\ job.op \in {"remove", "monitor"}
        /\ job.g \in DOMAIN live /\ job.g \in used
        /\ at' = "up" /\ job' = Idle /\ failed' = TRUE
        /\ UNCHANGED <<disk, phase5, lease, config, live, captured, used>>
        /\ faults \in Nat /\ lease \in [Groups -> LeaseStates \cup {"none"}]
    BY DEF Inv, ShapeInv, JobInv, Deletes, Rollback, Fails, cookies
  <1>2. halfway = {} => \A g \in staged : g \notin DOMAIN config \cup DOMAIN disk \/ g = job.g
    BY <1>1 DEF Inv, StartInv, Serves
  <1>3. CASE Fault /\ halfway' = halfway \cup ({job.g} \cap staged) /\ UNCHANGED <<vault, staged>>
    <2>1. faults' \in Nat /\ faults' # 0
      BY <1>3, FaultCounts DEF Inv
    <2>2. halfway' = {} => halfway = {} /\ job.g \notin staged
      BY <1>3
    <2> QED BY <1>1, <1>2, <1>3, <2>1, <2>2, FailedRequest DEF Serves
  <1>4. CASE /\ \/ job.g \in staged /\ job.g \notin vault /\ vault' = vault \cup {job.g}
                   /\ staged' = staged \ {job.g}
                \/ job.g \notin staged /\ UNCHANGED <<vault, staged>>
             /\ UNCHANGED <<halfway, faults>>
    <2>1. job'.op = "none" /\ job'.g \in Groups
      BY <1>1, ConfigConstants DEF Idle
    <2>2. /\ staged' = staged \ {job.g} /\ vault \subseteq vault' /\ vault' \subseteq vault \cup {job.g}
          /\ job.g \in vault' => job.g \in staged \cup vault
          /\ job.g \in vault => job.g \notin staged
      BY <1>4
    <2>3. ShapeInv'
      BY <1>1, <1>4, <2>1 DEF Inv, ShapeInv, Serves
    <2>4. JobInv'
      BY <1>1, <2>1, <2>2 DEF Inv, JobInv, Deletes
    <2>5. SessionInv'
      BY <1>1, <1>4 DEF Inv, SessionInv, SessionKept, Protects
    <2>6. HealInv'
      <3>1. faults = 0 => Agrees
        BY <1>1 DEF Inv, HealInv, Serves
      <3> QED BY <1>1, <1>4, <2>1, <2>2, <3>1 DEF HealInv, Agrees, Serves
    <2>7. OrphanInv'
      BY <1>1, <1>4, <2>1, <2>2 DEF Inv, OrphanInv, Protects
    <2>8. StartInv'
      <3>1. (DOMAIN live \ DOMAIN config) \cap DOMAIN disk = {}
        BY <1>1 DEF Inv, StartInv, Serves
      <3>2. halfway = {} /\ job.g \in staged /\ job.g \in DOMAIN config \cup DOMAIN disk =>
              lease[job.g] # "uninitialized"
        BY <1>1, <3>1 DEF Inv, StartInv, Deletes
      <3>3. halfway = {} => /\ \A g \in DOMAIN disk \cup DOMAIN config :
                                  lease[g] = "uninitialized" => g \notin vault
                            /\ \A g \in staged : Protects(disk, g) => lease[g] # "uninitialized"
        BY DEF Inv, StartInv
      <3>4. \A g \in vault' : g \in vault \/ (g = job.g /\ g \in staged)
        BY <2>2
      <3> QED BY <1>1, <1>2, <1>4, <2>1, <2>2, <3>1, <3>2, <3>3, <3>4 DEF StartInv
    <2> QED BY <2>3, <2>4, <2>5, <2>6, <2>7, <2>8 DEF Inv
  <1> QED BY <1>3, <1>4 DEF Rollback

\* Finishing a deletion keeps it: the file no longer protects the group.
LEMMA FinishDeleteStep == Inv /\ FinishDelete => Inv'
  <1> SUFFICES ASSUME Inv, FinishDelete PROVE Inv'
    OBVIOUS
  <1>1. /\ at = "finish" /\ job.g \in Groups /\ job.op \in {"remove", "monitor"}
        /\ job.g \in DOMAIN live /\ job.g \notin vault /\ config = disk
        /\ ~Protects(disk, job.g) /\ (job.op = "remove" => job.g \notin DOMAIN disk)
        /\ UNCHANGED <<disk, phase5, vault, lease, config, captured, used>>
        /\ faults \in Nat /\ lease \in [Groups -> LeaseStates \cup {"none"}]
    BY DEF Inv, ShapeInv, JobInv, SessionInv, Deletes, FinishDelete, cookies
  <1>2. halfway = {} => \A g \in staged : g \notin DOMAIN config \cup DOMAIN disk \/ g = job.g
    BY <1>1 DEF Inv, StartInv, Serves
  <1>3. CASE Fault /\ Fails /\ halfway' = halfway \cup ({job.g} \cap staged) /\ UNCHANGED <<staged, live>>
    <2>1. faults' \in Nat /\ faults' # 0
      BY <1>3, FaultCounts DEF Inv
    <2>2. halfway' = {} => halfway = {} /\ job.g \notin staged
      BY <1>3
    <2> QED BY <1>1, <1>2, <1>3, <2>1, <2>2, FailedRequest DEF Fails, Serves
  <1>4. CASE /\ staged' = staged \ {job.g}
             /\ \/ job.op = "remove" /\ live' = Restrict(live, DOMAIN live \ {job.g}) /\ at' = "project"
                \/ /\ job.op = "monitor" /\ at' = "persist"
                   /\ live' = [live EXCEPT ![job.g].lease = "uninitialized"]
             /\ UNCHANGED <<job, failed, halfway, faults>>
    <2>1. /\ UNCHANGED <<job, failed, halfway, faults>> /\ staged' = staged \ {job.g}
          /\ job.op = "remove" => at' = "project"
          /\ job.op = "monitor" => at' = "persist"
          /\ at' \in {"project", "persist"}
      BY <1>1, <1>4
    <2>2. /\ DOMAIN live' = IF job.op = "remove" THEN DOMAIN live \ {job.g} ELSE DOMAIN live
          /\ \A g \in DOMAIN live' : g # job.g => live'[g] = live[g]
          /\ job.g \in DOMAIN live' =>
                live'[job.g] = [policy |-> live[job.g].policy, lease |-> "uninitialized"]
      <3>1. CASE job.op = "remove"
        BY <1>4, <3>1 DEF Restrict
      <3>2. CASE job.op = "monitor"
        BY <1>1, <1>4, <3>2 DEF Inv, ShapeInv
      <3> QED BY <1>1, <3>1, <3>2
    <2>3. ShapeInv'
      <3>1. \A g \in DOMAIN live' : live'[g] \in [policy : PolicyLevel, lease : LeaseStates]
        BY <2>2 DEF Inv, ShapeInv, LeaseStates
      <3> QED BY <1>1, <2>1, <2>2, <3>1 DEF Inv, ShapeInv, Serves
    <2>4. JobInv'
      BY <1>1, <2>1, <2>2 DEF Inv, JobInv, Deletes
    <2>5. SessionInv'
      BY <1>1, <2>1 DEF Inv, SessionInv, SessionKept, Protects
    <2>6. HealInv'
      <3>1. (~failed \/ faults = 0) => Agrees
        BY <1>1 DEF Inv, HealInv, Serves
      <3>2. Agrees => Agrees'
        BY <1>1, <2>1, <2>2 DEF Agrees, Deletes
      <3> QED BY <1>1, <2>1, <3>1, <3>2 DEF HealInv, Serves
    <2>7. OrphanInv'
      BY <1>1, <2>1, <2>2 DEF Inv, OrphanInv, Protects
    <2>8. StartInv'
      BY <1>1, <1>2, <2>1, <2>2 DEF Inv, StartInv, Serves, Deletes, Protects
    <2> QED BY <2>3, <2>4, <2>5, <2>6, <2>7, <2>8 DEF Inv
  <1> QED BY <1>3, <1>4 DEF FinishDelete

\* Removing the files of a removed group keeps it.
LEMMA RemoveProjectionsStep == Inv /\ RemoveProjections => Inv'
  <1> SUFFICES ASSUME Inv, RemoveProjections PROVE Inv'
    OBVIOUS
  <1>1. /\ at = "project" /\ at' = "up" /\ job' = Idle
        /\ UNCHANGED <<disk, phase5, vault, staged, config, live, captured, halfway, used, failed>>
    BY DEF RemoveProjections, Answers, cookies
  <1>2. faults' \in Nat /\ (faults' = 0 => faults = 0)
    BY FaultCounts DEF Inv, ShapeInv, RemoveProjections
  <1>3. /\ lease' \in [Groups -> LeaseStates \cup {"none"}]
        /\ \A g \in Groups : lease'[g] = "uninitialized" => lease[g] = "uninitialized"
    BY DEF Inv, ShapeInv, RemoveProjections
  <1>4. job'.op = "none" /\ job'.g \in Groups
    BY <1>1, ConfigConstants DEF Idle
  <1>5. ShapeInv'
    BY <1>1, <1>2, <1>3, <1>4 DEF Inv, ShapeInv, Serves
  <1>6. JobInv'
    BY <1>1, <1>4 DEF Inv, JobInv
  <1>7. SessionInv'
    BY <1>1 DEF Inv, SessionInv, SessionKept, Protects
  <1>8. HealInv'
    BY <1>1, <1>2, <1>4 DEF Inv, HealInv, Agrees, Serves, Deletes
  <1>9. OrphanInv'
    BY <1>1, <1>2 DEF Inv, OrphanInv, Protects
  <1>10. StartInv'
    BY <1>1, <1>3, <1>4 DEF Inv, ShapeInv, StartInv, Serves, Deletes, Protects
  <1> QED BY <1>5, <1>6, <1>7, <1>8, <1>9, <1>10 DEF Inv

\* Writing the lease of a group that entered Monitor keeps it: its vault is gone.
LEMMA PersistLeaseStep == Inv /\ PersistLease => Inv'
  <1> SUFFICES ASSUME Inv, PersistLease PROVE Inv'
    OBVIOUS
  <1>1. /\ at = "persist" /\ at' = "up" /\ job' = Idle /\ job.g \notin vault \cup staged
        /\ UNCHANGED <<disk, phase5, vault, staged, config, live, captured, halfway, used>>
    BY DEF Inv, JobInv, PersistLease, Answers, Fails, cookies
  <1>2. \/ UNCHANGED <<failed, faults>>
        \/ failed' = TRUE /\ faults' \in Nat /\ faults' # 0
    BY FaultCounts DEF Inv, PersistLease, Answers, Fails
  <1>3. /\ lease' \in [Groups -> LeaseStates \cup {"none"}]
        /\ \A g \in Groups \ {job.g} : lease'[g] = lease[g]
    BY DEF Inv, ShapeInv, PersistLease, LeaseStates
  <1>4. job'.op = "none" /\ job'.g \in Groups
    BY <1>1, ConfigConstants DEF Idle
  <1>5. ShapeInv'
    BY <1>1, <1>2, <1>3, <1>4 DEF Inv, ShapeInv, Serves
  <1>6. JobInv'
    BY <1>1, <1>4 DEF Inv, JobInv
  <1>7. SessionInv'
    BY <1>1 DEF Inv, SessionInv, SessionKept, Protects
  <1>8. HealInv'
    BY <1>1, <1>2, <1>4 DEF Inv, HealInv, Agrees, Serves, Deletes
  <1>9. OrphanInv'
    BY <1>1, <1>2 DEF Inv, OrphanInv, Protects
  <1>10. StartInv'
    BY <1>1, <1>3, <1>4 DEF Inv, ShapeInv, JobInv, StartInv, Serves, Deletes, Protects
  <1> QED BY <1>5, <1>6, <1>7, <1>8, <1>9, <1>10 DEF Inv

-----------------------------------------------------------------------------
(* The runtimes.                                                           *)

\* A runtime that changes its lease, and its vault along with it, keeps the invariant.
LEMMA RuntimeStep ==
    ASSUME Inv, NEW g \in DOMAIN live, NEW s \in LeaseStates, SetLease(g, s), at = "up",
           UNCHANGED Elsewhere,
           vault' \ {g} = vault \ {g},
           s = "uninitialized" => g \notin vault',
           \A h \in captured' : h \in captured \/ (h = g /\ Protects(disk, g)),
           g \in captured' => g \in vault' \/ (g \in captured /\ vault' = vault),
           live[g].policy = "monitor" /\ live[g].lease = "uninitialized" =>
               s = "uninitialized" /\ (g \in vault' => g \in vault)
    PROVE  Inv'
  <1>1. /\ UNCHANGED <<disk, phase5, staged, config, at, job, halfway, used, failed, faults>>
        /\ g \in Groups /\ g \in used
    BY DEF Inv, ShapeInv, JobInv, Elsewhere
  <1>2. /\ DOMAIN live' = DOMAIN live
        /\ live'[g] = [policy |-> live[g].policy, lease |-> s]
        /\ \A h \in DOMAIN live \ {g} : live'[h] = live[h]
        /\ lease' \in [Groups -> LeaseStates \cup {"none"}] /\ lease'[g] = s
        /\ \A h \in Groups \ {g} : lease'[h] = lease[h]
    BY SetLeaseShape DEF Inv
  <1>3. ShapeInv'
    <2>1. \A h \in DOMAIN live' : live'[h] \in [policy : PolicyLevel, lease : LeaseStates]
      BY <1>2 DEF Inv, ShapeInv
    <2> QED BY <1>1, <1>2, <2>1 DEF Inv, ShapeInv
  <1>4. JobInv'
    BY <1>1, <1>2 DEF Inv, JobInv, Deletes
  <1>5. SessionInv'
    BY <1>1 DEF Inv, SessionInv, SessionKept, Protects
  <1>6. Agrees => Agrees'
    BY <1>1, <1>2 DEF Agrees, Deletes
  <1>7. HealInv'
    BY <1>1, <1>6 DEF Inv, HealInv, Serves
  <1>8. OrphanInv'
    <2> SUFFICES ASSUME faults = 0
                 PROVE  /\ \A h \in vault' : Protects(disk, h)
                        /\ \A h \in DOMAIN live' : live'[h].policy = "monitor" =>
                              live'[h].lease = "uninitialized"
      BY <1>1 DEF OrphanInv
    <2>1. /\ \A h \in vault : Protects(disk, h)
          /\ \A h \in DOMAIN live : live[h].policy = "monitor" => live[h].lease = "uninitialized"
      BY DEF Inv, OrphanInv
    <2>2. live[g].policy # "monitor" => Protects(disk, g)
      BY DEF Inv, HealInv, Agrees, Serves, ShapeInv, PolicyLevel, Protects
    <2>3. g \in vault' => Protects(disk, g)
      BY <2>1, <2>2
    <2> QED BY <1>2, <2>1, <2>3
  <1>9. StartInv'
    <2>1. halfway = {} => \A h \in staged : h \notin DOMAIN config \cup DOMAIN disk
      BY DEF Inv, StartInv, Serves
    <2> QED BY <1>1, <1>2, <2>1 DEF Inv, ShapeInv, StartInv, Serves, Deletes, Protects
  <1> QED BY <1>3, <1>4, <1>5, <1>7, <1>8, <1>9 DEF Inv

\* A step that leaves all but the browser alone keeps it.
LEMMA BrowserStep ==
    ASSUME Inv, UNCHANGED <<disk, phase5, vault, staged, lease, config, live, at, job,
                            captured, halfway, used, failed, faults>>
    PROVE  Inv'
  <1>1. ShapeInv' /\ JobInv'
    BY DEF Inv, ShapeInv, JobInv, Deletes
  <1>2. SessionInv' /\ HealInv'
    BY DEF Inv, SessionInv, SessionKept, HealInv, Agrees, Deletes
  <1>3. OrphanInv' /\ StartInv'
    BY DEF Inv, OrphanInv, StartInv, Deletes
  <1> QED BY <1>1, <1>2, <1>3 DEF Inv

\* What a runtime does between two requests keeps it.
LEMMA RuntimesStep ==
    ASSUME Inv, NEW g \in Groups,
           SignIn(g) \/ Enroll(g) \/ Seal(g) \/ Unlock(g) \/ InjectResult(g) \/ Invalidate(g)
    PROVE  Inv'
  <1>1. CASE SignIn(g)
    BY <1>1, BrowserStep DEF SignIn, files, memory, history
  <1>2. CASE Enroll(g)
    <2>1. "leased" \in LeaseStates
      BY DEF LeaseStates
    <2> QED BY <1>2, <2>1, RuntimeStep DEF Enroll, Serving
  <1>3. CASE Seal(g)
    <2>1. "sealed" \in LeaseStates
      BY DEF LeaseStates
    <2> QED BY <1>3, <2>1, RuntimeStep DEF Seal, Serving
  <1>4. CASE Unlock(g)
    <2>1. "leased" \in LeaseStates
      BY DEF LeaseStates
    <2> QED BY <1>4, <2>1, RuntimeStep DEF Unlock, Serving
  <1>5. CASE InjectResult(g)
    <2>1. CASE UNCHANGED <<live, lease>>
      BY <1>5, <2>1, BrowserStep DEF InjectResult, Elsewhere
    <2>2. CASE live[g].lease = "leased" /\ SetLease(g, "degraded")
      <3>1. "degraded" \in LeaseStates
        BY DEF LeaseStates
      <3> QED BY <1>5, <2>2, <3>1, RuntimeStep DEF InjectResult, Serving
    <2> QED BY <1>5, <2>1, <2>2 DEF InjectResult
  <1>6. CASE Invalidate(g)
    <2>1. "uninitialized" \in LeaseStates
      BY DEF LeaseStates
    <2> QED BY <1>6, <2>1, RuntimeStep DEF Invalidate, Serving
  <1> QED BY <1>1, <1>2, <1>3, <1>4, <1>5, <1>6

-----------------------------------------------------------------------------
(* The invariant, and what follows from it.                                *)

\* A fresh profile and an old installation satisfy the invariant.
LEMMA InvInit == Init => Inv
  <1> SUFFICES ASSUME Init PROVE Inv
    OBVIOUS
  <1>1. /\ DOMAIN config = {} /\ DOMAIN live = {} /\ at = "down" /\ staged = {}
        /\ job.op = "none" /\ job.g = Wikipedia /\ halfway = {} /\ faults = 0
        /\ captured = vault /\ lease = [g \in Groups |-> "none"]
    BY DEF Init, NoConfig, Idle
  <1>2. /\ DOMAIN disk \subseteq Groups /\ DOMAIN disk \subseteq used /\ vault \subseteq used
        /\ \A g \in DOMAIN disk : disk[g] \in Definitions
        /\ \A g \in vault : Protects(disk, g)
        /\ phase5 \in {"none", "sealed"}
    BY ConfigConstants DEF Init, NoConfig, With, Definitions, PolicyLevel, Protects
  <1>3. ShapeInv /\ JobInv
    BY <1>1, <1>2, ConfigConstants DEF ShapeInv, JobInv, LeaseStates
  <1>4. SessionInv /\ HealInv
    BY <1>1, <1>2 DEF SessionInv, SessionKept, HealInv, Serves
  <1>5. OrphanInv /\ StartInv
    BY <1>1, <1>2 DEF OrphanInv, StartInv, Serves
  <1> QED BY <1>3, <1>4, <1>5 DEF Inv

\* Every step keeps the invariant.
LEMMA InvNext == Inv /\ [Next]_vars => Inv'
  <1> SUFFICES ASSUME Inv, [Next]_vars PROVE Inv'
    OBVIOUS
  <1>1. CASE UNCHANGED vars
    BY <1>1, BrowserStep DEF vars, files, memory, history
  <1>2. CASE Start \/ LoadConfig \/ RecoverStaged \/ OpenGroup \/ StartFails \/ Crash
    BY <1>2, StartStep, LoadConfigStep, RecoverStagedStep, OpenGroupStep, EndStep
  <1>3. ASSUME NEW g \in Groups, NEW s \in Scopes, NEW p \in PolicyLevel, GroupAdd(g, s, p)
        PROVE  Inv'
    BY <1>3, GroupAddStep
  <1>4. ASSUME NEW g \in Groups, GroupRemove(g) PROVE Inv'
    BY <1>4, GroupRemoveStep
  <1>5. ASSUME NEW g \in DOMAIN live, NEW p \in PolicyLevel, GroupSetPolicy(g, p) PROVE Inv'
    BY <1>5, GroupSetPolicyStep
  <1>6. CASE BuildGroup \/ StageDelete \/ CommitConfig \/ CommitFails \/ Rollback \/ FinishDelete
    BY <1>6, BuildGroupStep, StageDeleteStep, CommitConfigStep, CommitFailsStep, RollbackStep,
       FinishDeleteStep
  <1>7. CASE RemoveProjections \/ PersistLease
    BY <1>7, RemoveProjectionsStep, PersistLeaseStep
  <1>8. ASSUME NEW g \in Groups,
               SignIn(g) \/ Enroll(g) \/ Seal(g) \/ Unlock(g) \/ InjectResult(g) \/ Invalidate(g)
        PROVE  Inv'
    BY <1>8, RuntimesStep
  <1> QED BY <1>1, <1>2, <1>3, <1>4, <1>5, <1>6, <1>7, <1>8 DEF Next

\* The invariant holds in every reachable state.
LEMMA InvHolds == Spec => []Inv
  BY InvInit, InvNext, PTL DEF Spec

\* A session in the vault survives every failed or interrupted group.remove and
\* group.set_policy, until the configuration file stops protecting its group.
THEOREM SessionSurvives == Spec => []SessionKept
  <1>1. Inv => SessionKept
    BY DEF Inv, SessionInv
  <1> QED BY <1>1, InvHolds, PTL

\* A start undoes or finishes what an earlier host left half done: while no request has failed
\* since, the runtimes are those of the file and no deletion is staged.
THEOREM RestartAlwaysHeals == Spec => []RestartHeals
  <1>1. Inv => RestartHeals
    BY DEF Inv, HealInv, Agrees, Serves, RestartHeals
  <1> QED BY <1>1, InvHolds, PTL

\* No sequence of requests, kills and failed writes leaves a vault beside a lease file that
\* load_or_initialize refuses, unless a staged deletion could neither be finished nor undone.
THEOREM HostStaysStartable == Spec => []Startable
  <1>1. Inv => Startable
    BY DEF Inv, StartInv, Startable
  <1> QED BY <1>1, InvHolds, PTL

\* Without I/O errors no vault outlives the protection of its group, wherever the host is killed.
THEOREM NoVaultOutlives == Spec => []NoOrphan
  <1>1. Inv => NoOrphan
    BY DEF Inv, OrphanInv, NoOrphan
  <1> QED BY <1>1, InvHolds, PTL

=============================================================================
