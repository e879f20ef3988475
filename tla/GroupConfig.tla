---------------------------- MODULE GroupConfig ----------------------------
(***************************************************************************)
(* The account groups of one profile: the configuration file, the live     *)
(* runtimes, and the two-step deletion of a vault that group.remove and a  *)
(* change to the Monitor policy perform around the commit of the           *)
(* configuration (native-host/src/dispatcher.rs handle_group_add,          *)
(* handle_group_remove, handle_group_set_policy, NativeHostApp::open;      *)
(* vault/store.rs; config.rs).                                             *)
(*                                                                         *)
(* Every change of a file is one action; the host may be killed before     *)
(* each of them.  What a group does between two changes of the             *)
(* configuration (enrolling, sealing, unlocking) is one action per         *)
(* operation here and a module of its own, GroupRuntime.  The three        *)
(* protecting policies differ in durations only and are "protect".  The    *)
(* audit line at the end of a handler is left to AuditLog: its failure     *)
(* changes the answer and nothing that is modelled here.                   *)
(***************************************************************************)
EXTENDS Integers, FiniteSets, Functions

CONSTANTS
    Groups,      \* group ids; group.add draws a fresh one
    Scopes,      \* scopes that a request may name
    Nested,      \* pairs {s, t} of scopes, one a subdomain of the other
    Invalid,     \* scopes that are no registrable domain
    Wikipedia,   \* WIKIPEDIA_ACCOUNT_GROUP_ID, the group of old installations
    MaxGroups,   \* MAX_GROUPS
    MaxFaults    \* I/O errors

ASSUME ConfigConstants ==
    /\ Nested \subseteq SUBSET Scopes
    /\ Invalid \subseteq Scopes
    /\ Wikipedia \in Groups
    /\ MaxGroups \in Nat /\ MaxFaults \in Nat

VARIABLES
    disk,       \* account-groups.json: group id to scope and policy
    legacy,     \* that file has version 2
    leftover,   \* a killed host left its temporary file
    phase5,     \* the state in leases/mvp-group.json, "none" without it
    vault,      \* groups with a vault file
    staged,     \* groups with a .delete-pending file
    lease,      \* the state in each group's lease file, "none" without it
    config,     \* NativeHostApp.config
    live,       \* NativeHostApp.groups: policy and lease state of each runtime
    at,         \* what the host does next; "down" when there is none
    job,        \* the request in progress
    browser,    \* groups whose session cookies are in the browser
    restoring,  \* groups whose cookies are on their way from the host to the browser
    session,    \* groups with a session that the user has not ended
    captured,   \* history: groups with a session in the vault that the file protects
    halfway,    \* history: groups whose staged deletion was neither finished nor undone
    used,       \* group ids ever drawn
    failed,     \* history: a request failed since the host started
    faults

files == <<disk, legacy, leftover, phase5, vault, staged, lease>>
memory == <<config, live, at, job>>
history == <<captured, halfway, used, failed>>
cookies == <<browser, restoring, session>>
vars == <<files, memory, cookies, history, faults>>

PolicyLevel == {"protect", "monitor"}
LeaseStates == {"uninitialized", "leased", "degraded", "sealed"}
Definitions == [scope : Scopes, policy : PolicyLevel]
Configs == UNION {[D -> Definitions] : D \in SUBSET Groups}
Runtimes == UNION {[D -> [policy : PolicyLevel, lease : LeaseStates]] : D \in SUBSET Groups}
Steps == {"down", "load", "recover", "open", "up", "build", "stage", "commit", "rollback",
          "finish", "project", "persist"}
NoConfig == [g \in {} |-> <<>>]
Idle == [op |-> "none", g |-> Wikipedia, def |-> <<>>]

TypeOK ==
    /\ disk \in Configs /\ config \in Configs
    /\ legacy \in BOOLEAN /\ leftover \in BOOLEAN
    /\ phase5 \in LeaseStates \cup {"none"}
    /\ vault \subseteq Groups /\ staged \subseteq Groups
    /\ lease \in [Groups -> LeaseStates \cup {"none"}]
    /\ live \in Runtimes
    /\ at \in Steps
    /\ job = Idle \/ job \in [op : {"add", "remove", "policy", "monitor"}, g : Groups,
                              def : Definitions \cup {<<>>}]
    /\ browser \subseteq Groups /\ restoring \subseteq Groups /\ session \subseteq Groups
    /\ captured \subseteq Groups /\ halfway \subseteq Groups /\ used \subseteq Groups
    /\ failed \in BOOLEAN
    /\ faults \in 0..MaxFaults

\* The map c with value v under key g.
With(c, g, v) == [x \in DOMAIN c \cup {g} |-> IF x = g THEN v ELSE c[x]]

Protects(c, g) == g \in DOMAIN c /\ c[g].policy = "protect"

\* Scopes that would make the owner of a cookie ambiguous.
Overlap(s, t) == s = t \/ {s, t} \in Nested

\* normalize_scope and is_valid_scope: a registrable domain, an address or localhost.
ValidScope(s) == s \notin Invalid

\* AccountGroupsConfig::validate.
Valid(c) ==
    /\ Cardinality(DOMAIN c) <= MaxGroups
    /\ \A g \in DOMAIN c : ValidScope(c[g].scope)
    /\ \A g, h \in DOMAIN c : g # h => ~Overlap(c[g].scope, c[h].scope)

-----------------------------------------------------------------------------
\* A fresh profile, or an old installation with its one group, sealed or never used.
Init ==
    /\ \/ /\ disk = NoConfig /\ legacy = FALSE /\ phase5 = "none"
          /\ vault = {} /\ used = {}
       \/ /\ \E s \in Scopes \ Invalid : disk = With(NoConfig, Wikipedia, [scope |-> s, policy |-> "protect"])
          /\ legacy = TRUE /\ used = {Wikipedia}
          /\ \/ phase5 = "sealed" /\ vault = {Wikipedia}
             \/ phase5 = "none" /\ vault = {}
    /\ session = vault
    /\ leftover = FALSE /\ staged = {} /\ lease = [g \in Groups |-> "none"]
    /\ config = NoConfig /\ live = NoConfig /\ at = "down" /\ job = Idle
    /\ browser = {} /\ restoring = {} /\ captured = vault /\ halfway = {} /\ failed = FALSE /\ faults = 0

Fault == faults < MaxFaults /\ faults' = faults + 1

-----------------------------------------------------------------------------
(* NativeHostApp::open.                                                    *)

Start ==
    /\ at = "down"
    /\ at' = "load" /\ failed' = FALSE
    /\ UNCHANGED <<files, config, live, job, cookies, captured, halfway, used, faults>>

\* migrate_phase5_group moves the lease of the one group that an old installation has.
MigratePhase5 ==
    IF phase5 # "none" /\ lease[Wikipedia] = "none"
    THEN lease' = [lease EXCEPT ![Wikipedia] = phase5] /\ phase5' = "none"
    ELSE UNCHANGED <<lease, phase5>>

\* LoadedConfig::load rewrites a version 2 file.
LoadConfig ==
    /\ at = "load" /\ ~(legacy /\ leftover)
    /\ config' = disk
    /\ legacy' = FALSE
    /\ MigratePhase5
    /\ at' = "recover"
    /\ UNCHANGED <<disk, leftover, vault, staged, live, job, cookies, history, faults>>

\* Mutant: every configured group gets its staged vault back.
RecoverEveryGroup ==
    /\ at = "recover"
    /\ IF staged = {} THEN at' = "open" /\ UNCHANGED <<vault, staged>>
       ELSE \E g \in staged :
            /\ vault' = IF g \in DOMAIN config /\ g \notin vault THEN vault \cup {g} ELSE vault
            /\ staged' = staged \ {g} /\ UNCHANGED at
    /\ UNCHANGED <<disk, legacy, leftover, phase5, lease, config, live, job, cookies,
                   history, faults>>

\* recover_staged_deletions, one file: back into place if the group is protected and has no
\* vault, else away.
RecoverStaged ==
    /\ at = "recover"
    /\ IF staged = {} THEN at' = "open" /\ UNCHANGED <<vault, staged>>
       ELSE \E g \in staged :
            /\ vault' = IF Protects(config, g) /\ g \notin vault THEN vault \cup {g} ELSE vault
            /\ staged' = staged \ {g} /\ UNCHANGED at
    /\ UNCHANGED <<disk, legacy, leftover, phase5, lease, config, live, job, cookies,
                   history, faults>>

\* load_or_initialize in build_group_runtime.
LoadedLease(g) ==
    CASE lease[g] = "none" -> IF g \in vault THEN "sealed" ELSE "uninitialized"
      [] lease[g] # "none" /\ g \notin vault -> "uninitialized"
      [] OTHER -> lease[g]
Refuses(g) == lease[g] = "uninitialized" /\ g \in vault

OpenGroup ==
    /\ at = "open"
    /\ IF DOMAIN live = DOMAIN config THEN at' = "up" /\ UNCHANGED <<lease, live>>
       ELSE \E g \in DOMAIN config \ DOMAIN live :
            /\ ~Refuses(g)
            /\ lease' = [lease EXCEPT ![g] = LoadedLease(g)]
            /\ live' = With(live, g, [policy |-> config[g].policy, lease |-> LoadedLease(g)])
            /\ UNCHANGED at
    /\ UNCHANGED <<disk, legacy, leftover, phase5, vault, staged, config, job, cookies,
                   history, faults>>

\* The host ends, because Chrome closes the port or kills it: a durable write in progress may
\* leave its temporary file, and the extension removes the cookies of every active lease.
Ends ==
    /\ config' = NoConfig /\ live' = NoConfig /\ at' = "down" /\ job' = Idle
    /\ browser' \in {browser, {g \in browser : lease[g] # "leased"}}
    /\ restoring' = {}

\* A start that fails ends the host: a lease file that contradicts the vault, an old temporary
\* file in the way of the migration, or an I/O error.
StartFails ==
    /\ at \in {"load", "recover", "open"}
    /\ \/ at = "load" /\ legacy /\ leftover /\ leftover' = FALSE /\ UNCHANGED faults
       \/ at = "open" /\ (\E g \in DOMAIN config \ DOMAIN live : Refuses(g))
          /\ UNCHANGED <<leftover, faults>>
       \/ Fault /\ UNCHANGED leftover
    /\ Ends
    /\ UNCHANGED <<disk, legacy, phase5, vault, staged, lease, session, history>>

Crash ==
    /\ at # "down"
    /\ leftover' \in {leftover} \cup (IF at = "commit" \/ (at = "load" /\ legacy) THEN {TRUE} ELSE {})
    /\ Ends
    /\ UNCHANGED <<disk, legacy, phase5, vault, staged, lease, session, history, faults>>

-----------------------------------------------------------------------------
(* group.add, group.remove and group.set_policy.                           *)

\* What the request wants the configuration to be.
Candidate ==
    CASE job.op = "remove" -> Restrict(config, DOMAIN config \ {job.g})
      [] OTHER -> With(config, job.g, job.def)

\* Every end of a request that failed.
Fails == at' = "up" /\ job' = Idle /\ failed' = TRUE
Answers == at' = "up" /\ job' = Idle /\ UNCHANGED failed

GroupAdd(g, s, p) ==
    /\ at = "up" /\ g \notin used
    /\ Valid(With(config, g, [scope |-> s, policy |-> p]))
    /\ used' = used \cup {g}
    /\ job' = [op |-> "add", g |-> g, def |-> [scope |-> s, policy |-> p]]
    /\ at' = "build"
    /\ UNCHANGED <<files, config, live, cookies, captured, halfway, failed, faults>>

\* build_group_runtime for the new group, which has no file yet.
BuildGroup ==
    /\ at = "build"
    /\ \/ lease' = [lease EXCEPT ![job.g] = "uninitialized"] /\ at' = "commit"
          /\ UNCHANGED <<job, failed, faults>>
       \/ Fault /\ lease' \in {lease, [lease EXCEPT ![job.g] = "uninitialized"]} /\ Fails
    /\ UNCHANGED <<disk, legacy, leftover, phase5, vault, staged, config, live, cookies,
                   captured, halfway, used>>

GroupRemove(g) ==
    /\ at = "up" /\ g \in DOMAIN live
    /\ job' = [op |-> "remove", g |-> g, def |-> <<>>]
    /\ at' = "stage"
    /\ UNCHANGED <<files, config, live, cookies, history, faults>>

\* A pending or unresolved operation also refuses it; operations are single steps here.
GroupSetPolicy(g, p) ==
    LET entering == p = "monitor" /\ live[g].policy # "monitor" IN
    /\ at = "up"
    /\ ~(entering /\ live[g].lease = "sealed")
    /\ entering \/ g \in DOMAIN config
    /\ job' = [op |-> IF entering THEN "monitor" ELSE "policy", g |-> g,
               def |-> IF g \in DOMAIN config THEN [config[g] EXCEPT !.policy = p] ELSE <<>>]
    /\ at' = IF entering THEN "stage" ELSE "commit"
    /\ UNCHANGED <<files, config, live, cookies, history, faults>>

\* Mutant: the vault is deleted before the configuration is written.
DeleteVault ==
    /\ at = "stage"
    /\ vault' = vault \ {job.g}
    /\ at' = "commit"
    /\ UNCHANGED <<disk, legacy, leftover, phase5, staged, lease, config, live, job, cookies,
                   history, faults>>

\* stage_delete; then set_policy refuses a group that only the runtimes still have.
StageDelete ==
    /\ at = "stage"
    /\ \/ /\ ~(job.g \in vault /\ job.g \in staged)
          /\ vault' = vault \ {job.g}
          /\ staged' = IF job.g \in vault THEN staged \cup {job.g} ELSE staged
          /\ IF job.op = "monitor" /\ job.def = <<>> THEN Answers
             ELSE at' = "commit" /\ UNCHANGED <<job, failed>>
          /\ UNCHANGED faults
       \/ job.g \in vault /\ job.g \in staged /\ Fails /\ UNCHANGED <<vault, staged, faults>>
       \/ Fault /\ Fails /\ UNCHANGED <<vault, staged>>
    /\ UNCHANGED <<disk, legacy, leftover, phase5, lease, config, live, cookies, captured,
                   halfway, used>>

\* The vaults of the groups that the new file protects are the ones the host has to keep.
Written ==
    /\ disk' = Candidate
    /\ captured' = {g \in captured \cup vault : Protects(Candidate, g)}

\* Mutant: the live runtime keeps its own copy of the policy.
CommitConfigOnly ==
    /\ at = "commit" /\ ~leftover
    /\ Written
    /\ config' = Candidate
    /\ \/ /\ job.op = "add"
          /\ live' = With(live, job.g, [policy |-> job.def.policy, lease |-> "uninitialized"])
          /\ Answers
       \/ job.op = "policy" /\ UNCHANGED live /\ Answers
       \/ job.op \in {"remove", "monitor"} /\ at' = "finish" /\ UNCHANGED <<live, job, failed>>
    /\ UNCHANGED <<legacy, leftover, phase5, vault, staged, lease, cookies, halfway, used,
                   faults>>

\* commit_config and what follows it in memory.
CommitConfig ==
    /\ at = "commit" /\ ~leftover
    /\ Written
    /\ config' = Candidate
    /\ \/ /\ job.op = "add"
          /\ live' = With(live, job.g, [policy |-> job.def.policy, lease |-> "uninitialized"])
          /\ Answers
       \/ job.op = "remove" /\ at' = "finish" /\ UNCHANGED <<live, job, failed>>
       \/ /\ job.op = "policy"
          /\ live' = [live EXCEPT ![job.g].policy = job.def.policy]
          /\ Answers
       \/ /\ job.op = "monitor"
          /\ live' = [live EXCEPT ![job.g].policy = job.def.policy]
          /\ at' = "finish" /\ UNCHANGED <<job, failed>>
    /\ UNCHANGED <<legacy, leftover, phase5, vault, staged, lease, cookies, halfway, used,
                   faults>>

\* The write fails before the file is replaced, or after that.
CommitFails ==
    /\ at = "commit"
    /\ \/ leftover /\ leftover' = FALSE /\ UNCHANGED <<disk, captured, faults>>
       \/ ~leftover /\ Fault /\ UNCHANGED <<disk, captured, leftover>>
       \/ ~leftover /\ Fault /\ Written /\ UNCHANGED leftover
    /\ IF job.op \in {"remove", "monitor"} THEN at' = "rollback" /\ UNCHANGED <<job, failed>>
       ELSE Fails
    /\ UNCHANGED <<legacy, phase5, vault, staged, lease, config, live, cookies, halfway, used>>

\* Mutant: an error of commit_config is returned without the rollback.
NoRollback ==
    /\ at = "rollback" /\ Fails
    /\ UNCHANGED <<files, config, live, cookies, captured, halfway, used, faults>>

\* rollback_staged_delete after a failed commit.
Rollback ==
    /\ at = "rollback"
    /\ \/ job.g \in staged /\ job.g \notin vault /\ vault' = vault \cup {job.g}
          /\ staged' = staged \ {job.g} /\ UNCHANGED <<halfway, faults>>
       \/ job.g \notin staged /\ UNCHANGED <<vault, staged, halfway, faults>>
       \/ Fault /\ halfway' = halfway \cup ({job.g} \cap staged) /\ UNCHANGED <<vault, staged>>
    /\ Fails
    /\ UNCHANGED <<disk, legacy, leftover, phase5, lease, config, live, cookies, captured,
                   used>>

\* commit_staged_delete after the commit.
FinishDelete ==
    /\ at = "finish"
    /\ \/ /\ staged' = staged \ {job.g}
          /\ \/ job.op = "remove" /\ live' = Restrict(live, DOMAIN live \ {job.g}) /\ at' = "project"
             \/ /\ job.op = "monitor" /\ at' = "persist"
                /\ live' = [live EXCEPT ![job.g].lease = "uninitialized"]
          /\ UNCHANGED <<job, failed, halfway, faults>>
       \/ Fault /\ Fails /\ halfway' = halfway \cup ({job.g} \cap staged) /\ UNCHANGED <<staged, live>>
    /\ UNCHANGED <<disk, legacy, leftover, phase5, vault, lease, config, cookies, captured,
                   used>>

\* remove_group_projections, whose failure is ignored.
RemoveProjections ==
    /\ at = "project"
    /\ \/ lease' = [lease EXCEPT ![job.g] = "none"] /\ UNCHANGED faults
       \/ Fault /\ UNCHANGED lease
    /\ Answers
    /\ UNCHANGED <<disk, legacy, leftover, phase5, vault, staged, config, live, cookies,
                   captured, halfway, used>>

\* The lease of a group that entered Monitor.
PersistLease ==
    /\ at = "persist"
    /\ \/ lease' = [lease EXCEPT ![job.g] = "uninitialized"] /\ Answers /\ UNCHANGED faults
       \/ Fault /\ lease' \in {lease, [lease EXCEPT ![job.g] = "uninitialized"]} /\ Fails
    /\ UNCHANGED <<disk, legacy, leftover, phase5, vault, staged, config, live, cookies,
                   captured, halfway, used>>

-----------------------------------------------------------------------------
(* What the runtimes do in between (GroupRuntime), one step each.          *)

SetLease(g, s) ==
    /\ live' = [live EXCEPT ![g].lease = s]
    /\ lease' = [lease EXCEPT ![g] = s]
Serving(g) == at = "up" /\ g \in DOMAIN live
Elsewhere == <<disk, legacy, leftover, phase5, staged, config, at, job, halfway, used, failed, faults>>

\* The user signs in to the site.
SignIn(g) ==
    /\ Serving(g) /\ live[g].lease # "sealed"
    /\ browser' = browser \cup {g} /\ session' = session \cup {g}
    /\ UNCHANGED <<files, memory, restoring, history, faults>>

Enroll(g) ==
    /\ Serving(g) /\ live[g].policy # "monitor" /\ g \in browser
    /\ live[g].lease = "uninitialized" /\ g \notin vault
    /\ SetLease(g, "leased")
    /\ vault' = vault \cup {g} /\ captured' = captured \cup {x \in {g} : Protects(disk, x)}
    /\ UNCHANGED <<cookies, Elsewhere>>

\* An eviction or a reconciliation.
Seal(g) ==
    /\ Serving(g) /\ live[g].lease \in {"leased", "degraded"}
    /\ g \in browser \cup vault
    /\ SetLease(g, "sealed")
    /\ vault' = vault \cup {g} /\ captured' = captured \cup {x \in {g} : Protects(disk, x)}
    /\ browser' = browser \ {g} /\ restoring' = restoring \ {g}
    /\ UNCHANGED <<session, Elsewhere>>

\* The host grants the lease before the extension has restored a cookie.
Unlock(g) ==
    /\ Serving(g) /\ live[g].policy # "monitor" /\ live[g].lease = "sealed" /\ g \in vault
    /\ SetLease(g, "leased") /\ restoring' = restoring \cup {g}
    /\ UNCHANGED <<vault, captured, browser, session, Elsewhere>>

\* The extension restores the cookies, or cannot; inject.result reports it to an active lease.
InjectResult(g) ==
    /\ Serving(g) /\ g \in restoring
    /\ restoring' = restoring \ {g}
    /\ \/ browser' = browser \cup {g} /\ UNCHANGED <<live, lease>>
       \/ /\ UNCHANGED browser
          /\ IF live[g].lease = "leased" THEN SetLease(g, "degraded") ELSE UNCHANGED <<live, lease>>
    /\ UNCHANGED <<vault, captured, session, Elsewhere>>

\* session.invalidate: the site ended the session.
Invalidate(g) ==
    /\ Serving(g) /\ live[g].lease # "uninitialized"
    /\ SetLease(g, "uninitialized")
    /\ vault' = vault \ {g} /\ captured' = captured \ {g}
    /\ browser' = browser \ {g} /\ restoring' = restoring \ {g} /\ session' = session \ {g}
    /\ UNCHANGED Elsewhere

-----------------------------------------------------------------------------
Next ==
    \/ Start \/ LoadConfig \/ RecoverStaged \/ OpenGroup \/ StartFails \/ Crash
    \/ \E g \in Groups, s \in Scopes, p \in PolicyLevel : GroupAdd(g, s, p)
    \/ BuildGroup
    \/ \E g \in Groups : GroupRemove(g)
    \/ \E g \in DOMAIN live, p \in PolicyLevel : GroupSetPolicy(g, p)
    \/ StageDelete \/ CommitConfig \/ CommitFails \/ Rollback \/ FinishDelete
    \/ RemoveProjections \/ PersistLease
    \/ \E g \in Groups : \/ SignIn(g) \/ Enroll(g) \/ Seal(g) \/ Unlock(g) \/ InjectResult(g)
                         \/ Invalidate(g)

Spec == Init /\ [][Next]_vars

-----------------------------------------------------------------------------
\* A session that the host took into its vault is there or can be brought back by the next
\* start, whatever write of group.remove or group.set_policy fails and wherever the host is
\* killed, until the configuration file stops protecting its group (the comments in
\* handle_group_remove: "a failed config commit still restores the only encrypted session copy").
SessionKept ==
    \A g \in captured : g \in vault \/ (g \in staged /\ Protects(disk, g))

\* A start undoes or finishes everything an earlier host left half done: while no request has
\* failed since, the runtimes are those of the file and no deletion is staged.
RestartHeals ==
    at = "up" /\ ~failed =>
        /\ config = disk /\ staged = {}
        /\ DOMAIN live = DOMAIN disk
        /\ \A g \in DOMAIN disk : live[g].policy = disk[g].policy

\* The host can always be started again: no sequence of requests, crashes and failed writes
\* leaves a vault beside a lease file that load_or_initialize refuses, unless a staged deletion
\* could neither be finished nor undone.
Startable ==
    halfway = {} => \A g \in DOMAIN disk :
        lease[g] = "uninitialized" => g \notin vault /\ ~(g \in staged /\ Protects(disk, g))

\* Without I/O errors no vault outlives the protection of its group, wherever the host is
\* killed: a session that the user unprotected is not kept behind their back, and a staged
\* deletion is never undone once the file says otherwise.
NoOrphan == faults = 0 => \A g \in vault : Protects(disk, g)

\* Changing the policy to Monitor never costs the only copy of a session (locales/en.ts 108:
\* "Unlock the locked session once before switching to monitor-only mode, or the vault's only
\* copy of it will be lost").
OnlyCopyKept ==
    \A g \in session :
        at = "up" /\ g \in DOMAIN live /\ live[g].policy = "monitor" =>
            g \in browser \cup restoring \cup vault

=============================================================================
