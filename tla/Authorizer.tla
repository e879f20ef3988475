---------------------------- MODULE Authorizer -----------------------------
(***************************************************************************)
(* The platform keys: the credential with which the user approves an       *)
(* unlock (crypto/authorizer/linux.rs, windows.rs) and the key-encryption  *)
(* key that wraps each vault's data key (crypto/platform_kek/).  On Linux  *)
(* both are TPM blobs in files of the profile, the credential under a PIN  *)
(* and the TPM's lockout; on Windows Hello and the platform key store hold *)
(* them, the credential for each profile, the KEK for the whole account.   *)
(*                                                                         *)
(* One host runs for each profile (see HostStart), so two hosts share the  *)
(* platform.  A prompt takes time: the other host, a kill or the platform  *)
(* may come between any two steps of a request.                            *)
(***************************************************************************)
EXTENDS Integers

CONSTANTS
    Profiles,
    Platforms,      \* the builds to consider: a subset of {"linux", "windows"}
    MaxAuthFail,    \* wrong PINs that the TPM tolerates
    MaxCreds,       \* credentials that users enroll
    MaxWipes,       \* times the platform loses every key it holds
    MaxFaults       \* failing TPM calls and writes, damaged registry files

ASSUME AuthorizerConstants ==
    /\ Platforms \subseteq {"linux", "windows"}
    /\ {MaxAuthFail, MaxCreds, MaxWipes, MaxFaults} \subseteq Nat
    /\ MaxAuthFail >= 1 /\ "machine" \notin Profiles

VARIABLES
    platform,
    registry,       \* the credential file of each profile
    retired,        \* what was quarantined next to it
    held,           \* credentials that the platform can sign with
    user,           \* the account that each credential was made for
    lockout,        \* the TPM's count of wrong PINs
    handle,         \* hello_authorizer: the credential a host has loaded
    step,           \* what each host does next
    retried,        \* the host is past recover_if_credential_vanished
    made,           \* the credential a host has made and not yet written down
    kek,            \* the KEK of each place that has one
    keks,           \* KEKs that the TPM can use
    vault,          \* the KEK that wraps the data key of each profile's vault
    kekCount,       \* KEKs created so far
    wiped,          \* history: credentials that the platform lost
    wipedKeks,      \* history: KEKs that the platform lost
    flaky,          \* history: credentials whose load failed once
    creds, wipes, faults

requests == <<handle, step, retried, made>>
files == <<registry, retired>>
keystore == <<held, user, lockout, creds>>
wrapping == <<kek, keks, vault, kekCount>>
lostKeys == <<wiped, wipedKeks, flaky>>
vars == <<platform, requests, files, keystore, wrapping, lostKeys, wipes, faults>>

None == 0
Damaged == -1
Steps == {"idle", "open", "enroll", "persist", "check", "prompt", "sign",
          "recover", "ensure", "create", "wrap"}

\* Where a profile's KEK lives: a file of the profile, or one name for all.
Place(p) == IF platform = "windows" THEN "machine" ELSE p
Places == Profiles \cup {"machine"}

TypeOK ==
    /\ platform \in Platforms
    /\ registry \in [Profiles -> Damaged..creds]
    /\ retired \in [Profiles -> SUBSET (Damaged..creds)]
    /\ held \subseteq 1..creds /\ user \in [1..creds -> Profiles]
    /\ lockout \in 0..MaxAuthFail
    /\ handle \in [Profiles -> 0..creds] /\ made \in [Profiles -> 0..creds]
    /\ step \in [Profiles -> Steps] /\ retried \in [Profiles -> BOOLEAN]
    /\ kek \in [Places -> 0..kekCount] /\ vault \in [Profiles -> 0..kekCount]
    /\ keks \subseteq 1..kekCount /\ wipedKeks \subseteq 1..kekCount /\ kekCount \in Nat
    /\ wiped \subseteq 1..creds /\ flaky \subseteq 1..creds
    /\ creds \in 0..MaxCreds
    /\ wipes \in 0..MaxWipes /\ faults \in 0..MaxFaults

Init ==
    /\ platform \in Platforms
    /\ registry = [p \in Profiles |-> None] /\ retired = [p \in Profiles |-> {}]
    /\ held = {} /\ user = <<>> /\ lockout = 0 /\ creds = 0
    /\ handle = [p \in Profiles |-> None] /\ made = [p \in Profiles |-> None]
    /\ step = [p \in Profiles |-> "idle"] /\ retried = [p \in Profiles |-> FALSE]
    /\ kek = [q \in Places |-> None] /\ keks = {} /\ vault = [p \in Profiles |-> None]
    /\ kekCount = 0 /\ wiped = {} /\ wipedKeks = {} /\ flaky = {} /\ wipes = 0 /\ faults = 0

Fault == faults < MaxFaults /\ faults' = faults + 1
NoFault == faults' = faults
Goto(p, s) == step' = [step EXCEPT ![p] = s]
Done(p) == Goto(p, "idle") /\ retried' = [retried EXCEPT ![p] = FALSE]

(***************************************************************************)
(* Unlock: begin_inject.                                                   *)
(***************************************************************************)

\* authorize_inject with the credential that is loaded: the TPM's counters are
\* read before the prompt; Hello has no such step.
Authorize(p) == Goto(p, IF platform = "linux" THEN "check" ELSE "sign")

\* lease.request for a sealed group.  The loaded credential is used again.
BeginInject(p) ==
    /\ step[p] = "idle" /\ vault[p] # None
    /\ IF handle[p] = None THEN Goto(p, "open") ELSE Authorize(p)
    /\ UNCHANGED <<platform, handle, retried, made, files, keystore, wrapping,
                   lostKeys, wipes, faults>>

\* quarantine_registry: the file is renamed.
Retire(p) ==
    /\ retired' = [retired EXCEPT ![p] = @ \cup {registry[p]}]
    /\ registry' = [registry EXCEPT ![p] = None]

\* load_registry: the file parses, has the right version and, on Windows, the
\* account of this profile.
LoadsRegistry(p) == registry[p] > 0

\* open_or_create: load the registry, or quarantine one that does not load and
\* enroll.
OpenOrCreate(p) ==
    /\ step[p] = "open"
    /\ \/ /\ LoadsRegistry(p)
          /\ handle' = [handle EXCEPT ![p] = registry[p]]
          /\ Authorize(p) /\ UNCHANGED files
       \/ /\ registry[p] = Damaged
          /\ Retire(p) /\ Goto(p, "enroll") /\ UNCHANGED handle
       \/ /\ registry[p] = None
          /\ Goto(p, "enroll") /\ UNCHANGED <<handle, files>>
    /\ UNCHANGED <<platform, retried, made, keystore, wrapping, lostKeys,
                   wipes, faults>>

\* Mutant: one account for all profiles.
MakeOneAccount(p) ==
    /\ creds < MaxCreds
    /\ creds' = creds + 1
    /\ user' = [c \in 1..creds + 1 |-> IF c <= creds THEN user[c] ELSE p]
    /\ held' = (IF platform = "windows" THEN {} ELSE held) \cup {creds + 1}
    /\ made' = [made EXCEPT ![p] = creds + 1]

\* A new credential of profile p: on Windows it replaces the one that the
\* platform holds for the same account.
Make(p) ==
    /\ creds < MaxCreds
    /\ creds' = creds + 1
    /\ user' = [c \in 1..creds + 1 |-> IF c <= creds THEN user[c] ELSE p]
    /\ held' = {c \in held : platform = "windows" => user[c] # p} \cup {creds + 1}
    /\ made' = [made EXCEPT ![p] = creds + 1]

\* enroll: two prompts, and a key in the TPM under the PIN; or the Hello
\* dialog.  A PIN that is too short, one that differs the second time, a
\* dismissed prompt and a platform without Hello all end the request.
Enroll(p) ==
    /\ step[p] = "enroll"
    /\ \/ Make(p) /\ Goto(p, "persist") /\ UNCHANGED retried
       \/ Done(p) /\ UNCHANGED <<held, user, creds, made>>
    /\ UNCHANGED <<platform, handle, files, lockout, wrapping, lostKeys,
                   wipes, faults>>

\* Mutant: the new authorizer does not take the place of the old.
PersistKeepsHandle(p) ==
    /\ step[p] = "persist"
    /\ made' = [made EXCEPT ![p] = None]
    /\ \/ /\ NoFault
          /\ registry' = [registry EXCEPT ![p] = made[p]]
          /\ handle' = [handle EXCEPT ![p] = IF @ = None THEN made[p] ELSE @]
          /\ Authorize(p) /\ UNCHANGED retried
       \/ Fault /\ Done(p) /\ UNCHANGED <<registry, handle>>
    /\ UNCHANGED <<platform, retired, keystore, wrapping, lostKeys, wipes>>

\* The registry is written and verified; the authorizer that signs from now on
\* is the new one.
Persist(p) ==
    /\ step[p] = "persist"
    /\ made' = [made EXCEPT ![p] = None]
    /\ \/ /\ NoFault
          /\ registry' = [registry EXCEPT ![p] = made[p]]
          /\ handle' = [handle EXCEPT ![p] = made[p]]
          /\ Authorize(p) /\ UNCHANGED retried
       \/ Fault /\ Done(p) /\ UNCHANGED <<registry, handle>>
    /\ UNCHANGED <<platform, retired, keystore, wrapping, lostKeys, wipes>>

Locked == lockout >= MaxAuthFail

\* lockout_state, before the prompt.  Counters that cannot be read do not block.
CheckLockout(p) ==
    /\ step[p] = "check"
    /\ \/ ~Locked /\ Goto(p, "prompt") /\ NoFault /\ UNCHANGED retried
       \/ Locked /\ Done(p) /\ NoFault
       \/ Locked /\ Goto(p, "prompt") /\ Fault /\ UNCHANGED retried
    /\ UNCHANGED <<platform, handle, made, files, keystore, wrapping, lostKeys,
                   wipes>>

\* prompt_pin: kdialog, zenity or systemd-ask-password.  A prompt that is
\* dismissed, left empty or cannot be shown ends the request.
PromptPin(p) ==
    /\ step[p] = "prompt"
    /\ \/ Goto(p, "sign") /\ UNCHANGED retried
       \/ Done(p)
    /\ UNCHANGED <<platform, handle, made, files, keystore, wrapping, lostKeys,
                   wipes, faults>>

\* The error says that the platform lost the credential: recover once.
Vanished(p) == IF retried[p] THEN Done(p) ELSE Goto(p, "recover") /\ UNCHANGED retried

\* with_key: whatever keeps the TPM from loading the credential, a slot that
\* is missing for a moment included, is reported as a credential that is
\* unusable.
Unusable(c) ==
    \/ c \notin held /\ NoFault /\ UNCHANGED flaky
    \/ c \in held /\ Fault /\ flaky' = flaky \cup {c}

\* signing_failure: a wrong PIN, which the TPM counts; or the TPM is locked and
\* does not look at the PIN.
SigningFails(c) == c \in held /\ lockout' = IF Locked THEN lockout ELSE lockout + 1
Signs(c) == c \in held /\ ~Locked /\ UNCHANGED lockout

\* Mutant: a wrong PIN is taken for a credential that is gone.
SignLinuxAnyError(p) ==
    LET c == handle[p] IN
    /\ step[p] = "sign" /\ platform = "linux"
    /\ \/ Unusable(c) /\ Vanished(p) /\ UNCHANGED lockout
       \/ SigningFails(c) /\ Vanished(p) /\ NoFault /\ UNCHANGED flaky
       \/ Signs(c) /\ Done(p) /\ NoFault /\ UNCHANGED flaky
    /\ UNCHANGED <<platform, handle, made, files, held, user, creds, wrapping,
                   wiped, wipedKeks, wipes>>

\* sign on Linux: load the credential and sign with the PIN that was given.
SignLinux(p) ==
    LET c == handle[p] IN
    /\ step[p] = "sign" /\ platform = "linux"
    /\ \/ Unusable(c) /\ Vanished(p) /\ UNCHANGED lockout
       \/ SigningFails(c) /\ Done(p) /\ NoFault /\ UNCHANGED flaky
       \/ Signs(c) /\ Done(p) /\ NoFault /\ UNCHANGED flaky
    /\ UNCHANGED <<platform, handle, made, files, held, user, creds, wrapping,
                   wiped, wipedKeks, wipes>>

\* sign_assertion on Windows: only a credential that Hello does not know is
\* missing; every other failure ends the request.
SignWindows(p) ==
    /\ step[p] = "sign" /\ platform = "windows"
    /\ \/ Done(p)
       \/ handle[p] \notin held /\ Vanished(p)
    /\ UNCHANGED <<platform, handle, made, files, keystore, wrapping, lostKeys,
                   wipes, faults>>

\* recover_if_credential_vanished on Linux: the rename of a registry that is
\* not there fails, and the request with it.
RecoverLinux(p) ==
    /\ step[p] = "recover" /\ platform = "linux"
    /\ \/ /\ registry[p] = None
          /\ Done(p) /\ UNCHANGED files
       \/ /\ registry[p] # None
          /\ Retire(p)
          /\ Goto(p, "enroll") /\ retried' = [retried EXCEPT ![p] = TRUE]
    /\ UNCHANGED <<platform, handle, made, keystore, wrapping, lostKeys, wipes,
                   faults>>

\* recreate on Windows.
RecoverWindows(p) ==
    /\ step[p] = "recover" /\ platform = "windows"
    /\ IF registry[p] = None THEN UNCHANGED files ELSE Retire(p)
    /\ Goto(p, "enroll") /\ retried' = [retried EXCEPT ![p] = TRUE]
    /\ UNCHANGED <<platform, handle, made, keystore, wrapping, lostKeys, wipes,
                   faults>>

\* recovery.adopt: another profile's host signs with this profile's credential,
\* which it opens with open_existing and never replaces.  Only the wrong PIN
\* leaves a trace.
Adopt(p, q) ==
    /\ step[p] = "idle" /\ p # q /\ vault[p] = None
    /\ platform = "linux" /\ ~Locked
    /\ registry[q] \in held
    /\ lockout' = lockout + 1
    /\ UNCHANGED <<platform, requests, files, held, user, creds, wrapping, lostKeys,
                   wipes, faults>>

(***************************************************************************)
(* The first seal of a profile: prepare_after_snapshot.                    *)
(***************************************************************************)

BeginSeal(p) ==
    /\ step[p] = "idle" /\ vault[p] = None
    /\ Goto(p, "ensure")
    /\ UNCHANGED <<platform, handle, retried, made, files, keystore, wrapping,
                   lostKeys, wipes, faults>>

\* The platform loads the key: the blobs of the file, or what the name stands for.
Usable(k) == k \in keks

\* ensure_exists: on Linux an existing file must still load, and one that does
\* not is never replaced.
EnsureExists(p) ==
    LET k == kek[Place(p)] IN
    /\ step[p] = "ensure"
    /\ \/ Usable(k) /\ Goto(p, "wrap")
       \/ k = None /\ Goto(p, "create")
       \/ k # None /\ ~Usable(k) /\ Goto(p, "idle")
    /\ UNCHANGED <<platform, handle, retried, made, files, keystore, wrapping,
                   lostKeys, wipes, faults>>

NewKek(p) ==
    /\ kekCount' = kekCount + 1
    /\ kek' = [kek EXCEPT ![Place(p)] = kekCount + 1]
    /\ keks' = keks \cup {kekCount + 1}
    /\ Goto(p, "wrap")

\* create on Linux: a key of the TPM, then the file; a failure leaves no file.
CreateKekFile(p) ==
    /\ step[p] = "create" /\ platform = "linux"
    /\ \/ NewKek(p) /\ NoFault
       \/ Goto(p, "idle") /\ Fault /\ UNCHANGED <<kek, keks, kekCount>>
    /\ UNCHANGED <<platform, handle, retried, made, files, keystore, vault, lostKeys, wipes>>

\* Mutant: the key is created over one that exists.
CreateKekOver(p) ==
    /\ step[p] = "create" /\ platform = "windows"
    /\ kekCount' = kekCount + 1
    /\ kek' = [kek EXCEPT ![Place(p)] = kekCount + 1]
    /\ keks' = (keks \ {kek[Place(p)]}) \cup {kekCount + 1}
    /\ Goto(p, "wrap")
    /\ UNCHANGED <<platform, handle, retried, made, files, keystore, vault, lostKeys,
                   wipes, faults>>

\* Key::create on Windows: a name that another host created by now refuses the
\* second key.
CreateKekName(p) ==
    /\ step[p] = "create" /\ platform = "windows"
    /\ \/ kek[Place(p)] = None /\ NewKek(p)
       \/ kek[Place(p)] # None /\ Goto(p, "idle") /\ UNCHANGED <<kek, keks, kekCount>>
    /\ UNCHANGED <<platform, handle, retried, made, files, keystore, vault, lostKeys,
                   wipes, faults>>

\* wrap_dek opens the key again; the vault that is written holds what it wraps.
WrapDek(p) ==
    LET k == kek[Place(p)] IN
    /\ step[p] = "wrap"
    /\ vault' = IF Usable(k) THEN [vault EXCEPT ![p] = k] ELSE vault
    /\ Goto(p, "idle")
    /\ UNCHANGED <<platform, handle, retried, made, files, keystore, kek, keks,
                   kekCount, lostKeys, wipes, faults>>

\* session.invalidate: the vault goes, the KEK stays for the next one.
Invalidate(p) ==
    /\ step[p] = "idle" /\ vault[p] # None
    /\ vault' = [vault EXCEPT ![p] = None]
    /\ UNCHANGED <<platform, requests, files, keystore, kek, keks, kekCount, lostKeys,
                   wipes, faults>>

(***************************************************************************)
(* The surroundings.                                                       *)
(***************************************************************************)

\* A host ends, in the middle of a request or not, and another starts.
Restart(p) ==
    /\ <<handle[p], step[p]>> # <<None, "idle">>
    /\ handle' = [handle EXCEPT ![p] = None]
    /\ made' = [made EXCEPT ![p] = None]
    /\ Done(p)
    /\ UNCHANGED <<platform, files, keystore, wrapping, lostKeys, wipes, faults>>

\* A cleared TPM, a Hello reset: every key is gone, and with it on Windows the
\* name of the KEK.
Wipe ==
    /\ wipes < MaxWipes
    /\ wipes' = wipes + 1
    /\ wiped' = wiped \cup held /\ held' = {} /\ lockout' = 0
    /\ wipedKeks' = wipedKeks \cup keks /\ keks' = {}
    /\ kek' = [kek EXCEPT !["machine"] = None]
    /\ UNCHANGED <<platform, requests, files, user, creds, vault, kekCount, flaky, faults>>

\* The TPM forgets one wrong PIN after its recovery interval.
LockoutRecovers ==
    /\ lockout > 0
    /\ lockout' = lockout - 1
    /\ UNCHANGED <<platform, requests, files, held, user, creds, wrapping, lostKeys,
                   wipes, faults>>

\* The registry file is damaged.
Damage(p) ==
    /\ registry[p] > 0
    /\ registry' = [registry EXCEPT ![p] = Damaged]
    /\ Fault
    /\ UNCHANGED <<platform, requests, retired, keystore, wrapping, lostKeys, wipes>>

Next ==
    \/ \E p \in Profiles :
        \/ BeginInject(p) \/ OpenOrCreate(p) \/ Enroll(p) \/ Persist(p)
        \/ CheckLockout(p) \/ PromptPin(p) \/ SignLinux(p) \/ SignWindows(p)
        \/ RecoverLinux(p) \/ RecoverWindows(p)
        \/ BeginSeal(p) \/ EnsureExists(p) \/ CreateKekFile(p) \/ CreateKekName(p)
        \/ WrapDek(p) \/ Invalidate(p)
        \/ Restart(p) \/ Damage(p)
        \/ \E q \in Profiles : Adopt(p, q)
    \/ Wipe \/ LockoutRecovers

Spec == Init /\ [][Next]_vars

(***************************************************************************)
(* Properties.                                                             *)
(***************************************************************************)

\* A credential is retired only after the platform lost it or would not load
\* it: no dismissed prompt, wrong PIN or lockout is ever retried into a fresh
\* credential, on any path through recover_if_credential_vanished.
RetiredUnusable ==
    \A p \in Profiles : retired[p] \subseteq wiped \cup flaky \cup {Damaged}

\* A host never approves with a credential other than the one its registry
\* names, whatever recovery went on: begin_inject's cached authorizer follows
\* the file, unless the file itself is gone or damaged.
HandleFollows ==
    \A p \in Profiles : registry[p] > 0 => handle[p] \in {None, registry[p]}

\* Enrolling in one profile leaves the credentials of the others alone: what a
\* registry names, the platform holds until it is wiped.
ProfilesApart ==
    \A p \in Profiles : registry[p] > 0 => registry[p] \in held \cup wiped

\* A vault stays readable: the KEK that wrapped its data key is the one its
\* host opens, even when two hosts create it at the same time, until the
\* platform loses it.
KekKept ==
    \A p \in Profiles : vault[p] # None =>
        vault[p] \in wipedKeks \/ (vault[p] = kek[Place(p)] /\ vault[p] \in keks)
============================================================================
