-------------------------- MODULE AuthorizerProofs --------------------------
(***************************************************************************)
(* No credential is replaced unless the platform lost it or would not load *)
(* it, a host approves with the credential its registry names, and a vault *)
(* stays readable with the key-encryption key of its profile: on either    *)
(* platform and for every number of profiles, credentials, wrong PINs,     *)
(* wipes and faults.                                                       *)
(***************************************************************************)
EXTENDS Authorizer, TLAPS

\* The credentials of one profile.  While a host enrolls there is no registry,
\* so a new credential never displaces one that a registry names; what the
\* registry or an enrollment names was made for this profile; a host that
\* authorizes has a credential loaded; one that recovers met a platform that
\* lost the credential or would not load it.
Credential(p) ==
    /\ registry[p] > 0 => user[registry[p]] = p /\ registry[p] \in held \cup wiped
    /\ registry[p] > 0 => handle[p] \in {None, registry[p]}
    /\ step[p] \in {"enroll", "persist"} => registry[p] = None
    /\ step[p] = "persist" =>
          made[p] > 0 /\ user[made[p]] = p /\ made[p] \in held \cup wiped
    /\ step[p] \in {"check", "prompt", "sign", "recover"} => handle[p] # None
    /\ step[p] = "recover" /\ registry[p] > 0 => registry[p] \in wiped \cup flaky
    /\ retired[p] \subseteq wiped \cup flaky \cup {Damaged}
CredentialInv == \A p \in Profiles : Credential(p)

\* The key-encryption keys.  On Linux nobody else creates the file that a host
\* is about to create.
KekInv ==
    /\ \A p \in Profiles : platform = "linux" /\ step[p] = "create" => kek[p] = None
    /\ KekKept

Inv == TypeOK /\ CredentialInv /\ KekInv

-----------------------------------------------------------------------------
(* Types.                                                                  *)

FileTypes ==
    /\ registry \in [Profiles -> Damaged..creds]
    /\ retired \in [Profiles -> SUBSET (Damaged..creds)]
RequestTypes == handle \in [Profiles -> 0..creds] /\ made \in [Profiles -> 0..creds]
StepTypes == step \in [Profiles -> Steps] /\ retried \in [Profiles -> BOOLEAN]
StoreTypes ==
    /\ creds \in 0..MaxCreds
    /\ held \subseteq 1..creds /\ user \in [1..creds -> Profiles]
    /\ wiped \subseteq 1..creds /\ flaky \subseteq 1..creds
KekTypes ==
    /\ kek \in [Places -> 0..kekCount] /\ vault \in [Profiles -> 0..kekCount]
    /\ keks \subseteq 1..kekCount /\ wipedKeks \subseteq 1..kekCount /\ kekCount \in Nat
CountTypes ==
    /\ platform \in Platforms /\ lockout \in 0..MaxAuthFail
    /\ wipes \in 0..MaxWipes /\ faults \in 0..MaxFaults

\* The type invariant in parts, each of which few actions touch.
LEMMA TypeParts ==
    TypeOK <=> FileTypes /\ RequestTypes /\ StepTypes /\ StoreTypes /\ KekTypes /\ CountTypes
  BY DEF TypeOK, FileTypes, RequestTypes, StepTypes, StoreTypes, KekTypes, CountTypes

\* The initial state is well typed.
LEMMA TypeInit == Init => TypeOK
  <1> SUFFICES ASSUME Init PROVE TypeOK
    OBVIOUS
  <1> USE AuthorizerConstants DEF Init, None, Damaged
  <1>1. user \in [1..creds -> Profiles]
    OBVIOUS
  <1>2. registry \in [Profiles -> Damaged..creds] /\ retired \in [Profiles -> SUBSET (Damaged..creds)]
    OBVIOUS
  <1>3. handle \in [Profiles -> 0..creds] /\ made \in [Profiles -> 0..creds]
    OBVIOUS
  <1>4. step \in [Profiles -> Steps] /\ retried \in [Profiles -> BOOLEAN]
    BY DEF Steps
  <1>5. /\ kek \in [Places -> 0..kekCount] /\ vault \in [Profiles -> 0..kekCount]
        /\ keks \subseteq 1..kekCount /\ wipedKeks \subseteq 1..kekCount /\ kekCount \in Nat
    OBVIOUS
  <1>6. /\ platform \in Platforms /\ held \subseteq 1..creds /\ lockout \in 0..MaxAuthFail
        /\ wiped \subseteq 1..creds /\ flaky \subseteq 1..creds /\ creds \in 0..MaxCreds
        /\ wipes \in 0..MaxWipes /\ faults \in 0..MaxFaults
    OBVIOUS
  <1> QED BY <1>1, <1>2, <1>3, <1>4, <1>5, <1>6 DEF TypeOK

\* The types of a host's own state when it goes to another step.
LEMMA GotoType ==
    ASSUME TypeOK, NEW p \in Profiles
    PROVE  /\ \A s \in Steps : Goto(p, s) => step' \in [Profiles -> Steps]
           /\ Done(p) => step' \in [Profiles -> Steps] /\ retried' \in [Profiles -> BOOLEAN]
           /\ Authorize(p) => step' \in [Profiles -> Steps]
           /\ Vanished(p) => step' \in [Profiles -> Steps] /\ retried' \in [Profiles -> BOOLEAN]
  BY DEF TypeOK, Goto, Done, Authorize, Vanished, Steps

\* An I/O error stays within its bound.
LEMMA FaultType == TypeOK /\ (Fault \/ NoFault \/ UNCHANGED faults) => faults' \in 0..MaxFaults
  BY AuthorizerConstants DEF TypeOK, Fault, NoFault

\* Quarantining a registry keeps the types of the files.
LEMMA RetireType ==
    ASSUME TypeOK, NEW p \in Profiles, Retire(p)
    PROVE  /\ registry' \in [Profiles -> Damaged..creds]
           /\ retired' \in [Profiles -> SUBSET (Damaged..creds)]
  BY AuthorizerConstants DEF TypeOK, Retire, None, Damaged

\* Every step keeps the types.
LEMMA TypeStep == TypeOK /\ [Next]_vars => TypeOK'
  <1> SUFFICES ASSUME TypeOK, [Next]_vars PROVE TypeOK'
    OBVIOUS
  <1> USE AuthorizerConstants
  <1>0. /\ FileTypes /\ RequestTypes /\ StepTypes /\ StoreTypes /\ KekTypes /\ CountTypes
        /\ creds \in Nat /\ kekCount \in Nat /\ MaxCreds \in Nat
    BY TypeParts DEF StoreTypes, KekTypes
  <1>a. UNCHANGED <<files, creds>> => FileTypes'
    BY <1>0 DEF FileTypes, files
  <1>b. UNCHANGED <<handle, made, creds>> => RequestTypes'
    BY <1>0 DEF RequestTypes
  <1>c. UNCHANGED <<held, user, creds, wiped, flaky>> => StoreTypes'
    BY <1>0 DEF StoreTypes
  <1>d. UNCHANGED <<wrapping, wipedKeks>> => KekTypes'
    BY <1>0 DEF KekTypes, wrapping
  <1>e. ASSUME UNCHANGED <<platform, lockout, wipes>>, Fault \/ NoFault \/ UNCHANGED faults
        PROVE  CountTypes'
    BY <1>0, <1>e, FaultType DEF CountTypes
  <1>f. UNCHANGED step => step' \in [Profiles -> Steps]
    BY <1>0 DEF StepTypes
  <1>g. UNCHANGED retried => retried' \in [Profiles -> BOOLEAN]
    BY <1>0 DEF StepTypes
  <1>h. step' \in [Profiles -> Steps] /\ retried' \in [Profiles -> BOOLEAN] => StepTypes'
    BY DEF StepTypes
  <1>i. FileTypes' /\ RequestTypes' /\ StepTypes' /\ StoreTypes' /\ KekTypes' /\ CountTypes' => TypeOK'
    BY DEF TypeOK, FileTypes, RequestTypes, StepTypes, StoreTypes, KekTypes, CountTypes
  <1>1. ASSUME NEW p \in Profiles, BeginInject(p) PROVE TypeOK'
    <2>1. StepTypes'
      BY <1>1, <1>g, <1>h, GotoType DEF BeginInject, Steps
    <2> QED BY <1>1, <1>a, <1>b, <1>c, <1>d, <1>e, <2>1, <1>i
        DEF BeginInject, keystore, lostKeys
  <1>2. ASSUME NEW p \in Profiles, OpenOrCreate(p) PROVE TypeOK'
    <2>1. StepTypes'
      BY <1>2, <1>g, <1>h, GotoType DEF OpenOrCreate, Steps
    <2>2. FileTypes'
      BY <1>2, <1>a, RetireType DEF OpenOrCreate, FileTypes, keystore
    <2>3. \/ UNCHANGED handle
          \/ registry[p] \in 0..creds /\ handle' = [handle EXCEPT ![p] = registry[p]]
      <3>1. registry[p] \in -1..creds
        BY <1>0 DEF FileTypes, Damaged
      <3>2. LoadsRegistry(p) => registry[p] \in 0..creds
        BY <1>0, <3>1 DEF LoadsRegistry
      <3> QED BY <1>2, <3>2 DEF OpenOrCreate
    <2>4. RequestTypes'
      BY <1>0, <1>2, <2>3 DEF OpenOrCreate, RequestTypes, keystore
    <2> QED BY <1>2, <1>c, <1>d, <1>e, <2>1, <2>2, <2>4, <1>i DEF OpenOrCreate, keystore, lostKeys
  <1>3. ASSUME NEW p \in Profiles, Enroll(p) PROVE TypeOK'
    <2>1. StepTypes'
      BY <1>3, <1>g, <1>h, GotoType DEF Enroll, Steps
    <2>2. CASE Make(p)
      <3>1. creds' \in 0..MaxCreds /\ creds' = creds + 1
        BY <1>0, <2>2 DEF Make
      <3>2. /\ 1..creds \subseteq 1..creds' /\ 0..creds \subseteq 0..creds'
            /\ Damaged..creds \subseteq Damaged..creds' /\ creds' \in 1..creds'
        BY <1>0, <3>1 DEF Damaged
      <3>3. user' \in [1..creds' -> Profiles]
        <4>1. user' = [c \in 1..creds' |-> IF c <= creds THEN user[c] ELSE p]
          BY <2>2, <3>1 DEF Make
        <4>2. \A c \in 1..creds' : c <= creds => user[c] \in Profiles
          BY <1>0, <3>1 DEF StoreTypes
        <4> QED BY <4>1, <4>2
      <3>4. held' \subseteq 1..creds'
        BY <1>0, <2>2, <3>1, <3>2 DEF Make, StoreTypes
      <3>5. RequestTypes'
        BY <1>0, <1>3, <2>2, <3>1, <3>2 DEF Enroll, Make, RequestTypes
      <3>6. FileTypes'
        BY <1>0, <1>3, <3>2 DEF Enroll, FileTypes, files
      <3>7. StoreTypes'
        BY <1>0, <1>3, <3>1, <3>2, <3>3, <3>4 DEF Enroll, StoreTypes, lostKeys
      <3> QED BY <1>3, <1>d, <1>e, <2>1, <3>5, <3>6, <3>7, <1>i DEF Enroll, lostKeys
    <2>3. CASE UNCHANGED <<held, user, creds, made>>
      BY <1>3, <1>a, <1>b, <1>c, <1>d, <1>e, <2>1, <2>3, <1>i DEF Enroll, lostKeys
    <2> QED BY <1>3, <2>2, <2>3 DEF Enroll
  <1>4. ASSUME NEW p \in Profiles, Persist(p) PROVE TypeOK'
    <2>1. StepTypes'
      BY <1>4, <1>g, <1>h, GotoType DEF Persist
    <2>2. made[p] \in 0..creds /\ made[p] \in Damaged..creds /\ None \in 0..creds /\ UNCHANGED creds
      BY <1>0, <1>4 DEF Persist, RequestTypes, None, Damaged, keystore
    <2>3. registry' \in [Profiles -> Damaged..creds] /\ handle' \in [Profiles -> 0..creds]
      BY <1>0, <1>4, <2>2 DEF Persist, FileTypes, RequestTypes
    <2>4. made' \in [Profiles -> 0..creds]
      BY <1>0, <1>4, <2>2 DEF Persist, RequestTypes
    <2>5. FileTypes' /\ RequestTypes'
      BY <1>0, <1>4, <2>2, <2>3, <2>4 DEF Persist, FileTypes, RequestTypes
    <2> QED BY <1>4, <1>c, <1>d, <1>e, <2>1, <2>5, <1>i DEF Persist, keystore, lostKeys
  <1>5. ASSUME NEW p \in Profiles, CheckLockout(p) PROVE TypeOK'
    <2>1. StepTypes'
      BY <1>5, <1>g, <1>h, GotoType DEF CheckLockout, Steps
    <2> QED BY <1>5, <1>a, <1>b, <1>c, <1>d, <1>e, <2>1, <1>i
        DEF CheckLockout, keystore, lostKeys
  <1>6. ASSUME NEW p \in Profiles, PromptPin(p) PROVE TypeOK'
    <2>1. StepTypes'
      BY <1>6, <1>g, <1>h, GotoType DEF PromptPin, Steps
    <2> QED BY <1>6, <1>a, <1>b, <1>c, <1>d, <1>e, <2>1, <1>i DEF PromptPin, keystore, lostKeys
  <1>7. ASSUME NEW p \in Profiles, SignLinux(p) PROVE TypeOK'
    <2>1. StepTypes'
      BY <1>7, <1>h, GotoType DEF SignLinux
    <2>2. faults' \in 0..MaxFaults
      BY <1>7, FaultType DEF SignLinux, Unusable
    <2>3. StoreTypes'
      BY <1>0, <1>7 DEF SignLinux, Unusable, StoreTypes
    <2>4. CountTypes'
      BY <1>0, <1>7, <2>2 DEF SignLinux, SigningFails, Signs, Locked, CountTypes
    <2> QED BY <1>7, <1>a, <1>b, <1>d, <2>1, <2>3, <2>4, <1>i DEF SignLinux
  <1>8. ASSUME NEW p \in Profiles, SignWindows(p) PROVE TypeOK'
    <2>1. StepTypes'
      BY <1>8, <1>h, GotoType DEF SignWindows
    <2> QED BY <1>8, <1>a, <1>b, <1>c, <1>d, <1>e, <2>1, <1>i DEF SignWindows, keystore, lostKeys
  <1>9. ASSUME NEW p \in Profiles, RecoverLinux(p) \/ RecoverWindows(p) PROVE TypeOK'
    <2>1. retried' = [retried EXCEPT ![p] = TRUE] => retried' \in [Profiles -> BOOLEAN]
      BY <1>0 DEF StepTypes
    <2>2. StepTypes'
      BY <1>9, <1>h, <2>1, GotoType DEF RecoverLinux, RecoverWindows, Steps
    <2>3. FileTypes'
      BY <1>9, <1>a, RetireType DEF RecoverLinux, RecoverWindows, FileTypes, keystore
    <2> QED BY <1>9, <1>b, <1>c, <1>d, <1>e, <2>2, <2>3, <1>i
        DEF RecoverLinux, RecoverWindows, keystore, lostKeys
  <1>10. ASSUME NEW p \in Profiles, BeginSeal(p) \/ EnsureExists(p) PROVE TypeOK'
    <2>1. StepTypes'
      BY <1>10, <1>g, <1>h, GotoType DEF BeginSeal, EnsureExists, Steps
    <2> QED BY <1>10, <1>a, <1>b, <1>c, <1>d, <1>e, <2>1, <1>i
        DEF BeginSeal, EnsureExists, keystore, lostKeys
  <1>11. ASSUME NEW p \in Profiles, CreateKekFile(p) \/ CreateKekName(p) PROVE TypeOK'
    <2>1. StepTypes'
      BY <1>11, <1>g, <1>h, GotoType DEF CreateKekFile, CreateKekName, NewKek, Steps
    <2>2. KekTypes'
      <3>1. CASE NewKek(p)
        <4>1. /\ kekCount' = kekCount + 1 /\ 1..kekCount \subseteq 1..kekCount' /\ kekCount' \in Nat
              /\ 0..kekCount \subseteq 0..kekCount' /\ kekCount' \in 1..kekCount'
              /\ kekCount' \in 0..kekCount'
          BY <1>0, <3>1 DEF NewKek
        <4>2. vault' \in [Profiles -> 0..kekCount'] /\ wipedKeks' \subseteq 1..kekCount'
          BY <1>0, <1>11, <4>1 DEF CreateKekFile, CreateKekName, KekTypes, lostKeys
        <4>3. kek' = [kek EXCEPT ![Place(p)] = kekCount'] /\ keks' = keks \cup {kekCount'}
          BY <3>1, <4>1 DEF NewKek
        <4>4. kek \in [Places -> 0..kekCount']
          BY <1>0, <4>1 DEF KekTypes
        <4>5. kek' \in [Places -> 0..kekCount']
          BY <4>1, <4>3, <4>4
        <4>6. keks' \subseteq 1..kekCount'
          BY <1>0, <4>1, <4>3 DEF KekTypes
        <4> QED BY <4>1, <4>2, <4>5, <4>6 DEF KekTypes
      <3>2. CASE UNCHANGED <<kek, keks, kekCount>>
        BY <1>11, <1>d, <3>2 DEF CreateKekFile, CreateKekName, lostKeys, wrapping
      <3> QED BY <1>11, <3>1, <3>2 DEF CreateKekFile, CreateKekName
    <2> QED BY <1>11, <1>a, <1>b, <1>c, <1>e, <2>1, <2>2, <1>i
        DEF CreateKekFile, CreateKekName, keystore, lostKeys
  <1>12. ASSUME NEW p \in Profiles, WrapDek(p) PROVE TypeOK'
    <2>1. StepTypes'
      BY <1>12, <1>g, <1>h, GotoType DEF WrapDek, Steps
    <2>2. kek[Place(p)] \in 0..kekCount
      BY <1>0 DEF Place, Places, KekTypes
    <2>3. KekTypes'
      BY <1>0, <1>12, <2>2 DEF WrapDek, KekTypes, lostKeys
    <2> QED BY <1>12, <1>a, <1>b, <1>c, <1>e, <2>1, <2>3, <1>i DEF WrapDek, keystore, lostKeys
  <1>13. ASSUME NEW p \in Profiles, Invalidate(p) PROVE TypeOK'
    <2>1. KekTypes'
      BY <1>0, <1>13 DEF Invalidate, None, KekTypes, lostKeys
    <2> QED BY <1>13, <1>a, <1>b, <1>c, <1>e, <1>f, <1>g, <1>h, <2>1, <1>i
        DEF Invalidate, requests, keystore, lostKeys
  <1>14. ASSUME NEW p \in Profiles, Restart(p) PROVE TypeOK'
    <2>1. StepTypes'
      BY <1>14, <1>h, GotoType DEF Restart
    <2>2. RequestTypes'
      BY <1>0, <1>14 DEF Restart, None, RequestTypes, keystore
    <2> QED BY <1>14, <1>a, <1>c, <1>d, <1>e, <2>1, <2>2, <1>i DEF Restart, keystore, lostKeys
  <1>15. ASSUME NEW p \in Profiles, Damage(p) PROVE TypeOK'
    <2>1. FileTypes'
      BY <1>0, <1>15 DEF Damage, Damaged, FileTypes, keystore
    <2> QED BY <1>15, <1>b, <1>c, <1>d, <1>e, <1>f, <1>g, <1>h, <2>1, <1>i
        DEF Damage, requests, keystore, lostKeys
  <1>16. ASSUME NEW p \in Profiles, NEW q \in Profiles, Adopt(p, q) PROVE TypeOK'
    <2>1. CountTypes'
      BY <1>0, <1>16 DEF Adopt, Locked, CountTypes
    <2> QED BY <1>16, <1>a, <1>b, <1>c, <1>d, <1>f, <1>g, <1>h, <2>1, <1>i
        DEF Adopt, requests, lostKeys
  <1>17. CASE Wipe
    <2>1. KekTypes'
      <3>1. kek' \in [Places -> 0..kekCount]
        <4>1. kek' = [kek EXCEPT !["machine"] = 0] /\ 0 \in 0..kekCount
          BY <1>0, <1>17 DEF Wipe, None
        <4> QED BY <1>0, <4>1 DEF KekTypes
      <3> QED BY <1>0, <1>17, <3>1 DEF Wipe, KekTypes
    <2>2. StoreTypes'
      BY <1>0, <1>17 DEF Wipe, StoreTypes
    <2>3. CountTypes'
      BY <1>0, <1>17 DEF Wipe, CountTypes
    <2> QED BY <1>17, <1>a, <1>b, <1>f, <1>g, <1>h, <2>1, <2>2, <2>3, <1>i DEF Wipe, requests
  <1>18. CASE LockoutRecovers
    <2>1. CountTypes'
      BY <1>0, <1>18 DEF LockoutRecovers, CountTypes
    <2> QED BY <1>18, <1>a, <1>b, <1>c, <1>d, <1>f, <1>g, <1>h, <2>1, <1>i
        DEF LockoutRecovers, requests, lostKeys
  <1>19. CASE UNCHANGED vars
    BY <1>19, <1>a, <1>b, <1>c, <1>d, <1>e, <1>f, <1>g, <1>h, <1>i
    DEF vars, requests, keystore, lostKeys
  <1> QED
    BY <1>1, <1>2, <1>3, <1>4, <1>5, <1>6, <1>7, <1>8, <1>9, <1>10, <1>11, <1>12, <1>13, <1>14,
       <1>15, <1>16, <1>17, <1>18, <1>19
    DEF Next

-----------------------------------------------------------------------------
(* The credentials.                                                        *)

\* A profile whose own files and host are untouched keeps its credentials in
\* order, as long as the platform forgets none of them without a trace.
LEMMA OtherProfile ==
    ASSUME TypeOK, NEW q \in Profiles, Credential(q),
           registry'[q] = registry[q], retired'[q] = retired[q], handle'[q] = handle[q],
           step'[q] = step[q], made'[q] = made[q],
           wiped \subseteq wiped', flaky \subseteq flaky',
           \A c \in 1..creds : user'[c] = user[c],
           \A c \in held : user[c] = q => c \in held' \cup wiped'
    PROVE  Credential(q)'
  <1>1. registry[q] > 0 => registry[q] \in 1..creds
    BY DEF TypeOK, Damaged
  <1>2. made[q] > 0 => made[q] \in 1..creds
    BY DEF TypeOK
  <1> QED BY <1>1, <1>2 DEF Credential

\* A step of one host that leaves the platform's credentials alone.
LEMMA OwnStep ==
    ASSUME TypeOK, CredentialInv, NEW p \in Profiles, Credential(p)',
           \A q \in Profiles \ {p} :
              /\ registry'[q] = registry[q] /\ retired'[q] = retired[q]
              /\ handle'[q] = handle[q] /\ step'[q] = step[q] /\ made'[q] = made[q],
           UNCHANGED <<held, user, wiped>>, flaky \subseteq flaky'
    PROVE  CredentialInv'
  <1>1. ASSUME NEW q \in Profiles \ {p} PROVE Credential(q)'
    <2>1. Credential(q) /\ \A c \in held : user[c] = q => c \in held' \cup wiped'
      BY DEF CredentialInv
    <2>2. /\ registry'[q] = registry[q] /\ retired'[q] = retired[q]
          /\ handle'[q] = handle[q] /\ step'[q] = step[q] /\ made'[q] = made[q]
      OBVIOUS
    <2> QED BY <2>1, <2>2, OtherProfile
  <1> QED BY <1>1 DEF CredentialInv

\* Where the steps that hosts share leave the acting host.
LEMMA GotoStep ==
    ASSUME TypeOK, NEW p \in Profiles
    PROVE  /\ \A s : Goto(p, s) => step'[p] = s /\ \A q \in Profiles \ {p} : step'[q] = step[q]
           /\ Done(p) => step'[p] = "idle" /\ \A q \in Profiles \ {p} : step'[q] = step[q]
           /\ Authorize(p) => step'[p] \in {"check", "sign"} /\ \A q \in Profiles \ {p} : step'[q] = step[q]
           /\ Vanished(p) => step'[p] \in {"idle", "recover"} /\ \A q \in Profiles \ {p} : step'[q] = step[q]
  BY DEF TypeOK, Goto, Done, Authorize, Vanished

\* Every step keeps the credentials of every profile in order.
LEMMA CredentialStep == TypeOK /\ CredentialInv /\ [Next]_vars => CredentialInv'
  <1> SUFFICES ASSUME TypeOK, CredentialInv, [Next]_vars PROVE CredentialInv'
    OBVIOUS
  <1>0. \A p \in Profiles :
          /\ Credential(p) /\ registry[p] \in Int /\ registry[p] >= -1
          /\ handle[p] \in Nat /\ made[p] \in Nat /\ creds \in Nat
    BY DEF CredentialInv, TypeOK, Damaged
  <1>1. ASSUME NEW p \in Profiles, UNCHANGED <<files, handle, made, held, user, wiped>>,
               flaky \subseteq flaky',
               \A q \in Profiles \ {p} : step'[q] = step[q],
               \/ step'[p] \in {"idle", "open", "ensure", "create", "wrap"}
               \/ step'[p] \in {"check", "prompt", "sign"} /\ handle[p] # None
        PROVE  CredentialInv'
    <2>1. Credential(p)'
      BY <1>0, <1>1 DEF Credential, files
    <2> QED BY <1>1, <2>1, OwnStep DEF files
  <1>2. ASSUME NEW p \in Profiles, BeginInject(p) PROVE CredentialInv'
    BY <1>1, <1>2, GotoStep DEF BeginInject, keystore, lostKeys
  <1>3. ASSUME NEW p \in Profiles, OpenOrCreate(p) PROVE CredentialInv'
    <2>1. CASE LoadsRegistry(p) /\ handle' = [handle EXCEPT ![p] = registry[p]] /\ Authorize(p) /\ UNCHANGED files
      <3>1. handle'[p] = registry[p] /\ \A q \in Profiles \ {p} : handle'[q] = handle[q]
        BY <2>1 DEF TypeOK
      <3>2. step'[p] \in {"check", "sign"} /\ \A q \in Profiles \ {p} : step'[q] = step[q]
        BY <2>1, GotoStep
      <3>3. UNCHANGED <<made, held, user, wiped, flaky>>
        BY <1>3 DEF OpenOrCreate, keystore, lostKeys
      <3>4. Credential(p)'
        BY <1>0, <2>1, <3>1, <3>2, <3>3 DEF Credential, LoadsRegistry, files, None
      <3> QED BY <2>1, <3>1, <3>2, <3>3, <3>4, OwnStep DEF files
    <2>2. CASE registry[p] = Damaged /\ Retire(p) /\ Goto(p, "enroll") /\ UNCHANGED handle
      <3>1. /\ registry'[p] = None /\ retired'[p] = retired[p] \cup {registry[p]}
            /\ \A q \in Profiles \ {p} : registry'[q] = registry[q] /\ retired'[q] = retired[q]
        BY <2>2 DEF Retire, TypeOK
      <3>2. step'[p] = "enroll" /\ \A q \in Profiles \ {p} : step'[q] = step[q]
        BY <2>2, GotoStep
      <3>3. UNCHANGED <<made, held, user, wiped, flaky>>
        BY <1>3 DEF OpenOrCreate, keystore, lostKeys
      <3>4. Credential(p)'
        BY <1>0, <2>2, <3>1, <3>2, <3>3 DEF Credential, None
      <3> QED BY <2>2, <3>1, <3>2, <3>3, <3>4, OwnStep
    <2>3. CASE registry[p] = None /\ Goto(p, "enroll") /\ UNCHANGED <<handle, files>>
      <3>1. step'[p] = "enroll" /\ \A q \in Profiles \ {p} : step'[q] = step[q]
        BY <2>3, GotoStep
      <3>2. UNCHANGED <<made, held, user, wiped, flaky>>
        BY <1>3 DEF OpenOrCreate, keystore, lostKeys
      <3>3. Credential(p)'
        BY <1>0, <2>3, <3>1, <3>2 DEF Credential, None, files
      <3> QED BY <2>3, <3>1, <3>2, <3>3, OwnStep DEF files
    <2> QED BY <1>3, <2>1, <2>2, <2>3 DEF OpenOrCreate
  <1>4. ASSUME NEW p \in Profiles, Enroll(p) PROVE CredentialInv'
    <2>1. CASE Make(p) /\ Goto(p, "persist")
      <3>1. step'[p] = "persist" /\ \A q \in Profiles \ {p} : step'[q] = step[q]
        BY <2>1, GotoStep
      <3>2. made'[p] = creds + 1 /\ \A q \in Profiles \ {p} : made'[q] = made[q]
        BY <2>1 DEF Make, TypeOK
      <3>3. /\ user' = [c \in 1..creds + 1 |-> IF c <= creds THEN user[c] ELSE p]
            /\ creds + 1 \in 1..creds + 1 /\ ~(creds + 1 <= creds)
        BY <1>0, <2>1 DEF Make
      <3>4. user'[creds + 1] = p /\ \A c \in 1..creds : user'[c] = user[c]
        BY <1>0, <3>3
      <3>5. /\ creds + 1 \in held'
            /\ \A q \in Profiles \ {p} : \A c \in held : user[c] = q => c \in held'
        BY <2>1 DEF Make
      <3>6. UNCHANGED <<registry, retired, handle, wiped, flaky>>
        BY <1>4 DEF Enroll, files, lostKeys
      <3>7. registry[p] = None
        BY <1>0, <1>4 DEF Enroll, Credential
      <3>8. Credential(p)'
        BY <1>0, <3>1, <3>2, <3>4, <3>5, <3>6, <3>7 DEF Credential, None
      <3>9. ASSUME NEW q \in Profiles \ {p} PROVE Credential(q)'
        <4>1. /\ registry'[q] = registry[q] /\ retired'[q] = retired[q] /\ handle'[q] = handle[q]
              /\ step'[q] = step[q] /\ made'[q] = made[q] /\ Credential(q)
              /\ \A c \in held : user[c] = q => c \in held' \cup wiped'
          BY <1>0, <3>1, <3>2, <3>5, <3>6
        <4> QED BY <3>4, <3>6, <4>1, OtherProfile
      <3> QED BY <3>8, <3>9 DEF CredentialInv
    <2>2. CASE Done(p) /\ UNCHANGED <<held, user, creds, made>>
      BY <1>1, <1>4, <2>2, GotoStep DEF Enroll, lostKeys
    <2> QED BY <1>4, <2>1, <2>2 DEF Enroll
  <1>5. ASSUME NEW p \in Profiles, Persist(p) PROVE CredentialInv'
    <2>1. /\ made'[p] = None /\ \A q \in Profiles \ {p} : made'[q] = made[q]
          /\ UNCHANGED <<retired, held, user, wiped, flaky>>
      BY <1>5 DEF Persist, TypeOK, keystore, lostKeys
    <2>2. made[p] > 0 /\ user[made[p]] = p /\ made[p] \in held \cup wiped
      BY <1>0, <1>5 DEF Persist, Credential
    <2>3. CASE /\ registry' = [registry EXCEPT ![p] = made[p]]
               /\ handle' = [handle EXCEPT ![p] = made[p]] /\ Authorize(p)
      <3>1. /\ registry'[p] = made[p] /\ handle'[p] = made[p]
            /\ \A q \in Profiles \ {p} : registry'[q] = registry[q] /\ handle'[q] = handle[q]
        BY <2>3 DEF TypeOK
      <3>2. step'[p] \in {"check", "sign"} /\ \A q \in Profiles \ {p} : step'[q] = step[q]
        BY <2>3, GotoStep
      <3>3. Credential(p)'
        BY <1>0, <2>1, <2>2, <3>1, <3>2 DEF Credential, None
      <3> QED BY <2>1, <3>1, <3>2, <3>3, OwnStep
    <2>4. CASE Done(p) /\ UNCHANGED <<registry, handle>>
      <3>1. step'[p] = "idle" /\ \A q \in Profiles \ {p} : step'[q] = step[q]
        BY <2>4, GotoStep
      <3>2. Credential(p)'
        BY <1>0, <2>1, <2>4, <3>1 DEF Credential
      <3> QED BY <2>1, <2>4, <3>1, <3>2, OwnStep
    <2> QED BY <1>5, <2>3, <2>4 DEF Persist
  <1>6. ASSUME NEW p \in Profiles, CheckLockout(p) \/ PromptPin(p) PROVE CredentialInv'
    <2>1. handle[p] # None
      BY <1>0, <1>6 DEF CheckLockout, PromptPin, Credential
    <2> QED BY <1>1, <1>6, <2>1, GotoStep DEF CheckLockout, PromptPin, keystore, lostKeys
  <1>7. ASSUME NEW p \in Profiles, UNCHANGED <<files, handle, made, held, user, wiped>>,
               step[p] = "sign", Vanished(p), flaky \subseteq flaky',
               handle[p] \notin held \/ handle[p] \in flaky'
        PROVE  CredentialInv'
    <2>1. handle[p] # None /\ (registry[p] > 0 => registry[p] \in wiped \cup flaky')
      BY <1>0, <1>7 DEF Credential
    <2>2. step'[p] \in {"idle", "recover"} /\ \A q \in Profiles \ {p} : step'[q] = step[q]
      BY <1>7, GotoStep
    <2>3. Credential(p)'
      BY <1>0, <1>7, <2>1, <2>2 DEF Credential, files
    <2> QED BY <1>7, <2>2, <2>3, OwnStep DEF files
  <1>8. ASSUME NEW p \in Profiles, SignLinux(p) PROVE CredentialInv'
    <2>1. CASE Unusable(handle[p]) /\ Vanished(p)
      BY <1>7, <1>8, <2>1 DEF SignLinux, Unusable
    <2>2. CASE Done(p) /\ UNCHANGED flaky
      BY <1>1, <1>8, <2>2, GotoStep DEF SignLinux
    <2> QED BY <1>8, <2>1, <2>2 DEF SignLinux
  <1>9. ASSUME NEW p \in Profiles, SignWindows(p) PROVE CredentialInv'
    <2>1. CASE Done(p)
      BY <1>1, <1>9, <2>1, GotoStep DEF SignWindows, keystore, lostKeys
    <2>2. CASE handle[p] \notin held /\ Vanished(p)
      BY <1>7, <1>9, <2>2 DEF SignWindows, keystore, lostKeys
    <2> QED BY <1>9, <2>1, <2>2 DEF SignWindows
  <1>10. ASSUME NEW p \in Profiles, RecoverLinux(p) \/ RecoverWindows(p) PROVE CredentialInv'
    <2>1. step[p] = "recover" /\ UNCHANGED <<handle, made, held, user, wiped, flaky>>
      BY <1>10 DEF RecoverLinux, RecoverWindows, keystore, lostKeys
    <2>2. CASE registry[p] # None /\ Retire(p) /\ Goto(p, "enroll")
      <3>1. /\ registry'[p] = None /\ retired'[p] = retired[p] \cup {registry[p]}
            /\ \A q \in Profiles \ {p} : registry'[q] = registry[q] /\ retired'[q] = retired[q]
        BY <2>2 DEF Retire, TypeOK
      <3>2. step'[p] = "enroll" /\ \A q \in Profiles \ {p} : step'[q] = step[q]
        BY <2>2, GotoStep
      <3>3. registry[p] = Damaged \/ registry[p] \in wiped \cup flaky
        BY <1>0, <2>1, <2>2 DEF Credential, None, Damaged
      <3>4. Credential(p)'
        BY <1>0, <2>1, <3>1, <3>2, <3>3 DEF Credential, None
      <3> QED BY <2>1, <3>1, <3>2, <3>4, OwnStep
    <2>3. CASE registry[p] = None /\ UNCHANGED files /\ (Goto(p, "enroll") \/ Done(p))
      <3>1. step'[p] \in {"enroll", "idle"} /\ \A q \in Profiles \ {p} : step'[q] = step[q]
        BY <2>3, GotoStep
      <3>2. Credential(p)'
        BY <1>0, <2>1, <2>3, <3>1 DEF Credential, None, files
      <3> QED BY <2>1, <2>3, <3>1, <3>2, OwnStep DEF files
    <2> QED BY <1>10, <2>2, <2>3 DEF RecoverLinux, RecoverWindows
  <1>11. ASSUME NEW p \in Profiles,
                BeginSeal(p) \/ EnsureExists(p) \/ CreateKekFile(p) \/ CreateKekName(p) \/ WrapDek(p)
         PROVE  CredentialInv'
    <2>1. UNCHANGED <<files, handle, made, held, user, wiped, flaky>>
      BY <1>11 DEF BeginSeal, EnsureExists, CreateKekFile, CreateKekName, WrapDek, keystore, lostKeys
    <2>2. \E s \in {"idle", "ensure", "create", "wrap"} : Goto(p, s)
      BY <1>11 DEF BeginSeal, EnsureExists, CreateKekFile, CreateKekName, NewKek, WrapDek
    <2> QED BY <1>1, <2>1, <2>2, GotoStep
  <1>12. ASSUME NEW p \in Profiles, Restart(p) PROVE CredentialInv'
    <2>1. /\ handle'[p] = None /\ made'[p] = None /\ step'[p] = "idle"
          /\ \A q \in Profiles \ {p} :
                handle'[q] = handle[q] /\ made'[q] = made[q] /\ step'[q] = step[q]
          /\ UNCHANGED <<registry, retired, held, user, wiped, flaky>>
      BY <1>12, GotoStep DEF Restart, TypeOK, files, keystore, lostKeys
    <2>2. Credential(p)'
      BY <1>0, <2>1 DEF Credential
    <2> QED BY <2>1, <2>2, OwnStep
  <1>13. ASSUME NEW p \in Profiles, Damage(p) PROVE CredentialInv'
    <2>1. /\ registry'[p] = Damaged /\ registry[p] > 0
          /\ \A q \in Profiles \ {p} : registry'[q] = registry[q]
          /\ UNCHANGED <<retired, handle, made, step, held, user, wiped, flaky>>
      BY <1>13 DEF Damage, TypeOK, requests, keystore, lostKeys
    <2>2. Credential(p)'
      BY <1>0, <2>1 DEF Credential, Damaged, None
    <2> QED BY <2>1, <2>2, OwnStep
  <1>14. CASE /\ UNCHANGED <<files, requests, user>> /\ flaky' = flaky
              /\ wiped \subseteq wiped' /\ held \subseteq held' \cup wiped'
    <2>1. ASSUME NEW q \in Profiles PROVE Credential(q)'
      <3>1. /\ registry'[q] = registry[q] /\ retired'[q] = retired[q] /\ handle'[q] = handle[q]
            /\ step'[q] = step[q] /\ made'[q] = made[q] /\ Credential(q)
            /\ \A c \in 1..creds : user'[c] = user[c]
            /\ \A c \in held : user[c] = q => c \in held' \cup wiped'
        BY <1>0, <1>14 DEF files, requests
      <3> QED BY <1>14, <3>1, OtherProfile
    <2> QED BY <2>1 DEF CredentialInv
  <1>15. CASE Wipe
    BY <1>14, <1>15 DEF Wipe
  <1>16. ASSUME NEW p \in Profiles, Invalidate(p) \/ \E q \in Profiles : Adopt(p, q) PROVE CredentialInv'
    BY <1>14, <1>16 DEF Invalidate, Adopt, keystore, lostKeys
  <1>17. CASE LockoutRecovers \/ UNCHANGED vars
    BY <1>14, <1>17 DEF LockoutRecovers, vars, keystore, lostKeys
  <1> QED
    BY <1>2, <1>3, <1>4, <1>5, <1>6, <1>8, <1>9, <1>10, <1>11, <1>12, <1>13, <1>15, <1>16, <1>17
    DEF Next

-----------------------------------------------------------------------------
(* The key-encryption keys.                                                *)

\* Every step keeps the key-encryption keys.
LEMMA KekStep == TypeOK /\ KekInv /\ [Next]_vars => KekInv'
  <1> SUFFICES ASSUME TypeOK, KekInv, [Next]_vars PROVE KekInv'
    OBVIOUS
  <1> DEFINE Waiting(p) == platform = "linux" /\ step[p] = "create" => kek[p] = None
             Kept(p) == vault[p] # None =>
                          vault[p] \in wipedKeks \/ (vault[p] = kek[Place(p)] /\ vault[p] \in keks)
  <1>0. \A p \in Profiles : Waiting(p) /\ Kept(p)
    BY DEF KekInv, KekKept
  <1>1. ASSUME \A q \in Profiles : Waiting(q)' /\ Kept(q)' PROVE KekInv'
    BY <1>1 DEF KekInv, KekKept
  <1>2. ASSUME NEW p \in Profiles, UNCHANGED <<platform, wrapping, wipedKeks>>,
               \A q \in Profiles \ {p} : step'[q] = step[q],
               step'[p] # "create" \/ kek[Place(p)] = None
        PROVE  KekInv'
    <2>1. \A q \in Profiles : Kept(q)'
      BY <1>0, <1>2 DEF Place, wrapping
    <2>2. \A q \in Profiles \ {p} : Waiting(q)'
      BY <1>0, <1>2 DEF wrapping
    <2>3. Waiting(p)'
      BY <1>2 DEF Place, wrapping
    <2> QED BY <1>1, <2>1, <2>2, <2>3
  <1>3. ASSUME NEW p \in Profiles,
               \/ BeginInject(p) \/ OpenOrCreate(p) \/ Enroll(p) \/ Persist(p) \/ CheckLockout(p)
               \/ PromptPin(p) \/ SignLinux(p) \/ SignWindows(p)
               \/ RecoverLinux(p) \/ RecoverWindows(p) \/ BeginSeal(p) \/ Restart(p)
        PROVE  KekInv'
    <2>1. UNCHANGED <<platform, wrapping, wipedKeks>>
      BY <1>3 DEF BeginInject, OpenOrCreate, Enroll, Persist, CheckLockout, PromptPin, SignLinux,
                  SignWindows, RecoverLinux, RecoverWindows, BeginSeal, Restart, lostKeys
    <2>2. \/ \E s \in {"open", "enroll", "persist", "prompt", "sign", "ensure"} : Goto(p, s)
          \/ Done(p) \/ Authorize(p) \/ Vanished(p)
      BY <1>3 DEF BeginInject, OpenOrCreate, Enroll, Persist, CheckLockout, PromptPin, SignLinux,
                  SignWindows, RecoverLinux, RecoverWindows, BeginSeal, Restart
    <2>3. step'[p] # "create" /\ \A q \in Profiles \ {p} : step'[q] = step[q]
      BY <2>2, GotoStep
    <2> QED BY <1>2, <2>1, <2>3
  <1>4. ASSUME NEW p \in Profiles, EnsureExists(p) PROVE KekInv'
    BY <1>2, <1>4, GotoStep DEF EnsureExists, lostKeys
  <1>5. ASSUME NEW p \in Profiles, CreateKekFile(p) \/ CreateKekName(p) PROVE KekInv'
    <2>1. UNCHANGED <<platform, vault, wipedKeks>>
      BY <1>5 DEF CreateKekFile, CreateKekName, lostKeys
    <2>2. CASE NewKek(p) /\ kek[Place(p)] = None
      <3>1. step'[p] = "wrap" /\ \A q \in Profiles \ {p} : step'[q] = step[q]
        BY <2>2, GotoStep DEF NewKek
      <3>2. Place(p) \in Places /\ \A q \in Profiles : Place(q) \in Places /\ q \in Places
        BY DEF Place, Places
      <3>3. \A x \in Places : x # Place(p) => kek'[x] = kek[x]
        BY <2>2, <3>2 DEF NewKek, TypeOK
      <3>4. keks \subseteq keks'
        BY <2>2 DEF NewKek
      <3>5. \A q \in Profiles : Waiting(q)'
        <4>1. \A q \in Profiles \ {p} : platform = "linux" => q # Place(p)
          BY DEF Place
        <4> QED BY <1>0, <2>1, <3>1, <3>2, <3>3, <4>1
      <3>6. \A q \in Profiles : Kept(q)'
        <4> TAKE q \in Profiles
        <4>1. vault[q] # None /\ vault[q] = kek[Place(q)] => Place(q) # Place(p)
          BY <2>2
        <4>2. Place(q)' = Place(q)
          BY <2>1 DEF Place
        <4> QED BY <1>0, <2>1, <3>2, <3>3, <3>4, <4>1, <4>2
      <3> QED BY <1>1, <3>5, <3>6
    <2>3. CASE Goto(p, "idle") /\ UNCHANGED <<kek, keks, kekCount>>
      BY <1>2, <2>1, <2>3, GotoStep DEF wrapping
    <2>4. CreateKekFile(p) => kek[Place(p)] = None
      BY <1>0 DEF CreateKekFile, Place
    <2> QED BY <1>5, <2>2, <2>3, <2>4 DEF CreateKekFile, CreateKekName
  <1>6. ASSUME NEW p \in Profiles, WrapDek(p) PROVE KekInv'
    <2>1. /\ UNCHANGED <<platform, kek, keks, wipedKeks>>
          /\ step'[p] = "idle" /\ \A q \in Profiles \ {p} : step'[q] = step[q]
      BY <1>6, GotoStep DEF WrapDek, lostKeys
    <2>2. \A q \in Profiles : vault'[q] = vault[q] \/ (vault'[q] = kek[Place(q)] /\ vault'[q] \in keks)
      BY <1>6 DEF WrapDek, Usable, TypeOK
    <2>3. \A q \in Profiles : Place(q)' = Place(q)
      BY <2>1 DEF Place
    <2> QED BY <1>0, <1>1, <2>1, <2>2, <2>3
  <1>7. ASSUME NEW p \in Profiles, Invalidate(p) PROVE KekInv'
    <2>1. UNCHANGED <<platform, step, kek, keks, wipedKeks>>
      BY <1>7 DEF Invalidate, requests, lostKeys
    <2>2. \A q \in Profiles : vault'[q] = vault[q] \/ vault'[q] = None
      BY <1>7 DEF Invalidate, TypeOK
    <2>3. \A q \in Profiles : Place(q)' = Place(q)
      BY <2>1 DEF Place
    <2> QED BY <1>0, <1>1, <2>1, <2>2, <2>3
  <1>8. CASE UNCHANGED <<platform, step, wrapping, wipedKeks>>
    BY <1>0, <1>1, <1>8 DEF Place, wrapping
  <1>9. CASE Wipe
    <2>1. /\ UNCHANGED <<platform, step, vault>>
          /\ wipedKeks' = wipedKeks \cup keks
          /\ \A q \in Profiles : kek'[q] \in {kek[q], None}
      BY <1>9 DEF Wipe, requests, TypeOK, Places
    <2> QED BY <1>0, <1>1, <2>1
  <1>10. ASSUME NEW p \in Profiles, Damage(p) \/ \E q \in Profiles : Adopt(p, q) PROVE KekInv'
    BY <1>8, <1>10 DEF Damage, Adopt, requests, lostKeys
  <1>11. CASE LockoutRecovers \/ UNCHANGED vars
    BY <1>8, <1>11 DEF LockoutRecovers, vars, requests, lostKeys
  <1> QED
    BY <1>3, <1>4, <1>5, <1>6, <1>7, <1>9, <1>10, <1>11 DEF Next

-----------------------------------------------------------------------------
(* The theorems.                                                           *)

\* The initial state satisfies the invariant.
LEMMA InvInit == Init => Inv
  <1> SUFFICES ASSUME Init PROVE Inv
    OBVIOUS
  <1>1. CredentialInv
    <2>1. ASSUME NEW p \in Profiles PROVE Credential(p)
      <3>1. registry[p] = 0 /\ step[p] = "idle" /\ retired[p] = {}
        BY DEF Init, None
      <3>2. ~(registry[p] > 0)
        BY <3>1
      <3> QED BY <3>1, <3>2 DEF Credential
    <2> QED BY <2>1 DEF CredentialInv
  <1>2. KekInv
    BY DEF Init, KekInv, KekKept
  <1> QED BY TypeInit, <1>1, <1>2 DEF Inv

\* The invariant holds in every state of every behaviour.
LEMMA InvHolds == Spec => []Inv
  <1>1. Inv /\ [Next]_vars => Inv'
    BY TypeStep, CredentialStep, KekStep DEF Inv
  <1> QED BY InvInit, <1>1, PTL DEF Spec

\* Every part of the state keeps its type.
THEOREM AuthorizerTypeCorrect == Spec => []TypeOK
  <1>1. Inv => TypeOK
    BY DEF Inv
  <1> QED BY <1>1, InvHolds, PTL

\* recover_if_credential_vanished retires a credential only after the platform
\* lost it or would not load it, or its file was damaged: never for a wrong
\* PIN, a lockout or a dismissed prompt.
THEOREM RetiredOnlyUnusable == Spec => []RetiredUnusable
  <1>1. Inv => RetiredUnusable
    BY DEF Inv, CredentialInv, Credential, RetiredUnusable
  <1> QED BY <1>1, InvHolds, PTL

\* The authorizer that begin_inject has cached is the one that the registry
\* names, through every recovery.
THEOREM CachedFollowsRegistry == Spec => []HandleFollows
  <1>1. Inv => HandleFollows
    BY DEF Inv, CredentialInv, Credential, HandleFollows
  <1> QED BY <1>1, InvHolds, PTL

\* An enrollment of one profile never takes away the credential of another.
THEOREM EnrollmentsApart == Spec => []ProfilesApart
  <1>1. Inv => ProfilesApart
    BY DEF Inv, CredentialInv, Credential, ProfilesApart
  <1> QED BY <1>1, InvHolds, PTL

\* The key that wrapped a vault's data key stays the one its host opens, though
\* two hosts create the platform key at the same time.
THEOREM VaultStaysReadable == Spec => []KekKept
  <1>1. Inv => KekKept
    BY DEF Inv, KekInv
  <1> QED BY <1>1, InvHolds, PTL

=============================================================================
