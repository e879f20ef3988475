-------------------------- MODULE CapabilityLedger --------------------------
(***************************************************************************)
(* Authorization of one injection: the durable capability ledger of a      *)
(* group (lease/state_machine.rs, lease/store.rs) and the transaction that *)
(* reserves a capability, has the platform sign it after verifying the     *)
(* user, consumes it durably and only then lets the vault key be unwrapped *)
(* (transaction.rs, called from begin_inject in dispatcher.rs).            *)
(*                                                                         *)
(* A payload is its sequence number and its nonce; the group and the       *)
(* operation are fixed here.  Every prompt draws a fresh nonce.  The clock *)
(* matters once: the user may answer the prompt after the capability       *)
(* expired.  A ledger write fails before the file is replaced or, when     *)
(* only the directory flush fails, after it (see DurableWrite).            *)
(***************************************************************************)
EXTENDS Naturals, Sequences

CONSTANTS
    Window,      \* REPLAY_NONCE_WINDOW
    MaxSigned,   \* bound: capabilities reserved
    MaxFaults    \* bound: I/O errors

ASSUME LedgerAssumption == Window \in Nat \ {0} /\ MaxSigned \in Nat /\ MaxFaults \in Nat

VARIABLES
    disk,      \* the ledger file
    mem,       \* the ledger in memory
    at,        \* "down", "open", "idle", or the next step of an authorization
    next,      \* the ledger being persisted
    signed,    \* the payload that the platform signed, or NoPayload
    retried,   \* the credential vanished once and the authorization was repeated
    token,     \* the ConsumedCapability that was handed out, 0 for none
    nonces,    \* nonces drawn so far
    opened,    \* history: sequence numbers whose token opened the vault, in order
    approved,  \* history: payloads the user approved
    faults

vars == <<disk, mem, at, next, signed, retried, token, nonces, opened, approved, faults>>

Payload   == [seq : Nat \ {0}, nonce : Nat \ {0}]
NoPayload == [seq |-> 0, nonce |-> 0]

Ledger    == [issued : Nat, consumed : Nat, nonces : Seq(Nat), pending : Payload \cup {NoPayload}]
NewLedger == [issued |-> 0, consumed |-> 0, nonces |-> <<>>, pending |-> NoPayload]
\* NoLedger: the file does not exist; 0 is no nonce.
NoLedger  == [issued |-> 0, consumed |-> 0, nonces |-> <<0>>, pending |-> NoPayload]

Init ==
    /\ disk = NoLedger /\ mem = NoLedger /\ at = "down" /\ next = NoLedger
    /\ signed = NoPayload /\ retried = FALSE /\ token = 0
    /\ nonces = 0 /\ opened = <<>> /\ approved = {} /\ faults = 0

history == <<nonces, opened, approved>>

-----------------------------------------------------------------------------
(* FileCapabilityLedgerStore::persist.                                     *)

IOError == faults < MaxFaults /\ faults' = faults + 1

Start(step, ledger) == at' = step /\ next' = ledger

\* The write succeeds; the copy in memory follows.
Persisted == disk' = next /\ mem' = next /\ UNCHANGED faults

\* The write fails, before or after the file was replaced.
PersistFails == IOError /\ disk' \in {disk, next} /\ UNCHANGED mem

-----------------------------------------------------------------------------
(* Opening the group (load_or_initialize, VaultTransactions::open).        *)

\* A reservation that outlived its process is cancelled, its number is kept.
Open ==
    /\ at = "down"
    /\ IF disk = NoLedger
       THEN Start("initialize", NewLedger) /\ mem' = NoLedger
       ELSE /\ mem' = disk
            /\ IF disk.pending # NoPayload
               THEN Start("discard", [disk EXCEPT !.pending = NoPayload])
               ELSE Start("idle", disk)
    /\ UNCHANGED <<disk, signed, retried, token, history, faults>>

OpenWrites ==
    /\ at \in {"initialize", "discard"}
    /\ \/ Persisted /\ at' = "idle"
       \/ PersistFails /\ at' = "down"
    /\ UNCHANGED <<next, signed, retried, token, history>>

-----------------------------------------------------------------------------
(* authorize_inject.                                                       *)

Failed == at' = "idle" /\ signed' = NoPayload /\ UNCHANGED <<next, retried, token>>

\* Mutant of NextSequence: the number after the last one used.
NextUnconsumed == mem.consumed + 1

NextSequence == mem.issued + 1

\* reserve: refused while another reservation is pending.
StartReserve ==
    LET payload == [seq |-> NextSequence, nonce |-> nonces + 1]
    IN  /\ mem.pending = NoPayload
        /\ nonces < MaxSigned /\ nonces' = nonces + 1
        /\ Start("reserve", [mem EXCEPT !.issued = payload.seq, !.pending = payload])
        /\ signed' = NoPayload
        /\ UNCHANGED <<disk, mem, token, opened, approved, faults>>

Reserve == at = "idle" /\ token = 0 /\ StartReserve /\ retried' = FALSE

ReserveWrites ==
    /\ at = "reserve"
    /\ \/ Persisted /\ at' = "prompt" /\ UNCHANGED <<next, signed, retried, token>>
       \/ PersistFails /\ Failed
    /\ UNCHANGED history

\* external: the platform signs the payload once it has verified the user.
Sign ==
    /\ at = "prompt"
    /\ signed' = mem.pending
    /\ approved' = approved \cup {mem.pending}
    /\ at' = "verify"
    /\ UNCHANGED <<disk, mem, next, retried, token, nonces, opened, faults>>

\* Mutant of SignFails: the refusal is not looked at.
SignRefusalIgnored(vanished) ==
    /\ at = "prompt"
    /\ signed' = mem.pending /\ at' = "verify"
    /\ UNCHANGED <<disk, mem, next, retried, token, history, faults>>

\* The user refuses, or the platform has lost the credential: cancel_pending.
SignFails(vanished) ==
    /\ at = "prompt"
    /\ Start(IF vanished THEN "cancel_vanished" ELSE "cancel",
             [mem EXCEPT !.pending = NoPayload])
    /\ UNCHANGED <<disk, mem, signed, retried, token, history, faults>>

CancelWrites ==
    /\ at \in {"cancel", "cancel_vanished"}
    /\ \/ /\ Persisted /\ at = "cancel_vanished" /\ ~retried
          /\ at' = "repeat" /\ UNCHANGED <<next, signed, retried, token>>
       \/ Persisted /\ Failed
       \/ PersistFails /\ Failed
    /\ UNCHANGED history

\* recover_if_credential_vanished enrolled a new credential, which may fail:
\* once more.
Repeat == at = "repeat" /\ StartReserve /\ retried' = TRUE

ConsumedLedger(payload) ==
    LET used == Append(mem.nonces, payload.nonce)
    IN  [mem EXCEPT !.consumed = payload.seq, !.pending = NoPayload,
                    !.nonces = IF Len(used) > Window THEN Tail(used) ELSE used]

\* The replay checks of verify_and_consume.
Fresh(payload) ==
    /\ payload.seq > mem.consumed
    /\ \A i \in 1 .. Len(mem.nonces) : mem.nonces[i] # payload.nonce
    /\ payload = mem.pending

\* verify_and_consume: the reservation is left in place when a check fails.
\* expired: the prompt outlasted the capability, or the clock was set back.
Verify(expired) ==
    /\ at = "verify"
    /\ IF ~expired /\ Fresh(signed)
       THEN Start("consume", ConsumedLedger(signed)) /\ UNCHANGED <<signed, retried, token>>
       ELSE Failed
    /\ UNCHANGED <<disk, mem, history, faults>>

\* Mutant of ConsumeWrites: the token is handed out although the write failed.
ConsumeWritesUnchecked ==
    /\ at = "consume"
    /\ Persisted \/ PersistFails
    /\ at' = "idle" /\ token' = signed.seq /\ signed' = NoPayload
    /\ UNCHANGED <<next, retried, history>>

ConsumeWrites ==
    /\ at = "consume"
    /\ \/ /\ Persisted
          /\ at' = "idle" /\ token' = signed.seq /\ signed' = NoPayload
          /\ UNCHANGED <<next, retried>>
       \/ PersistFails /\ Failed
    /\ UNCHANGED history

\* Mutant of ReadForInject: the token is borrowed, not moved.
ReadBorrowing ==
    /\ token # 0 /\ Len(opened) < MaxSigned
    /\ opened' = Append(opened, token)
    /\ UNCHANGED <<disk, mem, at, next, signed, retried, token, nonces, approved, faults>>

\* read_for_inject: the token is moved into the one read that it authorizes;
\* the vault file may be unreadable.
ReadForInject ==
    /\ token # 0
    /\ token' = 0
    /\ \/ opened' = Append(opened, token) /\ UNCHANGED faults
       \/ IOError /\ UNCHANGED opened
    /\ UNCHANGED <<disk, mem, at, next, signed, retried, nonces, approved>>

Crash ==
    /\ at # "down"
    /\ disk' \in IF at \in {"initialize", "discard", "reserve", "cancel", "cancel_vanished",
                            "consume"} THEN {disk, next} ELSE {disk}
    /\ at' = "down" /\ mem' = NoLedger /\ next' = NoLedger
    /\ signed' = NoPayload /\ retried' = FALSE /\ token' = 0
    /\ UNCHANGED <<history, faults>>

Next ==
    \/ Crash \/ Open \/ OpenWrites \/ Reserve \/ ReserveWrites \/ Sign
    \/ CancelWrites \/ Repeat \/ ConsumeWrites \/ ReadForInject
    \/ \E vanished \in BOOLEAN : SignFails(vanished)
    \/ \E expired \in BOOLEAN : Verify(expired)

Spec == Init /\ [][Next]_vars

-----------------------------------------------------------------------------
(* Properties.                                                             *)

TypeOK ==
    /\ disk \in Ledger /\ mem \in Ledger /\ next \in Ledger
    /\ Len(disk.nonces) <= Window
    /\ at \in {"down", "initialize", "discard", "idle", "reserve", "prompt", "verify", "cancel",
               "cancel_vanished", "repeat", "consume"}
    /\ signed \in Payload \cup {NoPayload}
    /\ retried \in BOOLEAN
    /\ token \in Nat /\ nonces \in Nat /\ faults \in Nat
    /\ opened \in Seq(Nat)
    /\ approved \subseteq Payload

\* The vault is opened at most once per capability, and in the order of their
\* numbers, across crashes, failed writes and repeated prompts.
SingleUse == \A i, j \in 1 .. Len(opened) : i < j => opened[i] < opened[j]

\* Two approvals by the user never share a sequence number: a number whose
\* prompt was shown is never issued again, whatever happens to the ledger file.
ApprovalsDistinct == \A p, q \in approved : p.seq = q.seq => p = q

\* The vault key may be unwrapped only when the capability is consumed on disk:
\* a crash right after it cannot bring the capability back.
ConsumedBeforeUnwrap == token # 0 => disk.consumed >= token /\ disk.pending = NoPayload

\* Every opening was approved by the user.
OpenedApproved == \A i \in 1 .. Len(opened) : \E p \in approved : p.seq = opened[i]

\* After an authorization ended without success another one can be started: no
\* reservation is left that refuses it until the host restarts.
RetryPossible == at = "idle" => mem.pending = NoPayload

=============================================================================
