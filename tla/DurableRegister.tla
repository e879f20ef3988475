--------------------------- MODULE DurableRegister ---------------------------
(***************************************************************************)
(* What a durable file promises to the component that keeps its state in   *)
(* it: a register that one writer replaces as a whole.  A reader sees the  *)
(* value before or after a write and nothing else; a write that answered   *)
(* Ok survives a loss of power and one that answered Err left the old      *)
(* value, both as long as the register is settled; a write that a crash    *)
(* cut short did one or the other.  A failed flush unsettles the register: *)
(* the value is the new one, but the power may still take it back.         *)
(***************************************************************************)
CONSTANTS Contents, Absent

VARIABLES
    value,    \* what a reader of the file finds
    stable,   \* what a reader finds after the power was lost
    settled,  \* no flush failed since the last one that succeeded
    phase,    \* "quiet", "asked" (old value), "applied" (new value)
    reply     \* of the last write: "none", "Ok", "Err"

regvars == <<value, stable, settled, phase, reply>>

Init == value = Absent /\ stable = Absent /\ settled = TRUE /\ phase = "quiet" /\ reply = "none"

Ask ==
    /\ phase = "quiet"
    /\ phase' = "asked" /\ reply' = "none"
    /\ UNCHANGED <<value, stable, settled>>

Apply ==
    /\ phase = "asked"
    /\ value' \in Contents
    /\ phase' = "applied"
    /\ UNCHANGED <<stable, settled, reply>>

AnswerOk ==
    /\ phase = "applied"
    /\ stable' = value /\ settled' = TRUE
    /\ phase' = "quiet" /\ reply' = "Ok"
    /\ UNCHANGED value

Unsettle ==
    /\ phase = "applied"
    /\ settled' = FALSE
    /\ UNCHANGED <<value, stable, phase, reply>>

AnswerUnsettled ==
    /\ phase = "applied" /\ ~settled
    /\ phase' = "quiet" /\ reply' \in {"Ok", "Err"}
    /\ UNCHANGED <<value, stable, settled>>

AnswerErr ==
    /\ phase = "asked"
    /\ phase' = "quiet" /\ reply' = "Err"
    /\ UNCHANGED <<value, stable, settled>>

\* The process dies; the operating system does not.
Die ==
    /\ phase' = "quiet" /\ reply' = "none"
    /\ UNCHANGED <<value, stable, settled>>

LosePower ==
    /\ value' \in {value, stable}
    /\ stable' = value' /\ settled' = TRUE
    /\ phase' = "quiet" /\ reply' = "none"

Next ==
    \/ Ask \/ Apply \/ AnswerOk \/ Unsettle \/ AnswerUnsettled \/ AnswerErr
    \/ Die \/ LosePower

Spec == Init /\ [][Next]_regvars

==============================================================================
