----------------------------- MODULE CommandOutcome -----------------------------
(***************************************************************************)
(* What the control plane and the Guard promise together for the mutating  *)
(* commands of one server: a command is either refused, and then its       *)
(* effect never happens, or it begins, while no other command is open; its *)
(* effect happens at most once; and it is settled when the effect is over. *)
(* The promise ends for a command the server has forgotten: its outcome is *)
(* then nobody's to say.                                                   *)
(***************************************************************************)
CONSTANTS Mutations
VARIABLES
    phase,      \* "waiting", "refused", "open", "settled" or "forgotten"
    effect      \* "no", "running" or "over"

ovars == <<phase, effect>>

OutcomeInit ==
    /\ phase = [c \in Mutations |-> "waiting"]
    /\ effect = [c \in Mutations |-> "no"]

To(c, p) == phase' = [phase EXCEPT ![c] = p]

Refuse(c) == phase[c] = "waiting" /\ To(c, "refused") /\ UNCHANGED effect

Begin(c) ==
    /\ phase[c] = "waiting" /\ \A d \in Mutations : phase[d] # "open"
    /\ To(c, "open") /\ UNCHANGED effect

Effect(c) ==
    /\ phase[c] = "open" /\ effect[c] = "no"
    /\ effect' = [effect EXCEPT ![c] = "running"] /\ UNCHANGED phase

EffectOver(c) ==
    /\ effect[c] = "running"
    /\ effect' = [effect EXCEPT ![c] = "over"] /\ UNCHANGED phase

Settle(c) ==
    /\ phase[c] = "open" /\ effect[c] # "running"
    /\ To(c, "settled") /\ UNCHANGED effect

Forget(c) ==
    /\ phase[c] \in {"waiting", "open"} /\ To(c, "forgotten")
    /\ effect' = [effect EXCEPT ![c] = "over"]

OutcomeNext ==
    \E c \in Mutations :
        Refuse(c) \/ Begin(c) \/ Effect(c) \/ EffectOver(c) \/ Settle(c) \/ Forget(c)

OutcomeSpec == OutcomeInit /\ [][OutcomeNext]_ovars
=============================================================================
