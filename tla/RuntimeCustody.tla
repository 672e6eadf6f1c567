---------------------------- MODULE RuntimeCustody ----------------------------
(***************************************************************************)
(* What the provider-control ledger promises for one resource generation   *)
(* of a managed server: the provider is asked to create it at most once,   *)
(* handles are only recorded while the capacity slot is still reserved,    *)
(* and the slot is released only when every recorded handle is gone.       *)
(***************************************************************************)
EXTENDS Naturals
CONSTANTS Handles
VARIABLES
    creates,    \* create calls issued to the provider
    known,      \* handles the ledger has recorded
    gone,       \* handles the provider no longer has
    slot        \* the capacity reservation: "reserved" or "released"

cvars == <<creates, known, gone, slot>>

CustodyInit ==
    creates = 0 /\ known = {} /\ gone = {} /\ slot = "reserved"

Create == creates = 0 /\ creates' = 1 /\ UNCHANGED <<known, gone, slot>>

Record ==
    /\ slot = "reserved"
    /\ known' \in SUBSET Handles /\ known \subseteq known'
    /\ UNCHANGED <<creates, gone, slot>>

Vanish ==
    /\ gone' \in SUBSET Handles /\ gone \subseteq gone'
    /\ UNCHANGED <<creates, known, slot>>

Release ==
    /\ slot = "reserved" /\ known \subseteq gone
    /\ slot' = "released"
    /\ UNCHANGED <<creates, known, gone>>

CustodyNext == Create \/ Record \/ Vanish \/ Release

CustodySpec == CustodyInit /\ [][CustodyNext]_cvars
=============================================================================
