--------------------------- MODULE DurableRegister ---------------------------
(***************************************************************************)
(* What util.WritePrivateFile promises its callers: one file that always   *)
(* holds the complete output of some write, that a power loss takes back   *)
(* at most to the last persisted write, and whose writes are acknowledged  *)
(* only once no power loss can undo them.                                  *)
(***************************************************************************)
CONSTANTS
    Calls,      \* the writes, each with its own payload
    Origin,     \* what the path may hold at the start, a complete file or none
    Link        \* what another program may put at the path

VARIABLES
    value,      \* what a reader of the path sees
    stable,     \* what it would see after a power loss
    volatile,   \* writes that replaced value and are not persisted yet
    settled,    \* writes that no power loss can undo, superseded ones included
    acked       \* writes whose caller was told that they succeeded

vars == <<value, stable, volatile, settled, acked>>

Init ==
    /\ value \in Origin
    /\ stable = value
    /\ volatile = {}
    /\ settled = {}
    /\ acked = {}

(* Whatever is there is replaced as a whole, once. *)
Put(c) ==
    /\ c \notin volatile \union settled
    /\ value' = c
    /\ volatile' = volatile \union {c}
    /\ UNCHANGED <<stable, settled, acked>>

Displace ==
    /\ value' = Link
    /\ UNCHANGED <<stable, volatile, settled, acked>>

Persist ==
    /\ stable' = value
    /\ settled' = settled \union volatile
    /\ volatile' = {}
    /\ UNCHANGED <<value, acked>>

Ack(c) ==
    /\ c \in settled
    /\ acked' = acked \union {c}
    /\ UNCHANGED <<value, stable, volatile, settled>>

PowerLoss ==
    /\ value' = stable
    /\ volatile' = {}
    /\ UNCHANGED <<stable, settled, acked>>

Next ==
    \/ \E c \in Calls : Put(c) \/ Ack(c)
    \/ Displace
    \/ Persist
    \/ PowerLoss

Spec == Init /\ [][Next]_vars
==============================================================================
