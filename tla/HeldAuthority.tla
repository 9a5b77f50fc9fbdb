--------------------------- MODULE HeldAuthority ---------------------------
(***************************************************************************)
(* What a turn boundary promises: whoever holds a turn identity at the     *)
(* same time decides on one authority, it is let go by the last of them,   *)
(* and an identity that names its execution has one holder.                *)
(***************************************************************************)
EXTENDS FiniteSets

CONSTANTS
    Turns,
    Keys,           (* turn identities                                        *)
    KeyOf,          (* the identity each turn presents                        *)
    Named,          (* the identities that name an execution                  *)
    Resolutions,    (* what an authority load can come to                     *)
    None

VARIABLES
    holders,        (* [Keys -> SUBSET Turns]                                 *)
    frozen          (* [Keys -> the authority held there, or None]            *)

Init ==
    /\ holders = [k \in Keys |-> {}]
    /\ frozen = [k \in Keys |-> None]

Begin(t, resolution) ==
    /\ holders[KeyOf[t]] = {}
    /\ holders' = [holders EXCEPT ![KeyOf[t]] = {t}]
    /\ frozen' = [frozen EXCEPT ![KeyOf[t]] = resolution]

Join(t) ==
    /\ KeyOf[t] \notin Named
    /\ holders[KeyOf[t]] # {} /\ t \notin holders[KeyOf[t]]
    /\ holders' = [holders EXCEPT ![KeyOf[t]] = @ \union {t}]
    /\ UNCHANGED frozen

Leave(t) ==
    /\ t \in holders[KeyOf[t]]
    /\ holders' = [holders EXCEPT ![KeyOf[t]] = @ \ {t}]
    /\ frozen' = [frozen EXCEPT ![KeyOf[t]] = IF holders[KeyOf[t]] = {t} THEN None ELSE @]

Next ==
    \E t \in Turns :
        \/ \E resolution \in Resolutions : Begin(t, resolution)
        \/ Join(t)
        \/ Leave(t)

Spec == Init /\ [][Next]_<<holders, frozen>>

=============================================================================
