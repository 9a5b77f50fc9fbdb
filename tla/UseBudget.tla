----------------------------- MODULE UseBudget -----------------------------
(***************************************************************************)
(* What maxUses promises: of all the operations ever made, at most that    *)
(* many stand on one bounded grant, and none stands on two.                *)
(***************************************************************************)
EXTENDS Integers, FiniteSets

CONSTANTS
    Calls,      (* operations, each made once                      *)
    GrantIds,
    None,
    MaxUses     (* [GrantIds -> Nat or None]                       *)

VARIABLE standing   (* [Calls -> the grant that carried the operation, or None] *)

on(grantId) == {call \in Calls : standing[call] = grantId}

Init == standing = [call \in Calls |-> None]

Authorize(call, grantId) ==
    /\ standing[call] = None
    /\ MaxUses[grantId] # None => Cardinality(on(grantId)) < MaxUses[grantId]
    /\ standing' = [standing EXCEPT ![call] = grantId]

Next == \E call \in Calls, grantId \in GrantIds : Authorize(call, grantId)

Spec == Init /\ [][Next]_standing

=============================================================================
