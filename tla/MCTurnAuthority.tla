-------------------------- MODULE MCTurnAuthority --------------------------
(* Two turns that name one execution and three that share an identity      *)
(* naming none, each with an operation inside.                             *)
EXTENDS TurnAuthority, TLC

CONSTANTS run1, run2, host1, host2, host3, inRun, inHost

Runs == {run1, run2}
Hosts == {host1, host2, host3}

MCTurns == Runs \union Hosts
MCOperations == {inRun, inHost}

MCKeyOf ==
    [x \in MCTurns \union MCOperations |->
        IF x \in Hosts \union {inHost} THEN "trace" ELSE "execution"]

(* Two identities meet nowhere but in the store, which the operations of   *)
(* either already see changing: a behaviour explores one of them.          *)
OneIdentityAtATime ==
    \E k \in Keys :
        /\ \A t \in Turns : KeyOf[t] = k => scope[t].phase = "idle"
        /\ \A p \in Operations : KeyOf[p] = k => operation[p].phase = "idle"

=============================================================================
