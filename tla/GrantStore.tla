----------------------------- MODULE GrantStore -----------------------------
(***************************************************************************)
(* The host's trusted store, as the kernel sees it: the grants issued, the *)
(* uses spent of the bounded ones, and what loading an authority answers.  *)
(*                                                                         *)
(* packages/core/src: authority.ts (GrantSource, TrustedAuthorityResolver),*)
(* authorization.ts (the usage store). Issuing is the host's own workflow. *)
(*                                                                         *)
(* A context is [namespaceId, actor, authority, owner, purpose, now].      *)
(***************************************************************************)
EXTENDS Grants, FiniteSets

CONSTANTS
    MaxResolvedGrants,
    HostGrants,          (* what the host has issued of its own accord *)
    Uses                 (* what a grant is tried on                   *)

ASSUME GrantStoreAssumption == HostGrants \subseteq Grant /\ Uses \subseteq Requirement

VARIABLES
    issued,   (* the grants in the store           *)
    used      (* uses the usage store has counted  *)

store == <<issued, used>>

StoreInit ==
    /\ issued = HostGrants
    /\ used = [id \in GrantIds |-> 0]

grantScopeMismatch(grant, context) ==
    \/ grant.namespaceId # context.namespaceId
    \/ grant.subject # context.actor
    \/ grant.issuer # context.authority

(* What the source answers for a context, which is all of its scope.       *)
grantsOf(context) == {grant \in issued : ~grantScopeMismatch(grant, context)}

(* resolve: more than the resolver takes, material of another scope or a   *)
(* store that throws is no authority at all, never part of one.            *)
resolves(context) == Cardinality(grantsOf(context)) <= MaxResolvedGrants

Issues(grant) ==
    /\ \A other \in issued : other.id # grant.id
    /\ issued' = issued \cup {grant}
    /\ UNCHANGED used

hasUses(grant) ==
    grant.constraints.maxUses # None => used[grant.id] < grant.constraints.maxUses

(* Some operation elsewhere stands on a bounded grant (tryConsume).        *)
Spends(grant) ==
    /\ grant \in issued
    /\ grant.constraints.maxUses # None
    /\ hasUses(grant)
    /\ used' = [used EXCEPT ![grant.id] = @ + 1]
    /\ UNCHANGED issued

-----------------------------------------------------------------------------
(* What the grants in hand permit at one instant: the gates every decision *)
(* and every reach put a grant through (#grantRejection).                  *)

instantsOf(context) == [admittedAt |-> context.now, now |-> context.now]

(* A chain of one link, judged against the store (validateDelegationChain).*)
chainIsValid(grant, context) ==
    grant.parentGrantId # None =>
        \E parent \in issued :
            /\ parent.id = grant.parentGrantId
            /\ parent.parentGrantId = None
            /\ linkHolds(grant, parent, context, instantsOf(context))

isInForce(grant, context) ==
    /\ grant.subject = context.actor
    /\ grantIsActive(grant, context.purpose, instantsOf(context))
    /\ chainIsValid(grant, context)

permits(capabilities, use, context) ==
    \E capability \in capabilities : capabilityMatches(capability, use, context)

=============================================================================
