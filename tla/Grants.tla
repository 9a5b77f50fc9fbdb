------------------------------- MODULE Grants -------------------------------
(***************************************************************************)
(* What a capability grant says and how two of them compare: the matching  *)
(* and containment predicates, the activity window, the rule one link of a *)
(* delegation chain must satisfy, and the issuing side, deriveGrant.       *)
(*                                                                         *)
(* packages/core/src: authorization.ts, constraints.ts, delegation.ts and  *)
(* internal.ts. Paths are sequences of opaque segments, addresses, actions *)
(* and purposes are opaque values, instants are integers.                  *)
(*                                                                         *)
(*   capability  [namespace, path, owner, actions, scope]                  *)
(*   requirement [namespace, path, owner, action]                          *)
(*   constraints [purposes, notBefore, expiresAt, maxUses, delegationDepth]*)
(*   grant       [id, namespaceId, subject, issuer, capabilities,          *)
(*                constraints, issuedAt, revokedAt, parentGrantId]         *)
(*                                                                         *)
(* An optional field the code leaves undefined holds None.  A timestamp    *)
(* that is present and does not parse is Garbled.                          *)
(***************************************************************************)
EXTENDS Integers, Sequences

CONSTANTS
    Addresses, Namespaces, Segments, Actions, Purposes,
    GrantIds,
    None,       (* an optional field that is absent            *)
    Garbled,    (* a timestamp that cannot be read             *)
    AnyAction   (* the wildcard action, "*" in the source      *)

ASSUME GrantsAssumption ==
    /\ None \notin Int
    /\ Garbled \notin Int
    /\ Garbled # None

-----------------------------------------------------------------------------
(* The shapes capability.ts declares *)

Optional(S) == S \cup {None}

Instant == Int \cup {Garbled}

Capability ==
    [namespace : Namespaces, path : Seq(Segments), owner : Optional(Addresses),
     actions : SUBSET (Actions \cup {AnyAction}), scope : {"exact", "descendants"}]

Requirement ==
    [namespace : Namespaces, path : Seq(Segments), owner : Optional(Addresses),
     action : Actions]

Constraints ==
    [purposes : Optional(SUBSET Purposes), notBefore : Optional(Instant),
     expiresAt : Optional(Instant), maxUses : Optional(Nat), delegationDepth : Optional(Nat)]

Grant ==
    [id : GrantIds, namespaceId : Namespaces, subject : Addresses, issuer : Addresses,
     capabilities : SUBSET Capability, constraints : Constraints,
     issuedAt : Instant, revokedAt : Optional(Instant), parentGrantId : Optional(GrantIds)]

(* What a holder asks deriveGrant for. *)
DeriveGrantRequest ==
    [id : GrantIds, subject : Addresses, capabilities : SUBSET Capability,
     constraints : Constraints, issuedAt : Instant]

-----------------------------------------------------------------------------
(* Paths and instants *)

pathIsWithin(parent, candidate) ==
    /\ Len(parent) <= Len(candidate)
    /\ \A i \in 1..Len(parent) : parent[i] = candidate[i]

(* parseTimestamp: present and readable. *)
Readable(instant) == instant \in Int

(* Declared, but not as an instant anything can be compared with. *)
Unreadable(instant) == instant # None /\ ~Readable(instant)

-----------------------------------------------------------------------------
(* Capabilities against requirements, and against each other *)

resolvedOwner(resource, context) ==
    IF resource.owner = None THEN context.owner ELSE resource.owner

resourceBelongsToContext(resource, context) ==
    resolvedOwner(resource, context) = context.owner

(* What both matching predicates ask before they look at the path. *)
concernsSameResource(capability, requirement, context) ==
    /\ capability.namespace = requirement.namespace
    /\ requirement.action \in capability.actions \/ AnyAction \in capability.actions
    /\ resolvedOwner(capability, context) = resolvedOwner(requirement, context)

capabilityMatches(capability, request, context) ==
    /\ concernsSameResource(capability, request, context)
    /\ IF capability.scope = "exact"
       THEN capability.path = request.path
       ELSE pathIsWithin(capability.path, request.path)

capabilityIntersectsCeiling(capability, ceiling, context) ==
    /\ concernsSameResource(capability, ceiling, context)
    /\ \/ pathIsWithin(ceiling.path, capability.path)
       \/ capability.scope # "exact" /\ pathIsWithin(capability.path, ceiling.path)

(* Mutant: scope and path compared as one axis, so that an exact ancestor  *)
(* covers whatever lies below its path.                                    *)
pathCoveredIgnoringScope(capability, ancestor) ==
    pathIsWithin(ancestor.path, capability.path)

pathCovered(capability, ancestor) ==
    IF ancestor.scope = "exact"
    THEN capability.scope = "exact" /\ ancestor.path = capability.path
    ELSE pathIsWithin(ancestor.path, capability.path)

capabilityIsWithin(capability, ancestor, context) ==
    /\ capability.namespace = ancestor.namespace
    /\ resolvedOwner(capability, context) = resolvedOwner(ancestor, context)
    /\ AnyAction \in ancestor.actions \/ capability.actions \subseteq ancestor.actions
    /\ pathCovered(capability, ancestor)

(* Mutant: an unowned parent capability may be given an owner. *)
capabilityIsWithinForSomeOwner(parent, child) ==
    /\ parent.namespace = child.namespace
    /\ parent.owner = None \/ parent.owner = child.owner
    /\ AnyAction \in parent.actions \/ child.actions \subseteq parent.actions
    /\ pathCovered(child, parent)

(* The issuing side has no context to resolve an unowned capability in, so *)
(* the owners must agree as written; and a child may ask for the wildcard  *)
(* only of a parent that holds it.                                         *)
capabilityIsWithinInAnyContext(parent, child) ==
    /\ parent.namespace = child.namespace
    /\ parent.owner = child.owner
    /\ AnyAction \in parent.actions \/ child.actions \subseteq parent.actions
    /\ pathCovered(child, parent)

-----------------------------------------------------------------------------
(* The window and the purposes *)

(* The window and the purposes of a grant, revocation aside. Two instants: *)
(* what the turn was admitted with, and the instant of the operation,      *)
(* which only expiry is judged against as well.                            *)
withinBounds(grant, purpose, at) ==
    LET c == grant.constraints IN
    /\ Readable(grant.issuedAt) /\ grant.issuedAt <= at.admittedAt
    /\ c.notBefore # None => Readable(c.notBefore) /\ c.notBefore <= at.admittedAt
    /\ c.expiresAt # None => /\ Readable(c.expiresAt)
                             /\ at.admittedAt < c.expiresAt
                             /\ at.now < c.expiresAt
    /\ c.purposes # None => purpose \in c.purposes

grantIsActive(grant, purpose, at) ==
    /\ withinBounds(grant, purpose, at)
    /\ grant.revokedAt # None => Readable(grant.revokedAt) /\ at.admittedAt < grant.revokedAt

startIsWithin(inner, outer) ==
    /\ ~Unreadable(inner) /\ ~Unreadable(outer)
    /\ outer # None => inner # None /\ inner >= outer

endIsWithin(inner, outer) ==
    /\ ~Unreadable(inner) /\ ~Unreadable(outer)
    /\ outer # None => inner # None /\ inner <= outer

purposesAreWithin(inner, outer) ==
    outer # None => inner # None /\ inner \subseteq outer

constraintsAreWithin(inner, outer) ==
    /\ purposesAreWithin(inner.purposes, outer.purposes)
    /\ startIsWithin(inner.notBefore, outer.notBefore)
    /\ endIsWithin(inner.expiresAt, outer.expiresAt)

(* A child that names no start begins when it was issued. *)
startOf(grant) ==
    IF grant.constraints.notBefore = None THEN grant.issuedAt ELSE grant.constraints.notBefore

constraintsAreAttenuated(child, parent) ==
    /\ Readable(child.issuedAt) /\ Readable(parent.issuedAt)
    /\ child.issuedAt >= parent.issuedAt
    /\ constraintsAreWithin([purposes  |-> child.constraints.purposes,
                             notBefore |-> startOf(child),
                             expiresAt |-> child.constraints.expiresAt],
                            parent.constraints)

-----------------------------------------------------------------------------
(* One link of a delegation chain *)

depthOf(grant) ==
    IF grant.constraints.delegationDepth = None THEN 0 ELSE grant.constraints.delegationDepth

capabilitiesCovered(child, parent, context) ==
    \A capability \in child.capabilities :
        \E ancestor \in parent.capabilities : capabilityIsWithin(capability, ancestor, context)

(* Mutant: an ancestor is consulted for its shape and not for its life. *)
parentIsRecorded(parent, context, at) == TRUE

(* Revoking or expiring an ancestor ends every descendant. *)
parentIsActive(parent, context, at) == grantIsActive(parent, context.purpose, at)

(* Mutant: the child may keep the budget its parent had. *)
delegationNotExhausted(child, parent) ==
    /\ depthOf(parent) >= 1
    /\ depthOf(child) <= depthOf(parent)

delegationPermitted(child, parent) ==
    /\ depthOf(parent) >= 1
    /\ depthOf(child) <= depthOf(parent) - 1

(* linkViolation = undefined. The code names the first rule broken; which  *)
(* one it was reaches only the denial's metadata.                          *)
linkHolds(child, parent, context, at) ==
    /\ parent.namespaceId = child.namespaceId
    /\ parent.subject = child.issuer
    /\ parentIsActive(parent, context, at)
    /\ delegationPermitted(child, parent)
    /\ parent.constraints.maxUses = None
    /\ capabilitiesCovered(child, parent, context)
    /\ constraintsAreAttenuated(child, parent)

-----------------------------------------------------------------------------
(* Issuing a derived grant *)

orInherited(asked, held) == IF asked = None THEN held ELSE asked

inheritedEnvelope(parent, request) ==
    [purposes  |-> orInherited(request.purposes, parent.purposes),
     notBefore |-> orInherited(request.notBefore, parent.notBefore),
     expiresAt |-> orInherited(request.expiresAt, parent.expiresAt)]

(* deriveGrant answers ok. *)
derivable(parent, request) ==
    /\ request.capabilities # {}
    /\ request.id # parent.id
    /\ parent.constraints.maxUses = None
    /\ depthOf(parent) >= 1
    /\ request.constraints.delegationDepth # None =>
           request.constraints.delegationDepth <= depthOf(parent) - 1
    /\ \A child \in request.capabilities :
           \E candidate \in parent.capabilities : capabilityIsWithinInAnyContext(candidate, child)
    /\ constraintsAreWithin(inheritedEnvelope(parent.constraints, request.constraints),
                            parent.constraints)
    /\ Readable(request.issuedAt) /\ Readable(parent.issuedAt)
    /\ request.issuedAt >= parent.issuedAt

(* The grant it then hands out. *)
deriveGrant(parent, request) ==
    LET envelope == inheritedEnvelope(parent.constraints, request.constraints) IN
    [id            |-> request.id,
     namespaceId   |-> parent.namespaceId,
     subject       |-> request.subject,
     issuer        |-> parent.subject,
     capabilities  |-> request.capabilities,
     constraints   |-> [purposes        |-> envelope.purposes,
                        notBefore       |-> envelope.notBefore,
                        expiresAt       |-> envelope.expiresAt,
                        maxUses         |-> request.constraints.maxUses,
                        delegationDepth |-> orInherited(request.constraints.delegationDepth,
                                                        depthOf(parent) - 1)],
     issuedAt      |-> request.issuedAt,
     revokedAt     |-> None,
     parentGrantId |-> parent.id]

=============================================================================
