-------------------------- MODULE AuthorizerProofs --------------------------
(***************************************************************************)
(* What an authorizer stands on, in three parts: what the rules of Grants  *)
(* for matching and containment imply of each other, for every capability, *)
(* requirement, ceiling and grant; DelegationWalk, for every store, every  *)
(* request, every chain limit and every clock bound; and Authorizer, for   *)
(* every set of concurrent decisions, every grant book and every request.  *)
(*                                                                         *)
(* Two of the walk's theorems speak of walks that ended well; the walk     *)
(* reaches that end one ancestor at a time, so the inductive invariant     *)
(* says the same of every walk still under way, of all it has resolved so  *)
(* far. What the store was like when the walk began, or when a grant in it *)
(* was derived, is history: a second invariant is of that.                 *)
(***************************************************************************)
EXTENDS Authorizer, DelegationWalk, FiniteSetTheorems, TLAPS


-----------------------------------------------------------------------------
(* Paths *)

(* pathIsWithin is a prefix order: containment composes.                   *)
LEMMA PathWithinTransitive ==
    ASSUME NEW a \in Seq(Segments), NEW b \in Seq(Segments), NEW c \in Seq(Segments),
           pathIsWithin(a, b), pathIsWithin(b, c)
    PROVE  pathIsWithin(a, c)
<1>1. Len(a) \in Nat /\ Len(b) \in Nat /\ Len(c) \in Nat
  OBVIOUS
<1>2. Len(a) <= Len(b) /\ Len(b) <= Len(c)
  BY DEF pathIsWithin
<1>3. ASSUME NEW i \in 1..Len(a)
      PROVE  a[i] = c[i]
  <2>1. i \in 1..Len(b)
    BY <1>1, <1>2
  <2> QED
    BY <2>1 DEF pathIsWithin
<1> QED
  BY <1>1, <1>2, <1>3 DEF pathIsWithin

(* Every path is within itself.                                            *)
LEMMA PathWithinReflexive ==
    ASSUME NEW a \in Seq(Segments)
    PROVE  pathIsWithin(a, a)
BY DEF pathIsWithin

(* Two prefixes of one path are comparable.                                *)
LEMMA PathsWithinOneCompare ==
    ASSUME NEW a \in Seq(Segments), NEW b \in Seq(Segments), NEW c \in Seq(Segments),
           pathIsWithin(a, c), pathIsWithin(b, c)
    PROVE  pathIsWithin(a, b) \/ pathIsWithin(b, a)
<1>1. Len(a) \in Nat /\ Len(b) \in Nat /\ Len(c) \in Nat
  OBVIOUS
<1>2. CASE Len(a) <= Len(b)
  <2>1. ASSUME NEW i \in 1..Len(a)
        PROVE  a[i] = b[i]
    <3>1. i \in 1..Len(b)
      BY <1>1, <1>2
    <3> QED
      BY <3>1 DEF pathIsWithin
  <2> QED
    BY <1>2, <2>1 DEF pathIsWithin
<1>3. CASE Len(b) <= Len(a)
  <2>1. ASSUME NEW i \in 1..Len(b)
        PROVE  b[i] = a[i]
    <3>1. i \in 1..Len(a)
      BY <1>1, <1>3
    <3> QED
      BY <3>1 DEF pathIsWithin
  <2> QED
    BY <1>3, <2>1 DEF pathIsWithin
<1> QED
  BY <1>1, <1>2, <1>3

-----------------------------------------------------------------------------
(* Capabilities *)

(* Containment is about requirements: whatever a capability matches, an    *)
(* ancestor it is within matches too (capabilityIsWithin, delegation.ts).  *)
THEOREM WithinMatches ==
    ASSUME NEW context, NEW requirement \in Requirement,
           NEW capability \in Capability, NEW ancestor \in Capability,
           capabilityIsWithin(capability, ancestor, context),
           capabilityMatches(capability, requirement, context)
    PROVE  capabilityMatches(ancestor, requirement, context)
<1>1. concernsSameResource(ancestor, requirement, context)
  BY DEF capabilityIsWithin, capabilityMatches, concernsSameResource
<1>2. /\ capability.path \in Seq(Segments) /\ ancestor.path \in Seq(Segments)
      /\ requirement.path \in Seq(Segments)
  BY DEF Capability, Requirement
<1>3. pathCovered(capability, ancestor)
  BY DEF capabilityIsWithin
<1>4. CASE ancestor.scope = "exact"
  <2>1. capability.scope = "exact" /\ ancestor.path = capability.path
    BY <1>3, <1>4 DEF pathCovered
  <2>2. capability.path = requirement.path
    BY <2>1 DEF capabilityMatches
  <2> QED
    BY <1>1, <1>4, <2>1, <2>2 DEF capabilityMatches
<1>5. CASE ancestor.scope # "exact"
  <2>1. pathIsWithin(ancestor.path, capability.path)
    BY <1>3, <1>5 DEF pathCovered
  <2>2. pathIsWithin(capability.path, requirement.path)
    BY <1>2, PathWithinReflexive DEF capabilityMatches
  <2>3. pathIsWithin(ancestor.path, requirement.path)
    BY <1>2, <2>1, <2>2, PathWithinTransitive
  <2> QED
    BY <1>1, <1>5, <2>3 DEF capabilityMatches
<1> QED
  BY <1>4, <1>5

(* What may be invoked may be discovered: a capability that matches a      *)
(* requirement somewhere below a tool's ceiling intersects that ceiling,   *)
(* so a filtered catalogue hides no tool a turn could use                  *)
(* (capabilityIntersectsCeiling, authorization.ts).                        *)
THEOREM InvocationImpliesDiscovery ==
    ASSUME NEW context, NEW capability \in Capability,
           NEW requirement \in Requirement, NEW ceiling \in Requirement,
           ceiling.namespace = requirement.namespace,
           ceiling.action = requirement.action,
           ceiling.owner = requirement.owner,
           pathIsWithin(ceiling.path, requirement.path),
           capabilityMatches(capability, requirement, context)
    PROVE  capabilityIntersectsCeiling(capability, ceiling, context)
<1>1. concernsSameResource(capability, ceiling, context)
  BY DEF capabilityMatches, concernsSameResource, resolvedOwner
<1>2. /\ capability.path \in Seq(Segments) /\ requirement.path \in Seq(Segments)
      /\ ceiling.path \in Seq(Segments)
  BY DEF Capability, Requirement
<1>3. CASE capability.scope = "exact"
  BY <1>1, <1>3 DEF capabilityMatches, capabilityIntersectsCeiling
<1>4. CASE capability.scope # "exact"
  <2>1. pathIsWithin(capability.path, requirement.path)
    BY <1>4 DEF capabilityMatches
  <2>2. pathIsWithin(ceiling.path, capability.path) \/ pathIsWithin(capability.path, ceiling.path)
    BY <1>2, <2>1, PathsWithinOneCompare
  <2> QED
    BY <1>1, <1>4, <2>2 DEF capabilityIntersectsCeiling
<1> QED
  BY <1>3, <1>4

(* Containment at issue, where no context is known, is containment in      *)
(* every context (capabilityIsWithinInAnyContext).                         *)
LEMMA AnyContextIsEveryContext ==
    ASSUME NEW context, NEW parent \in Capability, NEW lower \in Capability,
           capabilityIsWithinInAnyContext(parent, lower)
    PROVE  capabilityIsWithin(lower, parent, context)
BY DEF capabilityIsWithinInAnyContext, capabilityIsWithin, resolvedOwner

-----------------------------------------------------------------------------
(* Constraints *)

(* A child attenuated from its parent is bounded by it: whenever the       *)
(* child's window and purposes admit a use, the parent's do                *)
(* (constraintsAreAttenuated, against withinBounds).                       *)
THEOREM AttenuatedBounds ==
    ASSUME NEW lower \in Grant, NEW parent \in Grant, NEW purpose,
           NEW when \in [admittedAt : Int, now : Int],
           constraintsAreAttenuated(lower, parent),
           withinBounds(lower, purpose, when)
    PROVE  withinBounds(parent, purpose, when)
<1> DEFINE c == lower.constraints
           p == parent.constraints
<1>1. /\ parent.issuedAt \in Int /\ lower.issuedAt \in Int
      /\ when.admittedAt \in Int /\ when.now \in Int
  BY DEF constraintsAreAttenuated, Readable
<1>2. /\ purposesAreWithin(c.purposes, p.purposes)
      /\ startIsWithin(startOf(lower), p.notBefore)
      /\ endIsWithin(c.expiresAt, p.expiresAt)
  BY DEF constraintsAreAttenuated, constraintsAreWithin
<1>3. /\ Readable(parent.issuedAt) /\ parent.issuedAt <= when.admittedAt
  BY <1>1 DEF constraintsAreAttenuated, withinBounds, Readable
<1>4. ASSUME p.notBefore # None
      PROVE  Readable(p.notBefore) /\ p.notBefore <= when.admittedAt
  <2>1. p.notBefore \in Int /\ startOf(lower) >= p.notBefore
    BY <1>2, <1>4 DEF startIsWithin, Unreadable, Readable
  <2>2. startOf(lower) \in Int /\ startOf(lower) <= when.admittedAt
    BY <1>1 DEF startOf, withinBounds, Readable
  <2> QED
    BY <1>1, <2>1, <2>2 DEF Readable
<1>5. ASSUME p.expiresAt # None
      PROVE  Readable(p.expiresAt) /\ when.admittedAt < p.expiresAt /\ when.now < p.expiresAt
  <2>1. p.expiresAt \in Int /\ c.expiresAt # None /\ c.expiresAt <= p.expiresAt
    BY <1>2, <1>5 DEF endIsWithin, Unreadable, Readable
  <2>2. c.expiresAt \in Int /\ when.admittedAt < c.expiresAt /\ when.now < c.expiresAt
    BY <2>1 DEF withinBounds, Readable
  <2> QED
    BY <1>1, <2>1, <2>2 DEF Readable
<1>6. p.purposes # None => purpose \in p.purposes
  BY <1>2 DEF purposesAreWithin, withinBounds
<1> QED
  BY <1>3, <1>4, <1>5, <1>6 DEF withinBounds

-----------------------------------------------------------------------------
(* Links *)

(* A depth is a natural number whatever the grant leaves out.              *)
LEMMA DepthIsNat ==
    ASSUME NEW grant \in Grant
    PROVE  depthOf(grant) \in Nat
BY DEF depthOf, Grant, Constraints, Optional

(* A link holds if its ancestor is active and the child fits under it:     *)
(* everything linkViolation asks of the two that no revocation changes.    *)
fitsUnder(lower, parent, context) ==
    /\ parent.namespaceId = lower.namespaceId
    /\ parent.subject = lower.issuer
    /\ delegationPermitted(lower, parent)
    /\ parent.constraints.maxUses = None
    /\ capabilitiesCovered(lower, parent, context)
    /\ constraintsAreAttenuated(lower, parent)

LEMMA LinkIsActiveAndFits ==
    ASSUME NEW lower, NEW parent, NEW context, NEW when
    PROVE  linkHolds(lower, parent, context, when)
             <=> parentIsActive(parent, context, when) /\ fitsUnder(lower, parent, context)
BY DEF linkHolds, fitsUnder

(* Whatever deriveGrant answers ok fits under its parent, in any context.  *)
LEMMA DerivedFits ==
    ASSUME NEW parent \in Grant, NEW request \in DeriveGrantRequest, NEW context,
           derivable(parent, request)
    PROVE  fitsUnder(deriveGrant(parent, request), parent, context)
<1> DEFINE lower == deriveGrant(parent, request)
           asked == request.constraints
           held == parent.constraints
           envelope == inheritedEnvelope(held, asked)
<1>1. /\ lower.namespaceId = parent.namespaceId /\ lower.issuer = parent.subject
      /\ lower.capabilities = request.capabilities /\ lower.issuedAt = request.issuedAt
      /\ lower.constraints.purposes = envelope.purposes
      /\ lower.constraints.notBefore = envelope.notBefore
      /\ lower.constraints.expiresAt = envelope.expiresAt
      /\ lower.constraints.delegationDepth =
             orInherited(asked.delegationDepth, depthOf(parent) - 1)
  BY DEF deriveGrant, inheritedEnvelope
<1>2. delegationPermitted(lower, parent)
  <2>1. depthOf(parent) \in Nat /\ depthOf(parent) >= 1
    BY DepthIsNat DEF derivable
  <2>2. depthOf(parent) - 1 # None
    BY <2>1, GrantsAssumption
  <2>3. CASE asked.delegationDepth = None
    <3>1. depthOf(lower) = depthOf(parent) - 1
      BY <1>1, <2>2, <2>3 DEF orInherited, depthOf
    <3> QED
      BY <2>1, <3>1 DEF delegationPermitted
  <2>4. CASE asked.delegationDepth # None
    <3>1. depthOf(lower) = asked.delegationDepth
      BY <1>1, <2>4 DEF orInherited, depthOf
    <3> QED
      BY <2>1, <2>4, <3>1 DEF delegationPermitted, derivable
  <2> QED
    BY <2>3, <2>4
<1>3. capabilitiesCovered(lower, parent, context)
  <2>1. /\ request.capabilities \subseteq Capability
        /\ parent.capabilities \subseteq Capability
    BY DEF DeriveGrantRequest, Grant
  <2>2. ASSUME NEW capability \in request.capabilities
        PROVE  \E ancestor \in parent.capabilities :
                   capabilityIsWithin(capability, ancestor, context)
    <3>1. PICK candidate \in parent.capabilities :
              capabilityIsWithinInAnyContext(candidate, capability)
      BY DEF derivable
    <3> QED
      BY <2>1, <3>1, AnyContextIsEveryContext
  <2> QED
    BY <1>1, <2>2 DEF capabilitiesCovered
<1>4. constraintsAreAttenuated(lower, parent)
  <2>1. constraintsAreWithin(envelope, held)
    BY DEF derivable
  <2>2. /\ Readable(request.issuedAt) /\ Readable(parent.issuedAt)
        /\ request.issuedAt >= parent.issuedAt
    BY DEF derivable
  <2>3. startIsWithin(startOf(lower), held.notBefore)
    <3>1. startIsWithin(envelope.notBefore, held.notBefore)
      BY <2>1 DEF constraintsAreWithin
    <3>2. CASE envelope.notBefore = None
      BY <1>1, <2>2, <3>1, <3>2 DEF startIsWithin, startOf, Unreadable
    <3>3. CASE envelope.notBefore # None
      BY <1>1, <3>1, <3>3 DEF startOf
    <3> QED
      BY <3>2, <3>3
  <2>4. /\ purposesAreWithin(lower.constraints.purposes, held.purposes)
        /\ endIsWithin(lower.constraints.expiresAt, held.expiresAt)
    BY <1>1, <2>1 DEF constraintsAreWithin
  <2> QED
    BY <1>1, <2>2, <2>3, <2>4 DEF constraintsAreAttenuated, constraintsAreWithin
<1>5. parent.constraints.maxUses = None
  BY DEF derivable
<1> QED
  BY <1>1, <1>2, <1>3, <1>4, <1>5 DEF fitsUnder

(* Every derivation deriveGrant answers ok makes a link that holds for as  *)
(* long as the parent is active: what is refused at use is refused at      *)
(* issue (deriveGrant against linkViolation, delegation.ts).               *)
THEOREM DeriveIsValidLink ==
    ASSUME NEW parent \in Grant, NEW request \in DeriveGrantRequest,
           NEW context, NEW when,
           derivable(parent, request), parentIsActive(parent, context, when)
    PROVE  linkHolds(deriveGrant(parent, request), parent, context, when)
<1>1. fitsUnder(deriveGrant(parent, request), parent, context)
  BY DerivedFits
<1> QED
  BY <1>1, LinkIsActiveAndFits

-----------------------------------------------------------------------------
(* Types *)

(* A derived grant is a grant: the fields deriveGrant inherits are the     *)
(* parent's own.                                                           *)
LEMMA DerivedIsGrant ==
    ASSUME NEW parent \in Grant, NEW request \in DeriveGrantRequest,
           derivable(parent, request)
    PROVE  deriveGrant(parent, request) \in Grant /\ deriveGrant(parent, request).id = request.id
<1> DEFINE heir == deriveGrant(parent, request)
<1>1. parent.constraints \in Constraints /\ request.constraints \in Constraints
  BY DEF Grant, DeriveGrantRequest
<1>2. orInherited(request.constraints.delegationDepth, depthOf(parent) - 1) \in Optional(Nat)
  <2>1. depthOf(parent) \in Nat /\ depthOf(parent) >= 1
    BY DepthIsNat DEF derivable
  <2>2. depthOf(parent) - 1 \in Nat
    BY <2>1
  <2>3. request.constraints.delegationDepth \in Optional(Nat)
    BY <1>1 DEF Constraints
  <2> QED
    BY <2>2, <2>3 DEF orInherited, Optional
<1>3. heir.constraints \in Constraints
  BY <1>1, <1>2 DEF Constraints, deriveGrant, inheritedEnvelope, orInherited
<1>4. /\ parent.namespaceId \in Namespaces /\ parent.subject \in Addresses
      /\ parent.id \in GrantIds
      /\ request.id \in GrantIds /\ request.subject \in Addresses
      /\ request.capabilities \in SUBSET Capability /\ request.issuedAt \in Instant
  BY DEF Grant, DeriveGrantRequest
<1>5. heir = [id |-> request.id, namespaceId |-> parent.namespaceId,
               subject |-> request.subject, issuer |-> parent.subject,
               capabilities |-> request.capabilities, constraints |-> heir.constraints,
               issuedAt |-> request.issuedAt, revokedAt |-> None, parentGrantId |-> parent.id]
  BY DEF deriveGrant
<1> HIDE DEF heir
<1>6. heir \in Grant
  BY <1>3, <1>4, <1>5 DEF Grant, Optional
<1>7. heir.id = request.id
  BY <1>5
<1> QED
  BY <1>6, <1>7 DEF heir

(* Every operation of the host and every step of the walk keeps the store  *)
(* and the walk well formed.                                               *)
THEOREM ChainTypesCorrect == ChainSpec => []ChainTypeOK
<1>1. ChainInit => ChainTypeOK
  BY WalkAssumption DEF ChainInit, ChainTypeOK, Optional, Store
<1>2. ChainTypeOK /\ [ChainNext]_chainVars => ChainTypeOK'
  <2> SUFFICES ASSUME ChainTypeOK, [ChainNext]_chainVars
               PROVE  ChainTypeOK'
    OBVIOUS
  <2>1. CASE Tick
    BY <2>1, WalkAssumption DEF Tick, ChainTypeOK, walkVars, hostVars
  <2>2. ASSUME NEW id \in GrantIds, NEW request \in DeriveRequests, Derive(id, request)
        PROVE  ChainTypeOK'
    <3>1. request \in DeriveGrantRequest /\ store[id] \in Grant
      BY <2>2, WalkAssumption DEF Derive, ChainTypeOK, Store, Optional
    <3>2. /\ deriveGrant(store[id], request) \in Grant
          /\ deriveGrant(store[id], request).id = request.id
      BY <2>2, <3>1, DerivedIsGrant DEF Derive
    <3>3. store' \in Store
      BY <2>2, <3>2 DEF Derive, ChainTypeOK, Store, Optional
    <3>4. \A other \in GrantIds : store'[other] # None => other \in issued'
      BY <2>2 DEF Derive, ChainTypeOK, Store
    <3> QED
      BY <2>2, <3>3, <3>4 DEF Derive, ChainTypeOK, walkVars
  <2>3. ASSUME NEW id \in GrantIds, Revoke(id)
        PROVE  ChainTypeOK'
    <3>1. store[id] \in Grant
      BY <2>3 DEF Revoke, ChainTypeOK, Store, Optional
    <3>2. clock \in Instant
      BY WalkAssumption DEF ChainTypeOK, Instant
    <3>3. /\ [store[id] EXCEPT !.revokedAt = clock] \in Grant
          /\ [store[id] EXCEPT !.revokedAt = clock].id = store[id].id
      BY <3>1, <3>2 DEF Grant, Optional
    <3>4. store' \in Store
      BY <2>3, <3>3 DEF Revoke, ChainTypeOK, Store, Optional
    <3>5. \A other \in GrantIds : store'[other] # None => other \in issued'
      BY <2>3 DEF Revoke, ChainTypeOK, Store
    <3> QED
      BY <2>3, <3>4, <3>5 DEF Revoke, ChainTypeOK, walkVars
  <2>4. ASSUME NEW id \in GrantIds, Remove(id)
        PROVE  ChainTypeOK'
    <3>1. store' \in Store
      BY <2>4 DEF Remove, ChainTypeOK, Store, Optional
    <3>2. \A other \in GrantIds : store'[other] # None => other \in issued'
      BY <2>4 DEF Remove, ChainTypeOK, Store
    <3> QED
      BY <2>4, <3>1, <3>2 DEF Remove, ChainTypeOK, walkVars
  <2>5. ASSUME NEW id \in GrantIds, NEW context \in Contexts, Admit(id, context)
        PROVE  ChainTypeOK'
    <3>1. store[id] \in Grant /\ clock \in Int /\ context \in Context
      BY <2>5, WalkAssumption DEF Admit, ChainTypeOK, Store, Optional
    <3>2. turn' \in Optional([grant : Grant, admittedAt : Int, context : Context])
      BY <2>5, <3>1 DEF Admit, Optional
    <3> QED
      BY <2>5, <3>2 DEF Admit, ChainTypeOK, hostVars, Optional
  <2>6. CASE StartWalk
    <3>1. turn \in [grant : Grant, admittedAt : Int, context : Context]
      BY <2>6 DEF StartWalk, ChainTypeOK, Optional
    <3>2. clock \in Int
      BY WalkAssumption DEF ChainTypeOK
    <3> QED
      BY <2>6, <3>1, <3>2 DEF StartWalk, ChainTypeOK, hostVars, statusAt, Optional
  <2>7. CASE TooLong
    BY <2>7 DEF TooLong, ChainTypeOK, hostVars
  <2>8. CASE ResolverFails
    BY <2>8 DEF ResolverFails, ChainTypeOK, hostVars
  <2>9. CASE ParentMissing
    BY <2>9 DEF ParentMissing, missingMeans, ChainTypeOK, hostVars
  <2>10. CASE ParentResolved
    <3> DEFINE parent == store[child.parentGrantId]
    <3>1. child \in Grant /\ child.parentGrantId \in GrantIds
      BY <2>10 DEF ParentResolved, ChainTypeOK, Grant, Optional
    <3>2. parent \in Grant
      BY <2>10, <3>1 DEF ParentResolved, ChainTypeOK, Store, Optional
    <3>3. CASE seen(parent.id) \/ ~linkHolds(child, parent, turn.context, at)
      BY <2>10, <3>2, <3>3 DEF ParentResolved, ChainTypeOK, hostVars, Optional
    <3>4. CASE ~(seen(parent.id) \/ ~linkHolds(child, parent, turn.context, at))
      <4>1. /\ status' = statusAt(parent) /\ ancestors' = Append(ancestors, parent)
            /\ child' = parent
            /\ UNCHANGED <<limit, store, issued, derived, clock, turn, at, before, broken>>
        BY <2>10, <3>4 DEF ParentResolved, hostVars
      <4>2. /\ ancestors' \in Seq(Grant) /\ ancestors' # <<>>
            /\ ancestors'[Len(ancestors')] = parent
        BY <3>2, <4>1 DEF ChainTypeOK
      <4> QED
        BY <2>10, <3>1, <3>2, <4>1, <4>2 DEF ParentResolved, ChainTypeOK, statusAt, Optional
    <3> QED
      BY <3>3, <3>4
  <2>11. CASE UNCHANGED chainVars
    BY <2>11 DEF chainVars, ChainTypeOK
  <2> QED
    BY <2>1, <2>2, <2>3, <2>4, <2>5, <2>6, <2>7, <2>8, <2>9, <2>10, <2>11
       DEF ChainNext, Host, WalkSteps
<1> QED
  BY <1>1, <1>2, PTL DEF ChainSpec

-----------------------------------------------------------------------------
(* The inductive invariant *)

sound == status \in {"walking", "valid"}

AncestorsPermit ==
    sound =>
        \A i \in 1..Len(ancestors), use \in Uses :
            permits(turn.grant, use, turn.context) => permits(ancestors[i], use, turn.context)

AncestorsHaveBudget ==
    sound =>
        \A i \in 1..Len(ancestors) : depthOf(ancestors[i]) >= i + depthOf(turn.grant)

ChainIInv == ChainTypeOK /\ AncestorsPermit /\ AncestorsHaveBudget

(* One link: what the child permits, the parent permits                    *)
(* (linkViolation: capability_not_covered, constraint_not_attenuated).     *)
THEOREM LinkPermits ==
    ASSUME NEW lower \in Grant, NEW parent \in Grant, NEW context, NEW instants,
           NEW use \in Use,
           linkHolds(lower, parent, context, instants), permits(lower, use, context)
    PROVE  permits(parent, use, context)
<1>1. PICK capability \in lower.capabilities :
          capabilityMatches(capability, use.requirement, context)
  BY DEF permits
<1>2. PICK ancestor \in parent.capabilities :
          capabilityIsWithin(capability, ancestor, context)
  BY DEF linkHolds, capabilitiesCovered
<1>3. /\ capability \in Capability /\ ancestor \in Capability
      /\ use.requirement \in Requirement /\ use.at \in [admittedAt : Int, now : Int]
  BY DEF Grant, Use
<1>4. capabilityMatches(ancestor, use.requirement, context)
  BY <1>1, <1>2, <1>3, WithinMatches
<1>5. withinBounds(lower, use.purpose, use.at)
  BY DEF permits
<1>6. withinBounds(parent, use.purpose, use.at)
  BY <1>3, <1>5, AttenuatedBounds DEF linkHolds
<1> QED
  BY <1>4, <1>6 DEF permits

(* A step that leaves a walk's grant and ancestors alone, and does not     *)
(* turn a failed walk into a sound one, keeps the invariant.               *)
LEMMA FrameKeepsIInv ==
    ASSUME ChainIInv, ChainTypeOK', UNCHANGED <<turn, ancestors>>, sound' => sound
    PROVE  ChainIInv'
<1>1. AncestorsPermit'
  BY DEF ChainIInv, AncestorsPermit, permits
<1>2. AncestorsHaveBudget'
  BY DEF ChainIInv, AncestorsHaveBudget
<1> QED
  BY <1>1, <1>2 DEF ChainIInv

(* A step after which the walk has resolved nothing keeps it too.          *)
LEMMA EmptyKeepsIInv ==
    ASSUME ChainTypeOK', ancestors' = <<>>
    PROVE  ChainIInv'
BY DEF ChainIInv, AncestorsPermit, AncestorsHaveBudget

(* Moving up one link that holds.                                          *)
LEMMA ResolvedKeepsIInv ==
    ASSUME ChainIInv, ChainTypeOK', ParentResolved
    PROVE  ChainIInv'
<1> DEFINE parent == store[child.parentGrantId]
<1>1. /\ child \in Grant /\ child.parentGrantId \in GrantIds
      /\ turn \in [grant : Grant, admittedAt : Int, context : Context]
      /\ ancestors \in Seq(Grant) /\ sound
      /\ child = IF ancestors = <<>> THEN turn.grant ELSE ancestors[Len(ancestors)]
  BY DEF ChainIInv, ChainTypeOK, ParentResolved, Grant, Optional, sound
<1>2. parent \in Grant
  BY <1>1 DEF ChainIInv, ChainTypeOK, ParentResolved, Store, Optional
<1>3. CASE seen(parent.id) \/ ~linkHolds(child, parent, turn.context, at)
  BY <1>3 DEF ParentResolved, ChainIInv, AncestorsPermit, AncestorsHaveBudget, sound
<1>4. CASE ~(seen(parent.id) \/ ~linkHolds(child, parent, turn.context, at))
  <2>1. ancestors' = Append(ancestors, parent) /\ turn' = turn
    BY <1>4 DEF ParentResolved
  <2>2. /\ Len(ancestors') = Len(ancestors) + 1
        /\ Len(ancestors) \in Nat
        /\ ancestors'[Len(ancestors')] = parent
        /\ \A i \in 1..Len(ancestors) : ancestors'[i] = ancestors[i]
    BY <1>1, <1>2, <2>1
  <2>3. ASSUME NEW i \in 1..Len(ancestors')
        PROVE  i \in 1..Len(ancestors) \/ i = Len(ancestors')
    BY <2>2
  <2>4. linkHolds(child, parent, turn.context, at)
    BY <1>4
  <2>5. AncestorsPermit'
    <3> SUFFICES ASSUME NEW i \in 1..Len(ancestors'), NEW use \in Uses,
                        permits(turn.grant, use, turn.context)
                 PROVE  permits(ancestors'[i], use, turn.context)
      BY <2>1 DEF AncestorsPermit, permits
    <3>1. CASE i \in 1..Len(ancestors)
      BY <1>1, <2>2, <3>1 DEF ChainIInv, AncestorsPermit
    <3>2. CASE i = Len(ancestors')
      <4>1. permits(child, use, turn.context)
        <5>1. CASE ancestors = <<>>
          BY <1>1, <5>1
        <5>2. CASE ancestors # <<>>
          <6>1. Len(ancestors) \in 1..Len(ancestors)
            BY <1>1, <5>2
          <6>2. child = ancestors[Len(ancestors)]
            BY <1>1, <5>2
          <6>3. permits(ancestors[Len(ancestors)], use, turn.context)
            BY <1>1, <6>1 DEF ChainIInv, AncestorsPermit
          <6> QED
            BY <6>2, <6>3
        <5> QED
          BY <5>1, <5>2
      <4>2. use \in Use
        BY WalkAssumption
      <4> QED
        BY <1>1, <1>2, <2>2, <2>4, <3>2, <4>1, <4>2, LinkPermits
    <3> QED
      BY <2>3, <3>1, <3>2
  <2>6. AncestorsHaveBudget'
    <3> SUFFICES ASSUME NEW i \in 1..Len(ancestors')
                 PROVE  depthOf(ancestors'[i]) >= i + depthOf(turn.grant)
      BY <2>1 DEF AncestorsHaveBudget, depthOf
    <3>1. CASE i \in 1..Len(ancestors)
      BY <1>1, <2>2, <3>1 DEF ChainIInv, AncestorsHaveBudget
    <3>2. CASE i = Len(ancestors')
      <4>1. depthOf(child) >= Len(ancestors) + depthOf(turn.grant)
        <5>1. CASE ancestors = <<>>
          <6>1. depthOf(turn.grant) \in Nat
            BY <1>1, DepthIsNat
          <6> QED
            BY <1>1, <5>1, <6>1
        <5>2. CASE ancestors # <<>>
          <6>1. Len(ancestors) \in 1..Len(ancestors)
            BY <1>1, <5>2
          <6> QED
            BY <1>1, <5>2, <6>1 DEF ChainIInv, AncestorsHaveBudget
        <5> QED
          BY <5>1, <5>2
      <4>2. depthOf(parent) >= depthOf(child) + 1
        BY <1>1, <1>2, <2>4, DepthIsNat DEF linkHolds, delegationPermitted
      <4>3. /\ depthOf(parent) \in Nat /\ depthOf(child) \in Nat
            /\ depthOf(turn.grant) \in Nat
        BY <1>1, <1>2, DepthIsNat
      <4> QED
        BY <2>2, <3>2, <4>1, <4>2, <4>3
    <3> QED
      BY <2>3, <3>1, <3>2
  <2> QED
    BY <2>5, <2>6 DEF ChainIInv
<1> QED
  BY <1>3, <1>4

THEOREM ChainInductiveInvariant == ChainSpec => []ChainIInv
<1>1. ChainInit => ChainIInv
  <2> SUFFICES ASSUME ChainInit
               PROVE  ChainIInv
    OBVIOUS
  <2>1. ChainTypeOK
    BY WalkAssumption DEF ChainInit, ChainTypeOK, Optional, Store
  <2> QED
    BY <2>1 DEF ChainInit, ChainIInv, AncestorsPermit, AncestorsHaveBudget, sound
<1>2. ChainIInv /\ ChainTypeOK' /\ [ChainNext]_chainVars => ChainIInv'
  <2> SUFFICES ASSUME ChainIInv, ChainTypeOK', [ChainNext]_chainVars
               PROVE  ChainIInv'
    OBVIOUS
  <2>1. ASSUME Tick \/ \E id \in GrantIds, request \in DeriveRequests : Derive(id, request)
        PROVE  ChainIInv'
    BY <2>1, FrameKeepsIInv DEF Tick, Derive, walkVars, sound
  <2>2. ASSUME \E id \in GrantIds : Revoke(id) \/ Remove(id)
        PROVE  ChainIInv'
    BY <2>2, FrameKeepsIInv DEF Revoke, Remove, walkVars, sound
  <2>3. ASSUME \E id \in GrantIds, context \in Contexts : Admit(id, context)
        PROVE  ChainIInv'
    BY <2>3, EmptyKeepsIInv DEF Admit
  <2>4. CASE StartWalk
    BY <2>4, EmptyKeepsIInv DEF StartWalk
  <2>5. CASE TooLong \/ ResolverFails \/ ParentMissing
    BY <2>5, FrameKeepsIInv DEF TooLong, ResolverFails, ParentMissing, missingMeans, sound, hostVars
  <2>6. CASE ParentResolved
    BY <2>6, ResolvedKeepsIInv
  <2>7. CASE UNCHANGED chainVars
    BY <2>7, FrameKeepsIInv DEF chainVars, sound
  <2> QED
    BY <2>1, <2>2, <2>3, <2>4, <2>5, <2>6, <2>7 DEF ChainNext, Host, WalkSteps
<1> QED
  BY <1>1, <1>2, ChainTypesCorrect, PTL DEF ChainSpec

-----------------------------------------------------------------------------
(* The theorems *)

(* Delegation never amplifies, whatever the grants, the requests and the   *)
(* edits made while the walk waits (validateDelegationChain).              *)
THEOREM DelegationNeverAmplifies == ChainSpec => []NoAmplification
<1>1. ChainIInv => NoAmplification
  BY DEF ChainIInv, AncestorsPermit, NoAmplification, sound
<1> QED
  BY <1>1, ChainInductiveInvariant, PTL

(* A chain never outruns the depth its root was granted                    *)
(* (delegation_depth_exceeded).                                            *)
THEOREM DelegationSpendsDepth == ChainSpec => []DepthBudgetSpent
<1>1. ChainIInv => DepthBudgetSpent
  BY DEF ChainIInv, AncestorsHaveBudget, DepthBudgetSpent, sound
<1> QED
  BY <1>1, ChainInductiveInvariant, PTL

-----------------------------------------------------------------------------
(* The store's history                                                     *)

(* Grants are immutable but for their revocation.                          *)
isSameGrant(grant, other) ==
    /\ other.id = grant.id /\ other.namespaceId = grant.namespaceId
    /\ other.subject = grant.subject /\ other.issuer = grant.issuer
    /\ other.capabilities = grant.capabilities /\ other.constraints = grant.constraints
    /\ other.issuedAt = grant.issuedAt /\ other.parentGrantId = grant.parentGrantId

(* Every grant somebody holds a copy of: the store, the turn, the walk.    *)
turnsOwn == IF turn = None THEN {} ELSE {turn.grant}
stored == {store[id] : id \in GrantIds}
resolved == {ancestors[i] : i \in 1..Len(ancestors)}
storedBefore == IF status = "idle" THEN {} ELSE {before[id] : id \in GrantIds}
known == ((stored \cup storedBefore) \ {None}) \cup turnsOwn \cup resolved

IdsAreSpent ==
    \A grant \in known :
        /\ grant.id \in issued
        /\ grant.parentGrantId # None => grant.parentGrantId \in issued

OneGrantPerId ==
    \A grant \in known : store[grant.id] # None => isSameGrant(grant, store[grant.id])

DerivedGrantsFit ==
    \A grant \in known :
        /\ grant.id \in derived
        /\ grant.parentGrantId # None /\ store[grant.parentGrantId] # None
        => \A context \in Context : fitsUnder(grant, store[grant.parentGrantId], context)

HasBefore == status # "idle" => before \in Store

Lineage == ChainTypeOK /\ HasBefore /\ IdsAreSpent /\ OneGrantPerId /\ DerivedGrantsFit

(* While a walk goes on: what a grant named and the store did not have     *)
(* then, it has not got now; and what has been revoked since was not then. *)
wasNamed(id) ==
    /\ id # None
    /\ \/ turn.grant.parentGrantId = id
       \/ \E other \in GrantIds : before[other] # None /\ before[other].parentGrantId = id

StoreOnlyLoses ==
    status = "walking" =>
        /\ \A id \in GrantIds : before[id] = None /\ wasNamed(id) => store[id] = None
        /\ \A id \in GrantIds :
               before[id] # None /\ store[id] # None =>
                   before[id].revokedAt \in {None, store[id].revokedAt}

(* The line of ancestors as the store had it when the walk began.          *)
lineAt(i) == IF i = 0 THEN turn.grant ELSE before[ancestors[i].id]

LineWasWhole ==
    sound =>
        \A i \in 1..Len(ancestors) :
            /\ lineAt(i) # None
            /\ isSameGrant(ancestors[i], lineAt(i))
            /\ lineAt(i - 1).parentGrantId = lineAt(i).id
            /\ linkHolds(lineAt(i - 1), lineAt(i), turn.context, at)

(* The walk is at the deepest budget it has met.                           *)
BudgetsRise ==
    sound =>
        /\ \A i \in 1..Len(ancestors) : depthOf(ancestors[i]) <= depthOf(child)
        /\ depthOf(turn.grant) <= depthOf(child)

EndsAtRoot == status = "valid" => child.parentGrantId = None

HInv == Lineage /\ StoreOnlyLoses /\ LineWasWhole /\ BudgetsRise /\ EndsAtRoot /\ DerivedLinksHold

LEMMA KnownAreGrants ==
    ASSUME ChainTypeOK, HasBefore
    PROVE  known \subseteq Grant
<1>1. stored \ {None} \subseteq Grant
  BY DEF stored, ChainTypeOK, Store, Optional
<1>2. turnsOwn \subseteq Grant
  BY DEF turnsOwn, ChainTypeOK, Optional
<1>3. resolved \subseteq Grant
  BY DEF resolved, ChainTypeOK
<1>4. storedBefore \ {None} \subseteq Grant
  BY DEF storedBefore, HasBefore, Store, Optional
<1> QED
  BY <1>1, <1>2, <1>3, <1>4 DEF known

(* Nothing but the store knows a grant by its key alone.                   *)
LEMMA StoredAreKnown ==
    ASSUME ChainTypeOK, HasBefore, NEW id \in GrantIds, store[id] # None
    PROVE  store[id] \in known /\ store[id] \in Grant /\ store[id].id = id
<1>1. store[id] \in known
  BY DEF known, stored
<1> QED
  BY <1>1, KnownAreGrants DEF ChainTypeOK, Store

LEMMA SameFits ==
    ASSUME NEW child1, NEW parent1, NEW child2, NEW parent2, NEW context,
           isSameGrant(child1, child2), isSameGrant(parent1, parent2),
           fitsUnder(child1, parent1, context)
    PROVE  fitsUnder(child2, parent2, context)
BY DEF isSameGrant, fitsUnder, delegationPermitted, depthOf, capabilitiesCovered,
       constraintsAreAttenuated, startOf

(* What held of two grants held of them before the parent was revoked.     *)
LEMMA SameLinkHeld ==
    ASSUME NEW child1, NEW parent1, NEW child2, NEW parent2, NEW context, NEW instants,
           isSameGrant(child1, child2), isSameGrant(parent1, parent2),
           parent2.revokedAt \in {None, parent1.revokedAt},
           linkHolds(child1, parent1, context, instants)
    PROVE  linkHolds(child2, parent2, context, instants)
<1>1. parentIsActive(parent1, context, instants) /\ fitsUnder(child1, parent1, context)
  BY LinkIsActiveAndFits
<1>2. parentIsActive(parent2, context, instants)
  BY <1>1 DEF isSameGrant, parentIsActive, grantIsActive, withinBounds
<1>3. fitsUnder(child2, parent2, context)
  BY <1>1, SameFits
<1> QED
  BY <1>2, <1>3, LinkIsActiveAndFits

-----------------------------------------------------------------------------
(* Lineage                                                                 *)

(* A step that leaves the store alone and copies only what was known.      *)
LEMMA CopyKeepsLineage ==
    ASSUME Lineage, ChainTypeOK', HasBefore', UNCHANGED <<store, issued, derived>>,
           known' \subseteq known
    PROVE  Lineage'
BY DEF Lineage, IdsAreSpent, OneGrantPerId, DerivedGrantsFit

LEMMA DeriveKeepsLineage ==
    ASSUME Lineage, ChainTypeOK', NEW id \in GrantIds, NEW request \in DeriveRequests,
           Derive(id, request)
    PROVE  Lineage'
<1> DEFINE heir == deriveGrant(store[id], request)
<1>1. request \in DeriveGrantRequest /\ request.id \in GrantIds \ issued
  BY WalkAssumption DEF Derive
<1>2. /\ store[id] \in Grant /\ store[id].id = id /\ store[id] \in known
      /\ id \in issued /\ id # request.id
  BY <1>1, StoredAreKnown DEF Lineage, IdsAreSpent, Derive
<1>3. heir \in Grant /\ heir.id = request.id /\ heir.parentGrantId = id
  <2>1. heir \in Grant /\ heir.id = request.id
    BY <1>1, <1>2, DerivedIsGrant DEF Derive
  <2>2. heir.parentGrantId = id
    BY <1>2 DEF deriveGrant
  <2> QED
    BY <2>1, <2>2
<1>4. \A context \in Context : fitsUnder(heir, store[id], context)
  BY <1>1, <1>2, DerivedFits DEF Derive
<1> HIDE DEF heir
<1>5. /\ store' = [store EXCEPT ![request.id] = heir]
      /\ issued' = issued \cup {request.id} /\ derived' = derived \cup {request.id}
      /\ UNCHANGED <<turn, ancestors, before, status>>
      /\ store \in [GrantIds -> Optional(Grant)]
  BY DEF heir, Derive, walkVars, Lineage, ChainTypeOK, Store
<1>6. \A other \in GrantIds : store'[other] = IF other = request.id THEN heir ELSE store[other]
  BY <1>1, <1>5
<1>7. known' \subseteq known \cup {heir}
  BY <1>5, <1>6 DEF known, stored, turnsOwn, resolved, storedBefore
<1>8. \A grant \in known :
          /\ grant.id \in issued /\ grant.id # request.id
          /\ grant.parentGrantId # None => grant.parentGrantId # request.id
  BY <1>1 DEF Lineage, IdsAreSpent
<1>9. IdsAreSpent'
  BY <1>2, <1>3, <1>5, <1>7 DEF Lineage, IdsAreSpent
<1>10. OneGrantPerId'
  <2> SUFFICES ASSUME NEW grant \in known', store'[grant.id] # None
               PROVE  isSameGrant(grant, store'[grant.id])
    BY DEF OneGrantPerId
  <2>1. CASE grant = heir
    BY <1>1, <1>3, <1>6, <2>1 DEF isSameGrant
  <2>2. CASE grant \in known
    <3>1. grant.id \in GrantIds
      BY <1>8, <2>2 DEF Lineage, ChainTypeOK
    <3>2. store'[grant.id] = store[grant.id]
      BY <1>6, <1>8, <2>2, <3>1
    <3> QED
      BY <2>2, <3>2 DEF Lineage, OneGrantPerId
  <2> QED
    BY <1>7, <2>1, <2>2
<1>11. DerivedGrantsFit'
  <2> SUFFICES ASSUME NEW grant \in known', grant.id \in derived',
                      grant.parentGrantId # None, store'[grant.parentGrantId] # None,
                      NEW context \in Context
               PROVE  fitsUnder(grant, store'[grant.parentGrantId], context)
    BY DEF DerivedGrantsFit
  <2>1. CASE grant = heir
    BY <1>2, <1>3, <1>4, <1>6, <2>1
  <2>2. CASE grant \in known
    <3>1. grant.parentGrantId \in GrantIds /\ grant.id \in derived
      BY <1>5, <1>8, <2>2 DEF Lineage, IdsAreSpent, ChainTypeOK
    <3>2. store'[grant.parentGrantId] = store[grant.parentGrantId]
      BY <1>6, <1>8, <2>2, <3>1
    <3> QED
      BY <2>2, <3>1, <3>2 DEF Lineage, DerivedGrantsFit
  <2> QED
    BY <1>7, <2>1, <2>2
<1> QED
  BY <1>5, <1>9, <1>10, <1>11 DEF Lineage, HasBefore

LEMMA RevokeKeepsLineage ==
    ASSUME Lineage, ChainTypeOK', NEW id \in GrantIds, Revoke(id)
    PROVE  Lineage'
<1> DEFINE settled == [store[id] EXCEPT !.revokedAt = clock]
<1>1. store[id] \in Grant /\ store[id].id = id /\ store[id] \in known
  BY StoredAreKnown DEF Lineage, Revoke
<1>2. isSameGrant(store[id], settled)
  BY <1>1 DEF isSameGrant, Grant
<1> HIDE DEF settled
<1>3. /\ \A other \in GrantIds : store'[other] = IF other = id THEN settled ELSE store[other]
      /\ UNCHANGED <<issued, derived, turn, ancestors, before, status>>
  BY DEF settled, Revoke, walkVars, Lineage, ChainTypeOK, Store
<1>4. known' \subseteq known \cup {settled}
  BY <1>3 DEF known, stored, turnsOwn, resolved, storedBefore
<1>5. \A other \in GrantIds : store'[other] # None =>
          \/ store'[other] = store[other]
          \/ other = id /\ store'[other] = settled
  BY <1>3
<1>6. \A grant \in known \cup {settled} : \E copy \in known : isSameGrant(copy, grant)
  BY <1>1, <1>2 DEF isSameGrant
<1>7. IdsAreSpent'
  <2> SUFFICES ASSUME NEW grant \in known'
               PROVE  /\ grant.id \in issued'
                      /\ grant.parentGrantId # None => grant.parentGrantId \in issued'
    BY DEF IdsAreSpent
  <2>1. PICK copy \in known : isSameGrant(copy, grant)
    BY <1>4, <1>6
  <2> QED
    BY <1>3, <2>1 DEF Lineage, IdsAreSpent, isSameGrant
<1>8. OneGrantPerId'
  <2> SUFFICES ASSUME NEW grant \in known', store'[grant.id] # None
               PROVE  isSameGrant(grant, store'[grant.id])
    BY DEF OneGrantPerId
  <2>1. PICK copy \in known : isSameGrant(copy, grant)
    BY <1>4, <1>6
  <2>2. grant.id \in GrantIds /\ copy.id = grant.id
    BY <2>1 DEF Lineage, IdsAreSpent, isSameGrant, ChainTypeOK
  <2>3. store[grant.id] # None
    BY <1>3, <2>2 DEF Revoke
  <2>4. isSameGrant(copy, store[grant.id])
    BY <2>2, <2>3 DEF Lineage, OneGrantPerId
  <2> QED
    BY <1>2, <1>5, <2>1, <2>2, <2>4 DEF isSameGrant
<1>9. DerivedGrantsFit'
  <2> SUFFICES ASSUME NEW grant \in known', grant.id \in derived',
                      grant.parentGrantId # None, store'[grant.parentGrantId] # None,
                      NEW context \in Context
               PROVE  fitsUnder(grant, store'[grant.parentGrantId], context)
    BY DEF DerivedGrantsFit
  <2>1. PICK copy \in known : isSameGrant(copy, grant)
    BY <1>4, <1>6
  <2>2. /\ copy.id = grant.id /\ copy.parentGrantId = grant.parentGrantId
        /\ copy.id \in derived /\ grant.parentGrantId \in GrantIds
    BY <1>3, <2>1 DEF Lineage, IdsAreSpent, isSameGrant, ChainTypeOK
  <2>3. store[grant.parentGrantId] # None
    BY <1>3, <2>2 DEF Revoke
  <2>4. fitsUnder(copy, store[grant.parentGrantId], context)
    BY <2>2, <2>3 DEF Lineage, DerivedGrantsFit
  <2>5. isSameGrant(store[grant.parentGrantId], store'[grant.parentGrantId])
    BY <1>2, <1>5, <2>2 DEF isSameGrant
  <2> QED
    BY <2>1, <2>4, <2>5, SameFits
<1> QED
  BY <1>3, <1>7, <1>8, <1>9 DEF Lineage, HasBefore

LEMMA RemoveKeepsLineage ==
    ASSUME Lineage, ChainTypeOK', NEW id \in GrantIds, Remove(id)
    PROVE  Lineage'
<1>1. /\ \A other \in GrantIds : store'[other] # None => store'[other] = store[other]
      /\ UNCHANGED <<issued, derived, turn, ancestors, before, status>>
  BY DEF Remove, walkVars, Lineage, ChainTypeOK, Store
<1>2. known' \subseteq known
  BY <1>1 DEF known, stored, turnsOwn, resolved, storedBefore
<1>3. \A grant \in known :
          /\ grant.id \in GrantIds
          /\ grant.parentGrantId # None => grant.parentGrantId \in GrantIds
  BY DEF Lineage, IdsAreSpent, ChainTypeOK
<1>4. IdsAreSpent'
  BY <1>1, <1>2 DEF Lineage, IdsAreSpent
<1>5. OneGrantPerId'
  BY <1>1, <1>2, <1>3 DEF Lineage, OneGrantPerId
<1>6. DerivedGrantsFit'
  BY <1>1, <1>2, <1>3 DEF Lineage, DerivedGrantsFit
<1> QED
  BY <1>1, <1>4, <1>5, <1>6 DEF Lineage, HasBefore

(* The walk and the turns only copy.                                       *)
LEMMA WalkKeepsLineage ==
    ASSUME Lineage, ChainTypeOK',
           \/ Tick \/ WalkSteps \/ UNCHANGED chainVars
           \/ \E id \in GrantIds, context \in Contexts : Admit(id, context)
    PROVE  Lineage'
<1>1. HasBefore'
  BY DEF Tick, WalkSteps, StartWalk, TooLong, ResolverFails, ParentMissing, ParentResolved, Admit, hostVars,
     walkVars, chainVars, HasBefore, Lineage, ChainTypeOK
<1>2. CASE Tick \/ TooLong \/ ResolverFails \/ ParentMissing \/ UNCHANGED chainVars
  BY <1>1, <1>2, CopyKeepsLineage DEF Tick, TooLong, ResolverFails, ParentMissing, missingMeans,
     hostVars, walkVars, chainVars, known, stored, turnsOwn, resolved, storedBefore
<1>3. ASSUME NEW id \in GrantIds, NEW context \in Contexts, Admit(id, context)
      PROVE  Lineage'
  <2>1. /\ turn'.grant = store[id] /\ ancestors' = <<>> /\ status' = "idle"
        /\ UNCHANGED <<store, issued, derived>>
    BY <1>3 DEF Admit, hostVars
  <2>2. resolved' = {} /\ turnsOwn' \subseteq {store[id]} /\ store[id] # None
    BY <1>3, <2>1 DEF Admit, turnsOwn, resolved
  <2>3. known' \subseteq known
    BY <2>1, <2>2 DEF known, stored, storedBefore
  <2> QED
    BY <1>1, <2>1, <2>3, CopyKeepsLineage
<1>4. CASE StartWalk
  <2>1. ancestors' = <<>> /\ before' = store /\ UNCHANGED <<turn, store, issued, derived>>
    BY <1>4 DEF StartWalk, hostVars
  <2>2. known' \subseteq known
    BY <2>1 DEF known, stored, turnsOwn, resolved, storedBefore
  <2> QED
    BY <1>1, <2>1, <2>2, CopyKeepsLineage
<1>5. CASE ParentResolved
  <2>1. UNCHANGED <<turn, store, issued, derived, before>> /\ status = "walking"
    BY <1>5 DEF ParentResolved, hostVars
  <2>2. child.parentGrantId \in GrantIds /\ ancestors \in Seq(Grant)
    BY <1>5 DEF ParentResolved, Lineage, ChainTypeOK, Grant, Optional
  <2>3. store[child.parentGrantId] \in Grant
    BY <1>5, <2>2, StoredAreKnown DEF ParentResolved, Lineage
  <2>4. \/ ancestors' = ancestors
        \/ ancestors' = Append(ancestors, store[child.parentGrantId])
    BY <1>5 DEF ParentResolved
  <2>5. resolved' \subseteq resolved \cup (stored \ {None})
    BY <1>5, <2>2, <2>3, <2>4 DEF ParentResolved, resolved, stored
  <2>6. known' \subseteq known
    BY <2>1, <2>5 DEF known, stored, turnsOwn, storedBefore
  <2> QED
    BY <1>1, <2>1, <2>6, CopyKeepsLineage
<1> QED
  BY <1>2, <1>3, <1>4, <1>5 DEF WalkSteps

-----------------------------------------------------------------------------
(* The walk over that history                                              *)

(* What an edit of the store takes from the walk is only what is still to  *)
(* be resolved.                                                            *)
LEMMA EditKeepsStoreOnlyLoses ==
    ASSUME Lineage, Lineage', StoreOnlyLoses, NEW id \in GrantIds,
           \/ \E request \in DeriveRequests : Derive(id, request)
           \/ Revoke(id) \/ Remove(id)
    PROVE  StoreOnlyLoses'
<1> SUFFICES ASSUME status = "walking", UNCHANGED walkVars, UNCHANGED turn
             PROVE  StoreOnlyLoses'
  BY DEF StoreOnlyLoses, Derive, Revoke, Remove, walkVars
<1>1. before \in Store /\ turn # None
  BY DEF Lineage, HasBefore, ChainTypeOK
<1>2. \A other \in GrantIds : before[other] # None => before[other] \in known
  BY DEF known, storedBefore
<1>3. turn.grant \in known
  BY <1>1 DEF known, turnsOwn, Lineage, ChainTypeOK
<1>4. \A other \in GrantIds : wasNamed(other) \/ before[other] # None => other \in issued
  <2> SUFFICES ASSUME NEW other \in GrantIds, wasNamed(other) \/ before[other] # None
               PROVE  other \in issued
    OBVIOUS
  <2>1. CASE before[other] # None
    BY <1>1, <1>2, <2>1 DEF Lineage, IdsAreSpent, Store
  <2>2. CASE wasNamed(other)
    BY <1>2, <1>3, <2>2 DEF wasNamed, Lineage, IdsAreSpent
  <2> QED
    BY <2>1, <2>2
<1>5. \A other \in GrantIds : wasNamed(other)' <=> wasNamed(other)
  BY DEF wasNamed, walkVars
<1>6. \A other \in GrantIds : other \in issued /\ store'[other] # None => store[other] # None
  BY WalkAssumption DEF Derive, Revoke, Remove, Lineage, ChainTypeOK, Store
<1>7. \A other \in GrantIds : other \in issued /\ store'[other] # None =>
          store[other].revokedAt \in {None, store'[other].revokedAt}
  <2> SUFFICES ASSUME NEW other \in GrantIds, other \in issued, store'[other] # None
               PROVE  store[other].revokedAt \in {None, store'[other].revokedAt}
    OBVIOUS
  <2>1. CASE Revoke(id) /\ other = id
    BY <2>1 DEF Revoke
  <2>2. CASE Revoke(id) /\ other # id
    BY <2>2 DEF Revoke, Lineage, ChainTypeOK, Store
  <2>3. CASE Remove(id)
    BY <2>3 DEF Remove, Lineage, ChainTypeOK, Store
  <2>4. ASSUME NEW request \in DeriveRequests, Derive(id, request)
        PROVE  store[other].revokedAt \in {None, store'[other].revokedAt}
    BY <2>4 DEF Derive, Lineage, ChainTypeOK, Store
  <2> QED
    BY <2>1, <2>2, <2>3, <2>4
<1>8. \A other \in GrantIds :
          before[other] # None /\ store'[other] # None =>
              before[other].revokedAt \in {None, store'[other].revokedAt}
  BY <1>4, <1>6, <1>7 DEF StoreOnlyLoses
<1>9. \A other \in GrantIds : before[other] = None /\ wasNamed(other) => store'[other] = None
  BY <1>4, <1>6 DEF StoreOnlyLoses
<1> QED
  BY <1>5, <1>8, <1>9 DEF StoreOnlyLoses, walkVars

(* The ancestors a walk holds are those the store had, though a parent may *)
(* have been revoked since.                                                *)
LEMMA ResolvedWasThere ==
    ASSUME Lineage, StoreOnlyLoses, LineWasWhole, status = "walking",
           store[child.parentGrantId] # None
    PROVE  LET parent == store[child.parentGrantId]
               was == before[parent.id] IN
           /\ parent \in Grant /\ parent.id = child.parentGrantId /\ was # None
           /\ isSameGrant(parent, was) /\ was.revokedAt \in {None, parent.revokedAt}
           /\ isSameGrant(child, lineAt(Len(ancestors)))
<1> DEFINE parent == store[child.parentGrantId]
           was == before[parent.id]
<1>1. /\ child \in Grant /\ child.parentGrantId \in GrantIds /\ child.parentGrantId # None
      /\ ancestors \in Seq(Grant) /\ before \in Store
      /\ child = IF ancestors = <<>> THEN turn.grant ELSE ancestors[Len(ancestors)]
  BY DEF Lineage, HasBefore, ChainTypeOK, Grant, Optional
<1>2. parent \in Grant /\ parent.id = child.parentGrantId /\ parent \in known
  BY <1>1, StoredAreKnown DEF Lineage
<1>3. isSameGrant(child, lineAt(Len(ancestors))) /\ wasNamed(parent.id)
  <2>1. CASE ancestors = <<>>
    BY <1>1, <1>2, <2>1 DEF lineAt, isSameGrant, wasNamed
  <2>2. CASE ancestors # <<>>
    <3>1. Len(ancestors) \in 1..Len(ancestors) /\ child = ancestors[Len(ancestors)]
      BY <1>1, <2>2
    <3>2. /\ lineAt(Len(ancestors)) # None /\ isSameGrant(child, lineAt(Len(ancestors)))
          /\ lineAt(Len(ancestors)) = before[child.id] /\ child.id \in GrantIds
      BY <1>1, <3>1 DEF LineWasWhole, sound, lineAt, Grant
    <3> QED
      BY <1>1, <1>2, <3>2 DEF wasNamed, isSameGrant
  <2> QED
    BY <2>1, <2>2
<1>4. parent.id \in GrantIds /\ was # None
  BY <1>1, <1>2, <1>3 DEF StoreOnlyLoses
<1>5. was \in known /\ was.id = parent.id
  BY <1>1, <1>4 DEF known, storedBefore, Store
<1>6. isSameGrant(was, parent)
  BY <1>2, <1>5 DEF Lineage, OneGrantPerId
<1> QED
  BY <1>2, <1>3, <1>4, <1>6 DEF isSameGrant, StoreOnlyLoses

(* Moving up a link that holds now moves up one that held then.            *)
LEMMA ResolvedKeepsLine ==
    ASSUME Lineage, StoreOnlyLoses, LineWasWhole, BudgetsRise, ParentResolved
    PROVE  LineWasWhole' /\ BudgetsRise' /\ EndsAtRoot'
<1> DEFINE parent == store[child.parentGrantId]
           was == before[parent.id]
           len == Len(ancestors)
<1>1. /\ child \in Grant /\ ancestors \in Seq(Grant) /\ len \in Nat
      /\ status = "walking" /\ sound /\ UNCHANGED <<turn, at, before>>
      /\ turn.grant \in Grant
      /\ parent # None
  BY DEF ParentResolved, Lineage, ChainTypeOK, Optional, sound
<1>2. /\ parent \in Grant /\ parent.id = child.parentGrantId /\ was # None
      /\ isSameGrant(parent, was) /\ was.revokedAt \in {None, parent.revokedAt}
      /\ isSameGrant(child, lineAt(len))
  BY <1>1, ResolvedWasThere
<1> HIDE DEF parent, was
<1>3. CASE seen(parent.id) \/ ~linkHolds(child, parent, turn.context, at)
  BY <1>3 DEF ParentResolved, parent, LineWasWhole, BudgetsRise, EndsAtRoot, sound
<1>4. CASE ~(seen(parent.id) \/ ~linkHolds(child, parent, turn.context, at))
  <2>1. /\ ancestors' = Append(ancestors, parent) /\ child' = parent
        /\ status' = statusAt(parent)
    BY <1>4 DEF ParentResolved, parent
  <2>2. /\ Len(ancestors') = len + 1 /\ ancestors'[len + 1] = parent
        /\ \A i \in 1..len : ancestors'[i] = ancestors[i]
    BY <1>1, <1>2, <2>1
  <2>3. linkHolds(lineAt(len), was, turn.context, at)
    BY <1>2, <1>4, SameLinkHeld
  <2>4. /\ \A i \in 0..len : lineAt(i)' = lineAt(i)
        /\ \A i : i = len + 1 => lineAt(i)' = was
    BY <1>1, <2>2 DEF lineAt, was
  <2>5. LineWasWhole'
    <3> SUFFICES ASSUME NEW i \in 1..len + 1
                 PROVE  /\ lineAt(i)' # None
                        /\ isSameGrant(ancestors'[i], lineAt(i)')
                        /\ lineAt(i - 1)'.parentGrantId = lineAt(i)'.id
                        /\ linkHolds(lineAt(i - 1)', lineAt(i)', turn'.context, at')
      BY <2>2 DEF LineWasWhole
    <3>1. CASE i = len + 1
      <4>1. lineAt(i)' = was /\ lineAt(i - 1)' = lineAt(len) /\ ancestors'[i] = parent
        BY <1>1, <2>2, <2>4, <3>1
      <4> QED
        BY <1>1, <1>2, <2>3, <4>1 DEF isSameGrant
    <3>2. CASE i # len + 1
      <4>1. /\ i \in 1..len /\ i \in 0..len /\ i - 1 \in 0..len
        BY <1>1, <3>2
      <4>2. lineAt(i)' = lineAt(i) /\ lineAt(i - 1)' = lineAt(i - 1) /\ ancestors'[i] = ancestors[i]
        BY <2>2, <2>4, <4>1
      <4> QED
        BY <1>1, <4>1, <4>2 DEF LineWasWhole
    <3> QED
      BY <3>1, <3>2
  <2>6. BudgetsRise'
    <3>1. depthOf(parent) >= depthOf(child) + 1
      BY <1>1, <1>2, <1>4, DepthIsNat DEF linkHolds, delegationPermitted
    <3>2. /\ depthOf(parent) \in Nat /\ depthOf(child) \in Nat /\ depthOf(turn.grant) \in Nat
          /\ \A i \in 1..len : depthOf(ancestors[i]) \in Nat
      BY <1>1, <1>2, DepthIsNat
    <3>3. ASSUME NEW i \in 1..len + 1
          PROVE  depthOf(ancestors'[i]) <= depthOf(parent)
      <4>1. CASE i = len + 1
        BY <2>2, <3>2, <4>1
      <4>2. CASE i # len + 1
        <5>1. i \in 1..len
          BY <1>1, <4>2
        <5> QED
          BY <1>1, <2>2, <3>1, <3>2, <5>1 DEF BudgetsRise
      <4> QED
        BY <4>1, <4>2
    <3>4. depthOf(turn.grant) <= depthOf(parent)
      BY <1>1, <3>1, <3>2 DEF BudgetsRise
    <3> QED
      BY <1>1, <2>1, <2>2, <3>3, <3>4 DEF BudgetsRise, depthOf
  <2>7. EndsAtRoot'
    BY <2>1 DEF EndsAtRoot, statusAt
  <2> QED
    BY <2>5, <2>6, <2>7
<1> QED
  BY <1>3, <1>4

(* A cycle is no way round: a grant met again has no more budget than the  *)
(* walk has met since, and what deriveGrant issued has less than its parent.*)
LEMMA ResolvedKeepsCause ==
    ASSUME Lineage, StoreOnlyLoses, LineWasWhole, BudgetsRise, ParentResolved
    PROVE  DerivedLinksHold'
<1> DEFINE parent == store[child.parentGrantId]
<1>1. /\ child \in Grant /\ child.parentGrantId \in GrantIds /\ child.parentGrantId # None
      /\ status = "walking" /\ sound /\ UNCHANGED <<turn, at, derived>>
      /\ turn.grant \in Grant /\ turn # None /\ turn.context \in Context
      /\ ancestors \in Seq(Grant) /\ parent # None
      /\ child = IF ancestors = <<>> THEN turn.grant ELSE ancestors[Len(ancestors)]
  BY DEF ParentResolved, hostVars, Lineage, ChainTypeOK, Grant, Optional, sound
<1>2. parent \in Grant /\ parent.id = child.parentGrantId
  BY <1>1, StoredAreKnown DEF Lineage
<1>3. turn.grant \in known /\ \A i \in 1..Len(ancestors) : ancestors[i] \in known
  BY <1>1 DEF known, turnsOwn, resolved
<1>4. child \in known
  <2>1. CASE ancestors = <<>>
    BY <1>1, <1>3, <2>1
  <2>2. CASE ancestors # <<>>
    BY <1>1, <1>3, <2>2
  <2> QED
    BY <2>1, <2>2
<1>5. ASSUME child.id \in derived, parentIsActive(parent, turn.context, at)
      PROVE  ~seen(parent.id) /\ linkHolds(child, parent, turn.context, at)
  <2>1. fitsUnder(child, parent, turn.context)
    BY <1>1, <1>4, <1>5 DEF Lineage, DerivedGrantsFit
  <2>2. depthOf(parent) >= depthOf(child) + 1
    BY <1>1, <1>2, <2>1, DepthIsNat DEF fitsUnder, delegationPermitted
  <2>3. ASSUME NEW grant \in known, grant.id = parent.id
        PROVE  depthOf(grant) = depthOf(parent)
    <3>1. isSameGrant(grant, parent)
      BY <1>1, <1>2, <2>3 DEF Lineage, OneGrantPerId
    <3> QED
      BY <3>1 DEF isSameGrant, depthOf
  <2>4. turn.grant.id # parent.id
    BY <1>1, <1>2, <1>3, <2>2, <2>3, DepthIsNat DEF BudgetsRise
  <2>5. \A i \in 1..Len(ancestors) : ancestors[i].id # parent.id
    <3> SUFFICES ASSUME NEW i \in 1..Len(ancestors), ancestors[i].id = parent.id
                 PROVE  FALSE
      OBVIOUS
    <3>1. depthOf(ancestors[i]) = depthOf(parent) /\ depthOf(ancestors[i]) <= depthOf(child)
      BY <1>1, <1>3, <2>3 DEF BudgetsRise
    <3> QED
      BY <1>1, <1>2, <2>2, <3>1, DepthIsNat
  <2> QED
    BY <1>5, <2>1, <2>4, <2>5, LinkIsActiveAndFits DEF seen
<1> HIDE DEF parent
<1>6. CASE seen(parent.id) \/ ~linkHolds(child, parent, turn.context, at)
  <2>1. broken' = parent /\ child' = child
    BY <1>6 DEF ParentResolved, parent
  <2> QED
    BY <1>1, <1>5, <1>6, <2>1 DEF DerivedLinksHold, parentIsActive
<1>7. CASE ~(seen(parent.id) \/ ~linkHolds(child, parent, turn.context, at))
  BY <1>7 DEF ParentResolved, parent, statusAt, DerivedLinksHold
<1> QED
  BY <1>6, <1>7

(* Steps of the host leave a walk that is over, or waits, as it is.        *)
LEMMA HostKeepsWalk ==
    ASSUME Lineage, LineWasWhole, BudgetsRise, EndsAtRoot, DerivedLinksHold,
           UNCHANGED <<limit, turn, walkVars>>,
           \A id \in issued : id \in derived' => id \in derived
    PROVE  LineWasWhole' /\ BudgetsRise' /\ EndsAtRoot' /\ DerivedLinksHold'
<1>1. status = "invalid" => child.id \in issued
  <2> SUFFICES ASSUME status = "invalid"
               PROVE  child.id \in issued
    OBVIOUS
  <2>1. /\ child # None /\ turn # None /\ turn.grant # None /\ ancestors \in Seq(Grant)
        /\ child = IF ancestors = <<>> THEN turn.grant ELSE ancestors[Len(ancestors)]
    BY DEF Lineage, ChainTypeOK
  <2>2. child \in turnsOwn \cup resolved
    BY <2>1 DEF turnsOwn, resolved
  <2> QED
    BY <2>1, <2>2 DEF known, Lineage, IdsAreSpent
<1>2. LineWasWhole'
  BY DEF LineWasWhole, lineAt, sound, walkVars
<1>3. BudgetsRise' /\ EndsAtRoot'
  BY DEF BudgetsRise, EndsAtRoot, sound, walkVars
<1>4. DerivedLinksHold'
  BY <1>1 DEF DerivedLinksHold, chainIsFull, walkVars
<1> QED
  BY <1>2, <1>3, <1>4

THEOREM HistoryInvariant == ChainSpec => []HInv
<1>1. ChainInit => HInv
  <2> SUFFICES ASSUME ChainInit
               PROVE  HInv
    OBVIOUS
  <2>1. ChainTypeOK
    BY WalkAssumption DEF ChainInit, ChainTypeOK, Optional, Store
  <2>2. known = stored \ {None}
    BY DEF ChainInit, known, turnsOwn, resolved, storedBefore
  <2>3. Lineage
    BY <2>1, <2>2 DEF ChainInit, Lineage, HasBefore, IdsAreSpent, OneGrantPerId, DerivedGrantsFit,
       stored, isNamed, isSameGrant, ChainTypeOK, Store, Optional, Grant
  <2> QED
    BY <2>3 DEF ChainInit, HInv, StoreOnlyLoses, LineWasWhole, BudgetsRise, EndsAtRoot, DerivedLinksHold,
       sound
<1>2. HInv /\ ChainTypeOK' /\ [ChainNext]_chainVars => HInv'
  <2> SUFFICES ASSUME HInv, ChainTypeOK', [ChainNext]_chainVars
               PROVE  HInv'
    OBVIOUS
  <2> USE DEF HInv
  <2>1. CASE Tick \/ UNCHANGED chainVars
    <3>1. Lineage' /\ StoreOnlyLoses'
      BY <2>1, WalkKeepsLineage DEF Tick, chainVars, walkVars, StoreOnlyLoses, wasNamed
    <3> QED
      BY <2>1, <3>1, HostKeepsWalk DEF Tick, chainVars, walkVars
  <2>2. ASSUME NEW id \in GrantIds, NEW request \in DeriveRequests, Derive(id, request)
        PROVE  HInv'
    <3>1. Lineage'
      BY <2>2, DeriveKeepsLineage
    <3>2. StoreOnlyLoses'
      BY <2>2, <3>1, EditKeepsStoreOnlyLoses
    <3>3. \A other \in issued : other \in derived' => other \in derived
      BY <2>2 DEF Derive
    <3> QED
      BY <2>2, <3>1, <3>2, <3>3, HostKeepsWalk DEF Derive
  <2>3. ASSUME NEW id \in GrantIds, Revoke(id) \/ Remove(id)
        PROVE  HInv'
    <3>1. Lineage'
      BY <2>3, RevokeKeepsLineage, RemoveKeepsLineage
    <3>2. StoreOnlyLoses'
      BY <2>3, <3>1, EditKeepsStoreOnlyLoses
    <3> QED
      BY <2>3, <3>1, <3>2, HostKeepsWalk DEF Revoke, Remove
  <2>4. ASSUME NEW id \in GrantIds, NEW context \in Contexts, Admit(id, context)
        PROVE  HInv'
    <3>1. Lineage'
      BY <2>4, WalkKeepsLineage
    <3> QED
      BY <2>4, <3>1 DEF Admit, StoreOnlyLoses, LineWasWhole, BudgetsRise, EndsAtRoot,
         DerivedLinksHold, sound
  <2>5. CASE StartWalk
    <3>1. Lineage'
      BY <2>5, WalkKeepsLineage DEF WalkSteps
    <3>2. /\ status' = statusAt(turn.grant) /\ child' = turn.grant /\ ancestors' = <<>>
          /\ before' = store /\ UNCHANGED <<store, turn>> /\ turn.grant \in Grant
      BY <2>5 DEF StartWalk, hostVars, Lineage, ChainTypeOK, Optional
    <3>3. BudgetsRise'
      BY <3>2, DepthIsNat DEF BudgetsRise
    <3> QED
      BY <3>1, <3>2, <3>3 DEF StoreOnlyLoses, LineWasWhole, EndsAtRoot, DerivedLinksHold, statusAt
  <2>6. CASE TooLong \/ ResolverFails \/ ParentMissing
    <3>1. Lineage'
      BY <2>6, WalkKeepsLineage DEF WalkSteps
    <3> QED
      BY <2>6, <3>1 DEF TooLong, ResolverFails, ParentMissing, missingMeans, hostVars, chainIsFull,
         StoreOnlyLoses, LineWasWhole, BudgetsRise, EndsAtRoot, DerivedLinksHold, sound
  <2>7. CASE ParentResolved
    <3>1. Lineage'
      BY <2>7, WalkKeepsLineage DEF WalkSteps
    <3>2. StoreOnlyLoses'
      BY <2>7 DEF ParentResolved, hostVars, StoreOnlyLoses, wasNamed
    <3> QED
      BY <2>7, <3>1, <3>2, ResolvedKeepsLine, ResolvedKeepsCause
  <2> QED
    BY <2>1, <2>2, <2>3, <2>4, <2>5, <2>6, <2>7 DEF ChainNext, Host, WalkSteps
<1> QED
  BY <1>1, <1>2, ChainTypesCorrect, PTL DEF ChainSpec

(* A valid walk is as sound as one read of the store at its start          *)
(* (validateDelegationChain).                                              *)
THEOREM ValidChainsWereWhole == ChainSpec => []ValidChainWasWhole
<1>1. HInv => ValidChainWasWhole
  <2> SUFFICES ASSUME HInv, status = "valid"
               PROVE  /\ \A i \in 1..Len(ancestors) :
                             /\ lineAt(i) # None
                             /\ lineAt(i - 1).parentGrantId = lineAt(i).id
                             /\ linkHolds(lineAt(i - 1), lineAt(i), turn.context, at)
                      /\ lineAt(Len(ancestors)).parentGrantId = None
    BY DEF ValidChainWasWhole, lineAt
  <2>1. /\ child.parentGrantId = None /\ ancestors \in Seq(Grant)
        /\ child = IF ancestors = <<>> THEN turn.grant ELSE ancestors[Len(ancestors)]
    BY DEF HInv, EndsAtRoot, Lineage, ChainTypeOK
  <2>2. lineAt(Len(ancestors)).parentGrantId = None
    <3>1. CASE ancestors = <<>>
      BY <2>1, <3>1 DEF lineAt
    <3>2. CASE ancestors # <<>>
      <4>1. Len(ancestors) \in 1..Len(ancestors)
        BY <2>1, <3>2
      <4> QED
        BY <2>1, <3>2, <4>1 DEF HInv, LineWasWhole, sound, isSameGrant
    <3> QED
      BY <3>1, <3>2
  <2> QED
    BY <2>2 DEF HInv, LineWasWhole, sound
<1> QED
  BY <1>1, HistoryInvariant, PTL

(* What ended before the walk began supports no chain it calls valid       *)
(* (linkViolation: parent_not_active).                                     *)
THEOREM RemovalsReachDescendants == ChainSpec => []RemovalReachesDescendants
<1>1. HInv => RemovalReachesDescendants
  <2> SUFFICES ASSUME HInv, status = "valid", NEW i \in 1..Len(ancestors)
               PROVE  LET held == before[ancestors[i].id] IN
                      /\ held.revokedAt # None => held.revokedAt > at.admittedAt
                      /\ held.constraints.expiresAt # None => held.constraints.expiresAt > at.now
    BY DEF RemovalReachesDescendants
  <2>1. parentIsActive(lineAt(i), turn.context, at)
    BY LinkIsActiveAndFits DEF HInv, LineWasWhole, sound
  <2>2. /\ lineAt(i) = before[ancestors[i].id]
        /\ at.admittedAt \in Int /\ at.now \in Int
    BY DEF lineAt, HInv, Lineage, ChainTypeOK
  <2> QED
    BY <2>1, <2>2 DEF parentIsActive, grantIsActive, withinBounds, Readable
<1> QED
  BY <1>1, HistoryInvariant, PTL

(* What deriveGrant issues the walk accepts, for as long as the ancestor   *)
(* lives and the chain may go on (deriveGrant against linkViolation).      *)
THEOREM DerivedLinksAlwaysHold == ChainSpec => []DerivedLinksHold
<1>1. HInv => DerivedLinksHold
  BY DEF HInv
<1> QED
  BY <1>1, HistoryInvariant, PTL

-----------------------------------------------------------------------------
(* Decisions (Authorizer). The invariant is about one decision at a time:  *)
(* what its flags say of the outcomes it met, and what it owes the usage   *)
(* store at each step. The decisions meet only in the store's counts,      *)
(* which are the numbers of decisions that paid.                           *)


(* What a decision has spent when it is at this step.                      *)
Owes(w, spent) ==
    /\ w.step \in {"idle", "next", "store"} => spent = None
    /\ w.step = "answer" => spent = IF w.request.mode = "consume" /\ w.available
                                    THEN current(w) ELSE None
    /\ w.step = "end" =>
           /\ spent # None =>
                  /\ w.request.mode = "consume"
                  /\ \/ w.verdict = "allowed" /\ w.matched = spent
                     \/ w.verdict = "usage_store_unavailable"
           /\ w.verdict = "allowed" => w.matched \in GrantIds
           /\ w.verdict = "allowed" /\ w.request.mode = "consume" /\ maxUses(w.matched) # None =>
                  spent = w.matched

(* What the flags of a walk remember of the outcomes it met.               *)
FlagsRemember(w) ==
    /\ w.delegationFailure = "unverified" <=> "unverified" \in outcomes(w)
    /\ w.delegationFailure = "none" <=> outcomes(w) \cap {"invalid", "unverified"} = {}
    /\ w.policyDenial # None <=> "refused" \in outcomes(w)
    /\ w.foundExhaustedGrant <=> "exhausted" \in outcomes(w)

Denials == {"no_matching_grant", "grant_exhausted", "host_policy_denied",
            "delegation_chain_invalid", "delegation_chain_unverified"}

Concluded(w) ==
    w.verdict \in Denials =>
        Len(w.met) = Len(w.request.grants) /\ w.verdict = denialReason(w)

Sound(w, spent) == WellFormed(w) /\ Owes(w, spent) /\ FlagsRemember(w) /\ Concluded(w)

IInv ==
    /\ used \in [GrantIds -> Nat]
    /\ walk \in [Calls -> Walk]
    /\ paid \in [Calls -> Optional(GrantIds)]
    /\ \A call \in Calls : Sound(walk[call], paid[call])
    /\ UsesAreAccounted

-----------------------------------------------------------------------------
(* Moving one walk *)

(* Going past a grant adds its outcome to those met.                       *)
LEMMA PastAddsOutcome ==
    ASSUME NEW w \in Walk, NEW outcome \in Outcome
    PROVE  /\ past(w, outcome) \in Walk
           /\ outcomes(past(w, outcome)) = outcomes(w) \cup {outcome}
           /\ Len(past(w, outcome).met) = Len(w.met) + 1
<1> DEFINE v == past(w, outcome)
<1>1. w.met \in Seq(Outcome)
  BY DEF Walk
<1>2. v.met = Append(w.met, outcome) /\ v \in Walk
  <2>1. Append(w.met, outcome) \in Seq(Outcome)
    BY <1>1
  <2>2. v.met = Append(w.met, outcome)
    BY DEF past, Walk
  <2>3. v \in Walk
    BY <2>1 DEF past, Walk
  <2> QED
    BY <2>2, <2>3
<1>3. /\ Len(v.met) = Len(w.met) + 1 /\ Len(w.met) \in Nat
      /\ v.met[Len(v.met)] = outcome
      /\ \A i \in 1..Len(w.met) : v.met[i] = w.met[i]
  BY <1>1, <1>2
<1>4. outcomes(v) \subseteq outcomes(w) \cup {outcome}
  <2> SUFFICES ASSUME NEW i \in 1..Len(v.met)
               PROVE  v.met[i] \in outcomes(w) \cup {outcome}
    BY DEF outcomes
  <2>1. i \in 1..Len(w.met) \/ i = Len(v.met)
    BY <1>3
  <2> QED
    BY <1>3, <2>1 DEF outcomes
<1>5. outcomes(w) \cup {outcome} \subseteq outcomes(v)
  <2>1. Len(v.met) \in 1..Len(v.met) /\ 1..Len(w.met) \subseteq 1..Len(v.met)
    BY <1>3
  <2>2. outcome \in outcomes(v)
    BY <1>3, <2>1 DEF outcomes
  <2>3. ASSUME NEW i \in 1..Len(w.met)
        PROVE  w.met[i] \in outcomes(v)
    <3>1. i \in 1..Len(v.met) /\ v.met[i] = w.met[i]
      BY <1>3, <2>1
    <3> QED
      BY <3>1 DEF outcomes
  <2> QED
    BY <2>2, <2>3 DEF outcomes
<1> QED
  BY <1>2, <1>3, <1>4, <1>5

(* A step that moves one walk to another sound one, and does not touch the *)
(* store, keeps the invariant.                                             *)
LEMMA OneWalkMoves ==
    ASSUME IInv, NEW call \in Calls, NEW w \in Walk, Sound(w, paid[call]),
           walk' = [walk EXCEPT ![call] = w], UNCHANGED <<used, paid>>
    PROVE  IInv'
<1>1. UsesAreAccounted'
  BY DEF IInv, UsesAreAccounted, payers
<1>2. walk' \in [Calls -> Walk]
  BY DEF IInv
<1>3. \A c \in Calls : Sound(walk'[c], paid[c])
  BY DEF IInv
<1>4. (\A c \in Calls : Sound(walk[c], paid[c]))'
  BY <1>3
<1> QED
  BY <1>1, <1>2, <1>4 DEF IInv

(* A walk that goes on past a grant, with the flags that outcome calls for.*)
LEMMA GoingPastIsSound ==
    ASSUME NEW w \in Walk, w.request # None, grantsLeft(w), w.request.grants \in Seq(GrantIds),
           NEW outcome \in Outcome, NEW v \in Walk,
           v.step = "next", v.verdict = "pending", v.request = w.request,
           v.met = past(w, outcome).met, FlagsRemember(v)
    PROVE  Sound(v, None)
<1>1. Len(w.met) \in Nat /\ Len(w.request.grants) \in Nat
  BY DEF Walk
<1>2. Len(v.met) = Len(w.met) + 1
  BY PastAddsOutcome
<1>3. Len(v.met) <= Len(v.request.grants)
  BY <1>1, <1>2 DEF grantsLeft
<1>4. WellFormed(v)
  BY <1>3 DEF WellFormed
<1>5. Owes(v, None) /\ Concluded(v)
  BY DEF Owes, Concluded, Denials
<1> QED
  BY <1>4, <1>5 DEF Sound

(* A walk that ends early, with nothing spent or with its store broken.    *)
LEMMA EndingIsSound ==
    ASSUME NEW w \in Walk, NEW spent, Sound(w, spent), w.request # None,
           NEW verdict \in {"invalid_context", "invalid_request", "host_policy_unavailable",
                            "usage_store_unavailable"},
           spent # None => verdict = "usage_store_unavailable" /\ w.request.mode = "consume"
    PROVE  decided(w, verdict) \in Walk /\ Sound(decided(w, verdict), spent)
<1> DEFINE v == decided(w, verdict)
<1>1. v \in Walk
  BY DEF decided, Walk, Verdicts
<1>2. /\ v.step = "end" /\ v.verdict = verdict /\ v.request = w.request /\ v.met = w.met
      /\ v.delegationFailure = w.delegationFailure /\ v.policyDenial = w.policyDenial
      /\ v.foundExhaustedGrant = w.foundExhaustedGrant
  BY DEF decided, Walk
<1> HIDE DEF v
<1>3. outcomes(v) = outcomes(w)
  BY <1>2 DEF outcomes
<1>4. w.step # "idle"
  BY DEF Sound, WellFormed
<1>5. WellFormed(v)
  BY <1>2, <1>4 DEF Sound, WellFormed
<1>6. Owes(v, spent) /\ Concluded(v)
  BY <1>2 DEF Owes, Concluded, Denials
<1>7. FlagsRemember(v)
  BY <1>2, <1>3 DEF Sound, FlagsRemember
<1> QED
  BY <1>1, <1>5, <1>6, <1>7 DEF Sound, v

(* A walk that ends allowed, on the grant in hand.                         *)
LEMMA AllowingIsSound ==
    ASSUME NEW w \in Walk, NEW spent, Sound(w, spent), w.request # None,
           NEW id \in GrantIds,
           spent # None => spent = id /\ w.request.mode = "consume",
           w.request.mode = "consume" /\ maxUses(id) # None => spent = id
    PROVE  allowedBy(w, id) \in Walk /\ Sound(allowedBy(w, id), spent)
<1> DEFINE v == allowedBy(w, id)
<1>1. v \in Walk
  BY DEF allowedBy, decided, Walk, Verdicts, Optional
<1>2. /\ v.step = "end" /\ v.verdict = "allowed" /\ v.request = w.request /\ v.met = w.met
      /\ v.delegationFailure = w.delegationFailure /\ v.policyDenial = w.policyDenial
      /\ v.foundExhaustedGrant = w.foundExhaustedGrant /\ v.matched = id
  BY DEF allowedBy, decided, Walk
<1> HIDE DEF v
<1>3. outcomes(v) = outcomes(w)
  BY <1>2 DEF outcomes
<1>4. w.step # "idle"
  BY DEF Sound, WellFormed
<1>5. WellFormed(v)
  BY <1>2, <1>4 DEF Sound, WellFormed
<1>6. Owes(v, spent) /\ Concluded(v)
  BY <1>2 DEF Owes, Concluded, Denials
<1>7. FlagsRemember(v)
  BY <1>2, <1>3 DEF Sound, FlagsRemember
<1> QED
  BY <1>1, <1>5, <1>6, <1>7 DEF Sound, v

-----------------------------------------------------------------------------
(* One lemma for each action that decides something *)

(* What every action on a grant starts from.                               *)
LEMMA Considered ==
    ASSUME IInv, NEW call \in Calls, walk[call].step \in {"next", "store", "answer"},
           grantsLeft(walk[call])
    PROVE  /\ walk[call] \in Walk /\ Sound(walk[call], paid[call])
           /\ walk[call].request # None
           /\ walk[call].request \in Request
           /\ walk[call].request.grants \in Seq(GrantIds)
           /\ current(walk[call]) \in GrantIds
<1> DEFINE w == walk[call]
<1>1. w \in Walk /\ Sound(w, paid[call])
  BY DEF IInv
<1>2. w.request # None
  BY <1>1 DEF Sound, WellFormed
<1>3. w.request \in Request
  BY <1>1, <1>2, AuthorizerAssumption DEF Walk, Optional
<1>4. w.request.grants \in Seq(GrantIds)
  BY <1>3 DEF Request
<1>5. Len(w.met) + 1 \in 1..Len(w.request.grants)
  <2>1. Len(w.met) \in Nat /\ Len(w.request.grants) \in Nat
    BY <1>1, <1>4 DEF Walk
  <2> QED
    BY <2>1 DEF grantsLeft
<1>6. current(w) \in GrantIds
  BY <1>4, <1>5 DEF current
<1> QED
  BY <1>1, <1>2, <1>3, <1>4, <1>6

LEMMA BeginKeeps ==
    ASSUME IInv, NEW call \in Calls, NEW request \in Requests, Begin(call, request)
    PROVE  IInv'
<1> DEFINE w == [walk[call] EXCEPT !.step = "next", !.request = request]
<1>1. walk[call] \in Walk /\ Sound(walk[call], paid[call]) /\ walk[call].step = "idle"
  BY DEF IInv, Begin
<1>2. request # None /\ request \in Request
  BY AuthorizerAssumption
<1>3. w \in Walk
  BY <1>1 DEF Walk, Optional
<1>4. /\ w.step = "next" /\ w.request = request /\ w.met = walk[call].met
      /\ w.verdict = walk[call].verdict
      /\ w.delegationFailure = walk[call].delegationFailure
      /\ w.policyDenial = walk[call].policyDenial
      /\ w.foundExhaustedGrant = walk[call].foundExhaustedGrant
  BY <1>1 DEF Walk
<1>5. paid[call] = None /\ walk[call].verdict = "pending"
  BY <1>1 DEF Sound, Owes, WellFormed
<1>6. walk[call].met = <<>>
  BY <1>1 DEF Sound, WellFormed
<1>7. outcomes(w) = outcomes(walk[call])
  BY <1>4 DEF outcomes
<1>8. FlagsRemember(w)
  BY <1>1, <1>4, <1>7 DEF Sound, FlagsRemember
<1>9. Sound(w, None)
  <2>1. Len(request.grants) \in Nat
    BY <1>2 DEF Request
  <2>2. WellFormed(w)
    BY <1>2, <1>4, <1>5, <1>6, <2>1 DEF WellFormed
  <2>3. Owes(w, None) /\ Concluded(w)
    BY <1>4, <1>5 DEF Owes, Concluded, Denials
  <2> QED
    BY <1>8, <2>2, <2>3 DEF Sound
<1> HIDE DEF w
<1>10. CASE invalidContext(request)
  <2>1. walk' = [walk EXCEPT ![call] = decided(w, "invalid_context")]
    BY <1>10 DEF Begin, w
  <2>2. decided(w, "invalid_context") \in Walk /\ Sound(decided(w, "invalid_context"), None)
    BY <1>2, <1>3, <1>4, <1>9, EndingIsSound
  <2> QED
    BY <1>5, <2>1, <2>2, OneWalkMoves DEF Begin
<1>11. CASE ~invalidContext(request) /\ ~resourceBelongsToContext(request.requirement, request.context)
  <2>1. walk' = [walk EXCEPT ![call] = decided(w, "invalid_request")]
    BY <1>11 DEF Begin, w
  <2>2. decided(w, "invalid_request") \in Walk /\ Sound(decided(w, "invalid_request"), None)
    BY <1>2, <1>3, <1>4, <1>9, EndingIsSound
  <2> QED
    BY <1>5, <2>1, <2>2, OneWalkMoves DEF Begin
<1>12. CASE ~invalidContext(request) /\ resourceBelongsToContext(request.requirement, request.context)
  <2>1. walk' = [walk EXCEPT ![call] = w]
    BY <1>12 DEF Begin, w
  <2> QED
    BY <1>3, <1>5, <1>9, <2>1, OneWalkMoves DEF Begin
<1> QED
  BY <1>10, <1>11, <1>12

(* TurnAway, ChainFails, CeilingRefuses: nothing was spent, and the flag   *)
(* says what the outcome was.                                              *)
LEMMA PassingOverKeeps ==
    ASSUME IInv, NEW call \in Calls, considering(call), NEW outcome \in Outcome,
           NEW v \in Walk, walk' = [walk EXCEPT ![call] = v], UNCHANGED <<used, paid>>,
           v.step = "next", v.request = walk[call].request,
           v.verdict = walk[call].verdict,
           v.met = past(walk[call], outcome).met,
           outcomes(v) = outcomes(walk[call]) \cup {outcome} => FlagsRemember(v)
    PROVE  IInv'
<1> DEFINE w == walk[call]
<1>1. /\ w \in Walk /\ Sound(w, paid[call]) /\ w.request # None
      /\ w.request.grants \in Seq(GrantIds)
  BY Considered DEF considering
<1>2. paid[call] = None /\ w.verdict = "pending"
  BY <1>1 DEF considering, Sound, Owes, WellFormed
<1>3. outcomes(v) = outcomes(w) \cup {outcome}
  <2>1. outcomes(v) = outcomes(past(w, outcome))
    BY DEF outcomes
  <2> QED
    BY <1>1, <2>1, PastAddsOutcome
<1>4. Sound(v, None)
  BY <1>1, <1>2, <1>3, GoingPastIsSound DEF considering
<1> QED
  BY <1>2, <1>4, OneWalkMoves

LEMMA TurnAwayKeeps ==
    ASSUME IInv, NEW call \in Calls, TurnAway(call)
    PROVE  IInv'
<1> DEFINE w == walk[call]
           v == past(w, "unmatched")
<1>1. w \in Walk /\ FlagsRemember(w)
  BY DEF IInv, Sound
<1>2. v \in Walk /\ outcomes(v) = outcomes(w) \cup {"unmatched"}
  BY <1>1, PastAddsOutcome DEF Outcome
<1>3. /\ v.step = "next" /\ v.request = w.request /\ v.verdict = w.verdict
      /\ v.delegationFailure = w.delegationFailure /\ v.policyDenial = w.policyDenial
      /\ v.foundExhaustedGrant = w.foundExhaustedGrant
  BY <1>1 DEF past, Walk
<1>4. FlagsRemember(v)
  BY <1>1, <1>2, <1>3 DEF FlagsRemember
<1>5. walk' = [walk EXCEPT ![call] = v] /\ UNCHANGED <<used, paid>> /\ considering(call)
  BY DEF TurnAway
<1> HIDE DEF v
<1>6. "unmatched" \in Outcome /\ v.met = past(w, "unmatched").met
  BY DEF Outcome, v
<1> QED
  BY <1>2, <1>3, <1>4, <1>5, <1>6, PassingOverKeeps

LEMMA ChainFailsKeeps ==
    ASSUME IInv, NEW call \in Calls, NEW answer \in {"invalid", "unverified"},
           ChainFails(call, answer)
    PROVE  IInv'
<1> DEFINE w == walk[call]
           p == past(w, answer)
           v == pastBroken(w, answer)
<1>1. w \in Walk /\ FlagsRemember(w)
  BY DEF IInv, Sound
<1>2. p \in Walk /\ outcomes(p) = outcomes(w) \cup {answer}
  BY <1>1, PastAddsOutcome DEF Outcome
<1>3. /\ p.step = "next" /\ p.request = w.request /\ p.verdict = w.verdict
      /\ p.delegationFailure = w.delegationFailure /\ p.policyDenial = w.policyDenial
      /\ p.foundExhaustedGrant = w.foundExhaustedGrant
  BY <1>1 DEF past, Walk
<1> HIDE DEF p
<1>4. worstDelegationFailure(w.delegationFailure, answer) \in {"none", "invalid", "unverified"}
  BY <1>1 DEF worstDelegationFailure, Walk
<1>5. v = [p EXCEPT !.delegationFailure = worstDelegationFailure(w.delegationFailure, answer)]
  BY DEF pastBroken, p
<1>6. v \in Walk
  BY <1>2, <1>4, <1>5 DEF Walk
<1>7. /\ v.step = "next" /\ v.request = w.request /\ v.verdict = w.verdict
      /\ v.delegationFailure = worstDelegationFailure(w.delegationFailure, answer)
      /\ v.policyDenial = w.policyDenial
      /\ v.foundExhaustedGrant = w.foundExhaustedGrant /\ v.met = p.met
  BY <1>2, <1>3, <1>5 DEF Walk
<1>8. walk' = [walk EXCEPT ![call] = v] /\ UNCHANGED <<used, paid>> /\ considering(call)
  BY DEF ChainFails
<1> HIDE DEF v
<1>9. ASSUME outcomes(v) = outcomes(w) \cup {answer}
      PROVE  FlagsRemember(v)
  <2>1. w.delegationFailure \in {"none", "invalid", "unverified"}
    BY <1>1 DEF Walk
  <2>2. v.delegationFailure = "unverified" <=> "unverified" \in outcomes(v)
    BY <1>1, <1>7, <1>9, <2>1 DEF FlagsRemember, worstDelegationFailure
  <2>3. v.delegationFailure = "none" <=> outcomes(v) \cap {"invalid", "unverified"} = {}
    BY <1>1, <1>7, <1>9, <2>1 DEF FlagsRemember, worstDelegationFailure
  <2>4. "refused" \in outcomes(v) <=> "refused" \in outcomes(w)
    BY <1>9
  <2>5. "exhausted" \in outcomes(v) <=> "exhausted" \in outcomes(w)
    BY <1>9
  <2> QED
    BY <1>1, <1>7, <2>2, <2>3, <2>4, <2>5 DEF FlagsRemember
<1>10. answer \in Outcome /\ v.met = past(w, answer).met
  BY <1>7 DEF Outcome, p
<1> QED
  BY <1>6, <1>7, <1>8, <1>9, <1>10, PassingOverKeeps

LEMMA CeilingRefusesKeeps ==
    ASSUME IInv, NEW call \in Calls, CeilingRefuses(call)
    PROVE  IInv'
<1> DEFINE w == walk[call]
           p == past(w, "refused")
           v == pastRefused(w)
<1>1. w \in Walk /\ FlagsRemember(w) /\ current(w) \in GrantIds
  BY Considered DEF IInv, Sound, CeilingRefuses, considering
<1>2. p \in Walk /\ outcomes(p) = outcomes(w) \cup {"refused"}
  BY <1>1, PastAddsOutcome DEF Outcome
<1>3. /\ p.step = "next" /\ p.request = w.request /\ p.verdict = w.verdict
      /\ p.delegationFailure = w.delegationFailure /\ p.policyDenial = w.policyDenial
      /\ p.foundExhaustedGrant = w.foundExhaustedGrant
  BY <1>1 DEF past, Walk
<1> HIDE DEF p
<1>4. current(w) # None
  BY <1>1, AuthorizerAssumption
<1> DEFINE denial == IF w.policyDenial = None THEN current(w) ELSE w.policyDenial
<1>5. denial \in Optional(GrantIds) /\ denial # None
  BY <1>1, <1>4 DEF Walk, Optional
<1> HIDE DEF denial
<1>6. v = [p EXCEPT !.policyDenial = denial]
  BY DEF pastRefused, p, denial
<1>7. v \in Walk
  BY <1>2, <1>5, <1>6 DEF Walk
<1>8. /\ v.step = "next" /\ v.request = w.request /\ v.verdict = w.verdict
      /\ v.delegationFailure = w.delegationFailure
      /\ v.policyDenial # None
      /\ v.foundExhaustedGrant = w.foundExhaustedGrant /\ v.met = p.met
  BY <1>2, <1>3, <1>5, <1>6 DEF Walk
<1>9. walk' = [walk EXCEPT ![call] = v] /\ UNCHANGED <<used, paid>> /\ considering(call)
  BY DEF CeilingRefuses
<1> HIDE DEF v
<1>10. ASSUME outcomes(v) = outcomes(w) \cup {"refused"}
       PROVE  FlagsRemember(v)
  BY <1>1, <1>8, <1>10 DEF FlagsRemember
<1>11. "refused" \in Outcome /\ v.met = past(w, "refused").met
  BY <1>8 DEF Outcome, p
<1> QED
  BY <1>7, <1>8, <1>9, <1>10, <1>11, PassingOverKeeps

LEMMA CeilingFailsKeeps ==
    ASSUME IInv, NEW call \in Calls, CeilingFails(call)
    PROVE  IInv'
<1> DEFINE w == walk[call]
<1>1. w \in Walk /\ Sound(w, paid[call]) /\ w.request # None /\ w.step = "next"
  BY Considered DEF CeilingFails, considering
<1>2. paid[call] = None
  BY <1>1 DEF Sound, Owes
<1>3. /\ decided(w, "host_policy_unavailable") \in Walk
      /\ Sound(decided(w, "host_policy_unavailable"), paid[call])
  BY <1>1, <1>2, EndingIsSound
<1> QED
  BY <1>3, OneWalkMoves DEF CeilingFails

LEMMA GatesPassKeeps ==
    ASSUME IInv, NEW call \in Calls, GatesPass(call)
    PROVE  IInv'
<1> DEFINE w == walk[call]
<1>1. /\ w \in Walk /\ Sound(w, paid[call]) /\ w.request # None /\ w.step = "next"
      /\ current(w) \in GrantIds /\ grantsLeft(w) /\ passes(w)
  BY Considered DEF GatesPass, considering
<1>2. paid[call] = None
  BY <1>1 DEF Sound, Owes
<1>3. CASE maxUses(current(w)) = None
  <2>1. allowedBy(w, current(w)) \in Walk /\ Sound(allowedBy(w, current(w)), paid[call])
    BY <1>1, <1>2, <1>3, AllowingIsSound
  <2> QED
    BY <1>3, <2>1, OneWalkMoves DEF GatesPass
<1>4. CASE maxUses(current(w)) # None
  <2> DEFINE v == [w EXCEPT !.step = "store"]
  <2>1. v \in Walk
    BY <1>1 DEF Walk
  <2>2. /\ v.step = "store" /\ v.request = w.request /\ v.verdict = w.verdict /\ v.met = w.met
        /\ v.delegationFailure = w.delegationFailure /\ v.policyDenial = w.policyDenial
        /\ v.foundExhaustedGrant = w.foundExhaustedGrant
    BY <1>1 DEF Walk
  <2>3. walk' = [walk EXCEPT ![call] = v]
    BY <1>4 DEF GatesPass
  <2> HIDE DEF v
  <2>4. outcomes(v) = outcomes(w) /\ current(v) = current(w)
    BY <2>2 DEF outcomes, current
  <2>5. grantsLeft(v) /\ passes(v)
    BY <1>1, <2>2, <2>4 DEF grantsLeft, passes
  <2>6. w.verdict = "pending"
    BY <1>1 DEF Sound, WellFormed
  <2>7. WellFormed(v)
    BY <1>1, <1>4, <2>2, <2>4, <2>5, <2>6 DEF Sound, WellFormed
  <2>8. Owes(v, paid[call]) /\ Concluded(v)
    BY <1>2, <2>2, <2>6 DEF Owes, Concluded, Denials
  <2>9. FlagsRemember(v)
    BY <1>1, <2>2, <2>4 DEF Sound, FlagsRemember
  <2> QED
    BY <2>1, <2>3, <2>7, <2>8, <2>9, OneWalkMoves DEF GatesPass, Sound
<1> QED
  BY <1>3, <1>4

(* The store has answered, the answer is on its way.                       *)
LEMMA AnsweringIsSound ==
    ASSUME NEW w \in Walk, Sound(w, None), w.step = "store", NEW available \in BOOLEAN,
           NEW spent,
           spent = IF w.request.mode = "consume" /\ available THEN current(w) ELSE None
    PROVE  answering(w, available) \in Walk /\ Sound(answering(w, available), spent)
<1> DEFINE v == answering(w, available)
<1>1. v \in Walk
  BY DEF answering, Walk
<1>2. /\ v.step = "answer" /\ v.request = w.request /\ v.verdict = w.verdict /\ v.met = w.met
      /\ v.delegationFailure = w.delegationFailure /\ v.policyDenial = w.policyDenial
      /\ v.foundExhaustedGrant = w.foundExhaustedGrant /\ v.available = available
  BY DEF answering, Walk
<1> HIDE DEF v
<1>3. outcomes(v) = outcomes(w) /\ current(v) = current(w)
  BY <1>2 DEF outcomes, current
<1>4. WellFormed(v)
  BY <1>2, <1>3 DEF Sound, WellFormed, grantsLeft, passes
<1>5. w.verdict = "pending"
  BY DEF Sound, WellFormed
<1>6. Owes(v, spent) /\ Concluded(v)
  BY <1>2, <1>3, <1>5 DEF Owes, Concluded, Denials
<1>7. FlagsRemember(v)
  BY <1>2, <1>3 DEF Sound, FlagsRemember
<1> QED
  BY <1>1, <1>4, <1>6, <1>7 DEF Sound, v

LEMMA PayersFinite ==
    ASSUME NEW id
    PROVE  IsFiniteSet(payers(id))
BY AuthorizerAssumption, FS_Subset DEF payers

LEMMA StoreServesKeeps ==
    ASSUME IInv, NEW call \in Calls, StoreServes(call)
    PROVE  IInv'
<1> DEFINE w == walk[call]
           id == current(w)
           v == answering(w, hasUseLeft(id))
<1>1. /\ w \in Walk /\ Sound(w, paid[call]) /\ w.step = "store"
      /\ grantsLeft(w) /\ maxUses(id) # None
  BY DEF IInv, StoreServes, Sound, WellFormed
<1>2. id \in GrantIds /\ id # None
  BY <1>1, Considered, AuthorizerAssumption
<1>3. paid[call] = None
  BY <1>1 DEF Sound, Owes
<1>4. walk' = [walk EXCEPT ![call] = v]
  BY DEF StoreServes
<1>5. hasUseLeft(id) \in BOOLEAN
  BY DEF hasUseLeft
<1>6. CASE spends(w.request.mode) /\ hasUseLeft(id)
  <2>1. used' = [used EXCEPT ![id] = @ + 1] /\ paid' = [paid EXCEPT ![call] = id]
    BY <1>6 DEF StoreServes
  <2>2. v \in Walk /\ Sound(v, id)
    BY <1>1, <1>3, <1>5, <1>6, AnsweringIsSound DEF spends
  <2>3. /\ used \in [GrantIds -> Nat] /\ used' \in [GrantIds -> Nat]
        /\ walk' \in [Calls -> Walk]
        /\ paid \in [Calls -> Optional(GrantIds)] /\ paid' \in [Calls -> Optional(GrantIds)]
    BY <1>2, <1>4, <2>1, <2>2 DEF IInv, Optional
  <2>4. \A c \in Calls : Sound(walk'[c], paid'[c])
    BY <1>4, <2>1, <2>2, <2>3 DEF IInv
  <2>5. UsesAreAccounted'
    <3> SUFFICES ASSUME NEW g \in GrantIds
                 PROVE  /\ used'[g] = Cardinality(payers(g)')
                        /\ maxUses(g) # None => used'[g] <= maxUses(g)
      BY DEF UsesAreAccounted, maxUses
    <3>1. used[g] = Cardinality(payers(g)) /\ (maxUses(g) # None => used[g] <= maxUses(g))
      BY DEF IInv, UsesAreAccounted
    <3>2. CASE g = id
      <4>1. payers(g)' = payers(g) \cup {call} /\ call \notin payers(g)
        BY <1>2, <1>3, <2>1, <2>3, <3>2 DEF payers
      <4>2. Cardinality(payers(g)') = Cardinality(payers(g)) + 1
        BY <4>1, PayersFinite, FS_AddElement
      <4>3. used'[g] = used[g] + 1 /\ used[g] \in Nat
        BY <2>1, <2>3, <3>2
      <4>4. used[g] < maxUses(g) /\ maxUses(g) \in Nat
        <5>1. GrantBook[g].constraints \in Constraints
          BY AuthorizerAssumption DEF Grant
        <5> QED
          BY <1>1, <1>6, <3>2, <5>1 DEF hasUseLeft, maxUses, Constraints, Optional
      <4> QED
        BY <3>1, <4>2, <4>3, <4>4
    <3>3. CASE g # id
      <4>1. payers(g)' = payers(g)
        BY <1>3, <2>1, <2>3, <3>3, AuthorizerAssumption DEF payers
      <4> QED
        BY <2>1, <2>3, <3>1, <3>3, <4>1
    <3> QED
      BY <3>2, <3>3
  <2> QED
    BY <2>3, <2>4, <2>5 DEF IInv
<1>7. CASE ~(spends(w.request.mode) /\ hasUseLeft(id))
  <2>1. UNCHANGED <<used, paid>>
    BY <1>7 DEF StoreServes
  <2>2. v \in Walk /\ Sound(v, None)
    BY <1>1, <1>3, <1>5, <1>7, AnsweringIsSound DEF spends
  <2> QED
    BY <1>3, <1>4, <2>1, <2>2, OneWalkMoves
<1> QED
  BY <1>6, <1>7

LEMMA StoreAnswersKeeps ==
    ASSUME IInv, NEW call \in Calls, StoreAnswers(call)
    PROVE  IInv'
<1> DEFINE w == walk[call]
           p == past(w, "exhausted")
           v == pastExhausted(w)
<1>1. /\ w \in Walk /\ Sound(w, paid[call]) /\ w.step = "answer"
      /\ grantsLeft(w) /\ maxUses(current(w)) # None
  BY DEF IInv, StoreAnswers, Sound, WellFormed
<1>2. /\ current(w) \in GrantIds /\ w.request # None /\ w.verdict = "pending"
      /\ w.request.grants \in Seq(GrantIds)
  BY <1>1, Considered DEF Sound, WellFormed
<1>3. paid[call] = IF w.request.mode = "consume" /\ w.available THEN current(w) ELSE None
  BY <1>1 DEF Sound, Owes
<1>4. CASE w.available
  <2>1. allowedBy(w, current(w)) \in Walk /\ Sound(allowedBy(w, current(w)), paid[call])
    BY <1>1, <1>2, <1>3, <1>4, AllowingIsSound
  <2> QED
    BY <1>4, <2>1, OneWalkMoves DEF StoreAnswers
<1>5. CASE ~w.available
  <2>1. p \in Walk /\ outcomes(p) = outcomes(w) \cup {"exhausted"}
    BY <1>1, PastAddsOutcome DEF Outcome
  <2>2. /\ p.step = "next" /\ p.request = w.request /\ p.verdict = w.verdict
        /\ p.delegationFailure = w.delegationFailure /\ p.policyDenial = w.policyDenial
    BY <1>1 DEF past, Walk
  <2> HIDE DEF p
  <2>3. v = [p EXCEPT !.foundExhaustedGrant = TRUE]
    BY DEF pastExhausted, p
  <2>4. v \in Walk
    BY <2>1, <2>3 DEF Walk
  <2>5. /\ v.step = "next" /\ v.request = w.request /\ v.verdict = w.verdict
        /\ v.delegationFailure = w.delegationFailure /\ v.policyDenial = w.policyDenial
        /\ v.foundExhaustedGrant = TRUE /\ v.met = p.met
    BY <2>1, <2>2, <2>3 DEF Walk
  <2>6. walk' = [walk EXCEPT ![call] = v] /\ UNCHANGED <<used, paid>>
    BY <1>5 DEF StoreAnswers
  <2> HIDE DEF v
  <2>7. outcomes(v) = outcomes(w) \cup {"exhausted"}
    BY <2>1, <2>5 DEF outcomes
  <2>8. FlagsRemember(v)
    BY <1>1, <2>5, <2>7 DEF Sound, FlagsRemember
  <2>9. Sound(v, None)
    BY <1>1, <1>2, <2>4, <2>5, <2>8, GoingPastIsSound DEF Outcome, p
  <2> QED
    BY <1>3, <1>5, <2>4, <2>6, <2>9, OneWalkMoves
<1> QED
  BY <1>4, <1>5

LEMMA StoreFailsKeeps ==
    ASSUME IInv, NEW call \in Calls, StoreFails(call)
    PROVE  IInv'
<1> DEFINE w == walk[call]
<1>1. w \in Walk /\ Sound(w, paid[call]) /\ w.step \in {"store", "answer"} /\ w.request # None
  BY DEF IInv, StoreFails, Sound, WellFormed
<1>2. paid[call] # None => w.request.mode = "consume"
  BY <1>1 DEF Sound, Owes
<1>3. /\ decided(w, "usage_store_unavailable") \in Walk
      /\ Sound(decided(w, "usage_store_unavailable"), paid[call])
  BY <1>1, <1>2, EndingIsSound
<1> QED
  BY <1>3, OneWalkMoves DEF StoreFails, afterStoreFailure

LEMMA ConcludeKeeps ==
    ASSUME IInv, NEW call \in Calls, Conclude(call)
    PROVE  IInv'
<1> DEFINE w == walk[call]
           named == IF denialReason(w) = "host_policy_denied" THEN w.policyDenial ELSE None
           v == denied(w)
<1>1. w \in Walk /\ Sound(w, paid[call]) /\ w.step = "next" /\ ~grantsLeft(w)
  BY DEF IInv, Conclude
<1>2. paid[call] = None /\ w.request # None
  BY <1>1 DEF Sound, Owes, WellFormed
<1>3. denialReason(w) \in Denials
  BY DEF denialReason, Denials
<1>4. named \in Optional(GrantIds)
  BY <1>1 DEF Walk, Optional
<1> HIDE DEF named
<1>5. v = [w EXCEPT !.step = "end", !.verdict = denialReason(w), !.matched = named]
  BY <1>1 DEF denied, decided, named, Walk
<1>6. v \in Walk
  BY <1>1, <1>3, <1>4, <1>5 DEF Walk, Denials, Verdicts
<1>7. /\ v.step = "end" /\ v.verdict = denialReason(w) /\ v.request = w.request /\ v.met = w.met
      /\ v.delegationFailure = w.delegationFailure /\ v.policyDenial = w.policyDenial
      /\ v.foundExhaustedGrant = w.foundExhaustedGrant
  BY <1>1, <1>5 DEF Walk
<1>8. walk' = [walk EXCEPT ![call] = v] /\ UNCHANGED <<used, paid>>
  BY DEF Conclude
<1> HIDE DEF v
<1>9. outcomes(v) = outcomes(w)
  BY <1>7 DEF outcomes
<1>10. Len(w.met) = Len(w.request.grants)
  <2>1. w.request.grants \in Seq(GrantIds)
    BY <1>1, <1>2, AuthorizerAssumption DEF Walk, Optional, Request
  <2>2. Len(w.met) \in Nat /\ Len(w.request.grants) \in Nat
    BY <1>1, <2>1 DEF Walk
  <2> QED
    BY <1>1, <2>2 DEF Sound, WellFormed, grantsLeft
<1>11. denialReason(v) = denialReason(w)
  BY <1>7 DEF denialReason
<1>12. WellFormed(v)
  BY <1>1, <1>2, <1>3, <1>7 DEF Sound, WellFormed, Denials
<1>13. Owes(v, None) /\ Concluded(v)
  BY <1>3, <1>7, <1>10, <1>11 DEF Owes, Concluded, Denials
<1>14. FlagsRemember(v)
  BY <1>1, <1>7, <1>9 DEF Sound, FlagsRemember
<1> QED
  BY <1>2, <1>6, <1>8, <1>12, <1>13, <1>14, OneWalkMoves DEF Sound

-----------------------------------------------------------------------------
(* The inductive invariant *)

LEMMA InitIsSound ==
    ASSUME Init
    PROVE  IInv
<1>1. Idle \in Walk /\ outcomes(Idle) = {}
  BY DEF Idle, Walk, Optional, outcomes
<1>2. Sound(Idle, None)
  <2>1. /\ Idle.step = "idle" /\ Idle.request = None /\ Idle.met = <<>>
        /\ Idle.verdict = "pending" /\ Idle.delegationFailure = "none"
        /\ Idle.policyDenial = None /\ Idle.foundExhaustedGrant = FALSE
    BY DEF Idle
  <2>2. WellFormed(Idle)
    BY <2>1 DEF WellFormed
  <2>3. Owes(Idle, None) /\ Concluded(Idle)
    BY <2>1 DEF Owes, Concluded, Denials
  <2>4. FlagsRemember(Idle)
    BY <1>1, <2>1 DEF FlagsRemember
  <2> QED
    BY <2>2, <2>3, <2>4 DEF Sound
<1>3. UsesAreAccounted
  <2> SUFFICES ASSUME NEW id \in GrantIds
               PROVE  used[id] = Cardinality(payers(id)) /\ (maxUses(id) # None => used[id] <= maxUses(id))
    BY DEF UsesAreAccounted
  <2>1. payers(id) = {}
    BY AuthorizerAssumption DEF Init, payers
  <2>2. used[id] = 0 /\ Cardinality(payers(id)) = 0
    BY <2>1, FS_EmptySet DEF Init
  <2>3. maxUses(id) \in Optional(Nat)
    BY AuthorizerAssumption DEF maxUses, Grant, Constraints
  <2> QED
    BY <2>2, <2>3 DEF Optional
<1> QED
  BY <1>1, <1>2, <1>3 DEF Init, IInv, Optional

LEMMA StepKeepsIInv ==
    ASSUME IInv, [Next]_vars
    PROVE  IInv'
<1>1. ASSUME NEW call \in Calls, Decide(call)
      PROVE  IInv'
  BY <1>1, BeginKeeps, TurnAwayKeeps, ChainFailsKeeps, CeilingRefusesKeeps, CeilingFailsKeeps,
     GatesPassKeeps, StoreServesKeeps, StoreAnswersKeeps, StoreFailsKeeps, ConcludeKeeps
     DEF Decide
<1>2. ASSUME UNCHANGED vars
      PROVE  IInv'
  BY <1>2 DEF vars, IInv, UsesAreAccounted, payers
<1> QED
  BY <1>1, <1>2 DEF Next

THEOREM InductiveInvariant == Spec => []IInv
<1>1. Init => IInv
  BY InitIsSound
<1>2. IInv /\ [Next]_vars => IInv'
  BY StepKeepsIInv
<1> QED
  BY <1>1, <1>2, PTL DEF Spec

-----------------------------------------------------------------------------
(* The theorems *)

(* Walks stay well formed, and the store holds natural numbers.            *)
THEOREM TypeCorrect == Spec => []TypeOK
<1>1. IInv => TypeOK
  BY DEF IInv, TypeOK, Sound
<1> QED
  BY <1>1, InductiveInvariant, PTL

(* However many decisions race for a bounded grant, the store counts each  *)
(* of them once and never more than maxUses of them (tryConsume).          *)
THEOREM NeverOverspent == Spec => []UsesAreAccounted
<1>1. IInv => UsesAreAccounted
  BY DEF IInv
<1> QED
  BY <1>1, InductiveInvariant, PTL

(* Nothing but an allowed invocation, or one whose store failed, spends a  *)
(* use (#decide: the ceiling before the store, consume or getUsage).       *)
THEOREM RefusalsAreFree == Spec => []OnlyAllowedInvocationsPay
<1>1. IInv => OnlyAllowedInvocationsPay
  BY DEF IInv, Sound, Owes, OnlyAllowedInvocationsPay, ended
<1> QED
  BY <1>1, InductiveInvariant, PTL

(* A denial has looked at every grant and names the worst outcome it met   *)
(* (the flags of #decide and worstDelegationFailure).                      *)
THEOREM DenialsNameTheWorst == Spec => []DenialNamesTheWorst
<1>1. ASSUME NEW w \in Walk, WellFormed(w), FlagsRemember(w), Concluded(w)
      PROVE  /\ w.verdict \in Denials => Len(w.met) = Len(w.request.grants)
             /\ w.verdict = "no_matching_grant" => outcomes(w) \subseteq {"unmatched"}
             /\ w.verdict = "grant_exhausted" =>
                  "exhausted" \in outcomes(w) /\ outcomes(w) \subseteq {"unmatched", "exhausted"}
             /\ w.verdict = "host_policy_denied" =>
                  "refused" \in outcomes(w) /\ outcomes(w) \cap {"invalid", "unverified"} = {}
             /\ w.verdict = "delegation_chain_invalid" =>
                  "invalid" \in outcomes(w) /\ "unverified" \notin outcomes(w)
             /\ w.verdict = "delegation_chain_unverified" => "unverified" \in outcomes(w)
  <2>1. outcomes(w) \subseteq Outcome
    BY <1>1 DEF outcomes, Walk
  <2>2. w.delegationFailure \in {"none", "invalid", "unverified"}
    BY <1>1 DEF Walk
  <2>3. w.verdict \in Denials => w.verdict = denialReason(w) /\ Len(w.met) = Len(w.request.grants)
    BY <1>1 DEF Concluded
  <2>4. w.verdict = "no_matching_grant" =>
            w.delegationFailure = "none" /\ w.policyDenial = None /\ ~w.foundExhaustedGrant
    BY <2>2, <2>3 DEF denialReason, Denials
  <2>5. w.verdict = "grant_exhausted" =>
            w.delegationFailure = "none" /\ w.policyDenial = None /\ w.foundExhaustedGrant
    BY <2>2, <2>3 DEF denialReason, Denials
  <2>6. w.verdict = "host_policy_denied" => w.delegationFailure = "none" /\ w.policyDenial # None
    BY <2>2, <2>3 DEF denialReason, Denials
  <2>7. w.verdict = "delegation_chain_invalid" => w.delegationFailure = "invalid"
    BY <2>2, <2>3 DEF denialReason, Denials
  <2>8. w.verdict = "delegation_chain_unverified" => w.delegationFailure = "unverified"
    BY <2>2, <2>3 DEF denialReason, Denials
  <2> QED
    BY <1>1, <2>1, <2>3, <2>4, <2>5, <2>6, <2>7, <2>8 DEF FlagsRemember, Outcome
<1>2. IInv => DenialNamesTheWorst
  BY <1>1 DEF IInv, Sound, DenialNamesTheWorst, Denials
<1> QED
  BY <1>2, InductiveInvariant, PTL

-----------------------------------------------------------------------------
(* The refinement *)

(* Those who stand on a bounded grant are those who paid for it.           *)
LEMMA StandingIsPaying ==
    ASSUME IInv, NEW id \in GrantIds, maxUses(id) # None
    PROVE  Budget!on(id) = payers(id)
<1> SUFFICES ASSUME NEW call \in Calls
             PROVE  standing[call] = id <=> paid[call] = id
  BY DEF Budget!on, payers
<1>1. Sound(walk[call], paid[call])
  BY DEF IInv
<1>2. id # None
  BY AuthorizerAssumption
<1>3. walk[call].verdict = "allowed" => walk[call].step = "end"
  BY <1>1 DEF Sound, WellFormed
<1> QED
  BY <1>1, <1>2, <1>3 DEF standing, Sound, Owes

(* A step that pays nothing and allows no invocation leaves everyone       *)
(* standing where they stood.                                              *)
LEMMA StandingStill ==
    ASSUME IInv, NEW call \in Calls, NEW w, walk' = [walk EXCEPT ![call] = w],
           UNCHANGED paid, walk[call].verdict # "allowed",
           w.verdict = "allowed" => w.request.mode # "consume" \/ paid[call] # None
    PROVE  UNCHANGED standing
<1>1. walk \in [Calls -> Walk]
  BY DEF IInv
<1>2. ASSUME NEW c \in Calls
      PROVE  standing'[c] = standing[c]
  <2>1. CASE c = call
    BY <1>1, <2>1 DEF standing
  <2>2. CASE c # call
    BY <1>1, <2>2 DEF standing
  <2> QED
    BY <2>1, <2>2
<1> QED
  BY <1>2 DEF standing

LEMMA PendingIsNotAllowed ==
    ASSUME IInv, NEW call \in Calls, walk[call].step # "end"
    PROVE  walk[call].verdict # "allowed"
BY DEF IInv, Sound, WellFormed

LEMMA GatesPassRefines ==
    ASSUME IInv, NEW call \in Calls, GatesPass(call)
    PROVE  [Budget!Next]_standing
<1> DEFINE w == walk[call]
           id == current(w)
<1>1. /\ w \in Walk /\ Sound(w, paid[call]) /\ w.step = "next" /\ id \in GrantIds
  BY Considered DEF GatesPass, considering
<1>2. paid[call] = None /\ w.verdict # "allowed" /\ UNCHANGED paid
  BY <1>1, PendingIsNotAllowed DEF Sound, Owes, GatesPass
<1>3. CASE maxUses(id) # None
  <2> DEFINE v == [w EXCEPT !.step = "store"]
  <2>1. walk' = [walk EXCEPT ![call] = v]
    BY <1>3 DEF GatesPass
  <2>2. v \in Walk /\ v.verdict = w.verdict
    BY <1>1 DEF Walk
  <2> QED
    BY <1>2, <2>1, <2>2, StandingStill
<1>4. CASE maxUses(id) = None
  <2> DEFINE v == allowedBy(w, id)
  <2>1. walk' = [walk EXCEPT ![call] = v]
    BY <1>4 DEF GatesPass
  <2>2. v.verdict = "allowed" /\ v.matched = id /\ v.request = w.request /\ v \in Walk
    BY <1>1 DEF allowedBy, decided, Walk, Verdicts, Optional
  <2> HIDE DEF v
  <2>3. CASE w.request.mode # "consume"
    BY <1>2, <2>1, <2>2, <2>3, StandingStill
  <2>4. CASE w.request.mode = "consume"
    <3>1. standing[call] = None
      BY <1>2 DEF standing
    <3>2. standing' = [standing EXCEPT ![call] = id]
      <4>1. walk \in [Calls -> Walk]
        BY DEF IInv
      <4>2. ASSUME NEW c \in Calls
            PROVE  standing'[c] = [standing EXCEPT ![call] = id][c]
        <5>1. CASE c = call
          BY <1>2, <2>1, <2>2, <2>4, <4>1, <5>1 DEF standing
        <5>2. CASE c # call
          BY <1>2, <2>1, <4>1, <5>2 DEF standing
        <5> QED
          BY <5>1, <5>2
      <4> QED
        BY <4>2 DEF standing
    <3>3. MaxUses[id] = None
      BY <1>1, <1>4 DEF MaxUses
    <3> QED
      BY <1>1, <3>1, <3>2, <3>3 DEF Budget!Next, Budget!Authorize
  <2> QED
    BY <2>3, <2>4
<1> QED
  BY <1>3, <1>4

LEMMA StoreServesRefines ==
    ASSUME IInv, NEW call \in Calls, StoreServes(call)
    PROVE  [Budget!Next]_standing
<1> DEFINE w == walk[call]
           id == current(w)
           v == answering(w, hasUseLeft(id))
<1>1. /\ w \in Walk /\ Sound(w, paid[call]) /\ w.step = "store"
      /\ grantsLeft(w) /\ maxUses(id) # None
  BY DEF IInv, StoreServes, Sound, WellFormed
<1>2. id \in GrantIds /\ id # None
  BY <1>1, Considered, AuthorizerAssumption
<1>3. paid[call] = None /\ w.verdict # "allowed"
  BY <1>1, PendingIsNotAllowed DEF Sound, Owes
<1>4. walk' = [walk EXCEPT ![call] = v]
  BY DEF StoreServes
<1>5. v \in Walk /\ v.verdict = w.verdict
  <2>1. hasUseLeft(id) \in BOOLEAN
    BY DEF hasUseLeft
  <2> QED
    BY <1>1, <2>1 DEF answering, Walk
<1> HIDE DEF v
<1>6. CASE ~(spends(w.request.mode) /\ hasUseLeft(id))
  BY <1>3, <1>4, <1>5, <1>6, StandingStill DEF StoreServes
<1>7. CASE spends(w.request.mode) /\ hasUseLeft(id)
  <2>1. paid' = [paid EXCEPT ![call] = id]
    BY <1>7 DEF StoreServes
  <2>2. standing[call] = None
    BY <1>3 DEF standing
  <2>3. standing' = [standing EXCEPT ![call] = id]
    <3>1. walk \in [Calls -> Walk] /\ paid \in [Calls -> Optional(GrantIds)]
      BY DEF IInv
    <3>2. ASSUME NEW c \in Calls
          PROVE  standing'[c] = [standing EXCEPT ![call] = id][c]
      <4>1. CASE c = call
        BY <1>2, <2>1, <3>1, <4>1 DEF standing
      <4>2. CASE c # call
        BY <1>4, <2>1, <3>1, <4>2 DEF standing
      <4> QED
        BY <4>1, <4>2
    <3> QED
      BY <3>2 DEF standing
  <2>4. Cardinality(Budget!on(id)) < MaxUses[id]
    <3> HIDE DEF id
    <3>1. Budget!on(id) = payers(id)
      BY <1>1, <1>2, StandingIsPaying
    <3>2. used[id] = Cardinality(payers(id))
      BY <1>2 DEF IInv, UsesAreAccounted
    <3>3. used[id] < MaxUses[id]
      BY <1>2, <1>7 DEF hasUseLeft, MaxUses
    <3> QED
      BY <3>1, <3>2, <3>3
  <2>5. Budget!Cardinality(Budget!on(id)) = Cardinality(Budget!on(id))
    BY DEF Budget!Cardinality, Cardinality
  <2> QED
    BY <1>2, <2>2, <2>3, <2>4, <2>5 DEF Budget!Next, Budget!Authorize
<1> QED
  BY <1>6, <1>7

LEMMA StoreAnswersRefines ==
    ASSUME IInv, NEW call \in Calls, StoreAnswers(call)
    PROVE  UNCHANGED standing
<1> DEFINE w == walk[call]
           id == current(w)
<1>1. /\ w \in Walk /\ Sound(w, paid[call]) /\ w.step = "answer" /\ grantsLeft(w)
  BY DEF IInv, StoreAnswers, Sound, WellFormed
<1>2. id \in GrantIds /\ id # None
  BY <1>1, Considered, AuthorizerAssumption
<1>3. w.verdict # "allowed" /\ UNCHANGED paid
  BY <1>1, PendingIsNotAllowed DEF StoreAnswers
<1>4. CASE w.available
  <2> DEFINE v == allowedBy(w, id)
  <2>1. walk' = [walk EXCEPT ![call] = v]
    BY <1>4 DEF StoreAnswers
  <2>2. v.request = w.request /\ v \in Walk
    BY <1>1, <1>2 DEF allowedBy, decided, Walk, Verdicts, Optional
  <2>3. w.request.mode # "consume" \/ paid[call] # None
    BY <1>1, <1>2, <1>4 DEF Sound, Owes
  <2> HIDE DEF v
  <2> QED
    BY <1>3, <2>1, <2>2, <2>3, StandingStill
<1>5. CASE ~w.available
  <2> DEFINE p == past(w, "exhausted")
             v == pastExhausted(w)
  <2>1. walk' = [walk EXCEPT ![call] = v]
    BY <1>5 DEF StoreAnswers
  <2>2. p \in Walk /\ p.verdict = w.verdict
    <3>1. p \in Walk
      BY <1>1, PastAddsOutcome DEF Outcome
    <3>2. p.verdict = w.verdict
      BY <1>1 DEF past, Walk
    <3> QED
      BY <3>1, <3>2
  <2>3. v = [p EXCEPT !.foundExhaustedGrant = TRUE]
    BY DEF pastExhausted
  <2> HIDE DEF p
  <2>4. v \in Walk /\ v.verdict = w.verdict
    BY <2>2, <2>3 DEF Walk
  <2> QED
    BY <1>3, <2>1, <2>4, StandingStill
<1> QED
  BY <1>4, <1>5

(* The other actions allow nothing and spend nothing.                      *)
LEMMA OthersStandStill ==
    ASSUME IInv, NEW call \in Calls,
           \/ \E request \in Requests : Begin(call, request)
           \/ TurnAway(call)
           \/ \E answer \in {"invalid", "unverified"} : ChainFails(call, answer)
           \/ CeilingRefuses(call) \/ CeilingFails(call)
           \/ StoreFails(call) \/ Conclude(call)
    PROVE  UNCHANGED standing
<1> DEFINE w == walk[call]
<1>1. w \in Walk
  BY DEF IInv
<1>2. w.verdict # "allowed" /\ UNCHANGED paid
  BY PendingIsNotAllowed DEF Begin, TurnAway, ChainFails, CeilingRefuses, CeilingFails,
     StoreFails, Conclude, considering
<1>3. \A verdict \in Verdicts : decided(w, verdict).verdict = verdict
  BY <1>1 DEF decided, Walk
<1>4. \A outcome : past(w, outcome).verdict = w.verdict /\ past(w, outcome) = [w EXCEPT !.step = "next", !.met = Append(w.met, outcome)]
  BY <1>1 DEF past, Walk
<1>5. ASSUME NEW request \in Requests, Begin(call, request)
      PROVE  UNCHANGED standing
  <2> DEFINE b == [w EXCEPT !.step = "next", !.request = request]
             v == IF invalidContext(request) THEN decided(b, "invalid_context")
                  ELSE IF ~resourceBelongsToContext(request.requirement, request.context)
                  THEN decided(b, "invalid_request") ELSE b
  <2>1. walk' = [walk EXCEPT ![call] = v]
    BY <1>5 DEF Begin
  <2>2. b.verdict # "allowed" /\ b \in Walk
    BY <1>1, <1>2 DEF Walk, Optional
  <2> HIDE DEF b
  <2>3. /\ decided(b, "invalid_context").verdict = "invalid_context"
        /\ decided(b, "invalid_request").verdict = "invalid_request"
    BY <2>2 DEF decided, Walk
  <2>4. v.verdict # "allowed"
    BY <2>2, <2>3
  <2> HIDE DEF v
  <2> QED
    BY <1>2, <2>1, <2>4, StandingStill
<1>6. CASE TurnAway(call)
  BY <1>2, <1>4, <1>6, StandingStill DEF TurnAway
<1>7. ASSUME NEW answer \in {"invalid", "unverified"}, ChainFails(call, answer)
      PROVE  UNCHANGED standing
  <2>1. pastBroken(w, answer).verdict = w.verdict
    BY <1>1, <1>4 DEF pastBroken, Walk
  <2> QED
    BY <1>2, <1>7, <2>1, StandingStill DEF ChainFails
<1>8. CASE CeilingRefuses(call)
  <2>1. pastRefused(w).verdict = w.verdict
    BY <1>1, <1>4 DEF pastRefused, Walk
  <2> QED
    BY <1>2, <1>8, <2>1, StandingStill DEF CeilingRefuses
<1>9. CASE CeilingFails(call)
  BY <1>2, <1>3, <1>9, StandingStill DEF CeilingFails, Verdicts
<1>10. CASE StoreFails(call)
  BY <1>2, <1>3, <1>10, StandingStill DEF StoreFails, afterStoreFailure, Verdicts
<1>11. CASE Conclude(call)
  <2>1. denied(w).verdict = denialReason(w)
    BY <1>1 DEF denied, decided, Walk
  <2>2. denialReason(w) # "allowed"
    BY DEF denialReason
  <2> QED
    BY <1>2, <1>11, <2>1, <2>2, StandingStill DEF Conclude
<1> QED
  BY <1>5, <1>6, <1>7, <1>8, <1>9, <1>10, <1>11

(* The authorizer implements the budget: every step of it is one operation *)
(* coming to stand on a grant that has a use left, or nothing at all.      *)
THEOREM AuthorizerKeepsBudget == Spec => BudgetKept
<1>1. Init => Budget!Init
  BY DEF Init, Budget!Init, standing, Idle
<1>2. IInv /\ [Next]_vars => [Budget!Next]_standing
  <2> SUFFICES ASSUME IInv, [Next]_vars
               PROVE  [Budget!Next]_standing
    OBVIOUS
  <2>1. ASSUME NEW call \in Calls, Decide(call)
        PROVE  [Budget!Next]_standing
    BY <2>1, GatesPassRefines, StoreServesRefines, StoreAnswersRefines, OthersStandStill DEF Decide
  <2>2. ASSUME UNCHANGED vars
        PROVE  UNCHANGED standing
    BY <2>2 DEF vars, standing
  <2> QED
    BY <2>1, <2>2 DEF Next
<1> QED
  BY <1>1, <1>2, InductiveInvariant, PTL DEF Spec, BudgetKept, Budget!Spec

=============================================================================
