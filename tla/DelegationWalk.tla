--------------------------- MODULE DelegationWalk ---------------------------
(***************************************************************************)
(* validateDelegationChain: one walk up the ancestors of a presented grant,*)
(* against a grant store the host keeps editing while the walk waits.      *)
(*                                                                         *)
(* Every ancestor is resolved by its own await, so between two links the   *)
(* host may revoke, remove or derive grants. The presented grant is the    *)
(* copy the turn was admitted with and is never re-read; its ancestors     *)
(* always are. Walks share nothing but the store, which they only read, so *)
(* one walk at a time is enough.                                           *)
(***************************************************************************)
EXTENDS Grants, FiniteSets

CONSTANTS
    Stores,           (* the stores a host may start with                        *)
    DeriveRequests,   (* what holders ask deriveGrant for                        *)
    Uses,             (* what a grant may be asked for, and when: see permits    *)
    Contexts,         (* [owner, purpose] of the decisions made                  *)
    ChainLimits,      (* what options.maxChainLength may be                      *)
    LastInstant       (* bound: the clock stops here                             *)

Store == {s \in [GrantIds -> Optional(Grant)] : \A id \in GrantIds : s[id] # None => s[id].id = id}

Context == [owner : Addresses, purpose : Purposes]

Use == [requirement : Requirement, purpose : Purposes, at : [admittedAt : Int, now : Int]]

ASSUME WalkAssumption ==
    /\ ChainLimits \subseteq Nat
    /\ LastInstant \in Nat
    /\ \A s \in Stores : s \in Store
    /\ \A r \in DeriveRequests : r \in DeriveGrantRequest
    /\ \A u \in Uses : u \in Use
    /\ \A c \in Contexts : c \in Context

VARIABLES
    limit,       (* this authorizer's maxChainLength                             *)
    store,       (* the host's grants: [GrantIds -> Grant or None]                    *)
    issued,      (* ids ever used; DeriveGrantRequest.id is unique               *)
    derived,     (* ids whose grant deriveGrant wrote                            *)
    clock,       (* the host's clock                                             *)
    turn,        (* the copy the turn holds, when and in which context: or None  *)
    status,      (* "idle", "walking", or how the walk ended                     *)
    child,       (* the grant whose parent is resolved next                      *)
    ancestors,   (* ancestors resolved so far, nearest first                     *)
    at,          (* the two instants the walk decides at                         *)
    broken,      (* the ancestor an invalid walk stopped at, or None             *)
    before       (* history: the store when the walk began                       *)

chainVars == <<limit, store, issued, derived, clock, turn, status, child, ancestors, at, broken, before>>

hostVars == <<limit, store, issued, derived, clock>>
walkVars == <<status, child, ancestors, at, broken, before>>

-----------------------------------------------------------------------------
(* An ancestor may be gone from the store, and its id was used all the same. *)
isNamed(id) == \E other \in GrantIds : store[other] # None /\ store[other].parentGrantId = id

ChainInit ==
    /\ limit \in ChainLimits
    /\ store \in Stores
    /\ issued = {id \in GrantIds : store[id] # None \/ isNamed(id)}
    /\ derived = {}
    /\ clock = 0
    /\ turn = None
    /\ status = "idle"
    /\ child = None
    /\ ancestors = <<>>
    /\ at = [admittedAt |-> 0, now |-> 0]
    /\ broken = None
    /\ before = None

-----------------------------------------------------------------------------
(* The host *)

Tick ==
    /\ clock < LastInstant
    /\ clock' = clock + 1
    /\ UNCHANGED <<limit, store, issued, derived, turn, walkVars>>

(* A holder derives a narrower grant and the host stores it. *)
Derive(parentId, request) ==
    /\ store[parentId] # None
    /\ request.id \in GrantIds \ issued
    /\ derivable(store[parentId], request)
    /\ store' = [store EXCEPT ![request.id] = deriveGrant(store[parentId], request)]
    /\ issued' = issued \cup {request.id}
    /\ derived' = derived \cup {request.id}
    /\ UNCHANGED <<limit, clock, turn, walkVars>>

Revoke(id) ==
    /\ store[id] # None
    /\ store[id].revokedAt = None
    /\ store' = [store EXCEPT ![id].revokedAt = clock]
    /\ UNCHANGED <<limit, issued, derived, clock, turn, walkVars>>

Remove(id) ==
    /\ store[id] # None
    /\ store' = [store EXCEPT ![id] = None]
    /\ UNCHANGED <<limit, issued, derived, clock, turn, walkVars>>

(* A turn opens: it keeps the grant it loaded and the instant it loaded at. *)
Admit(id, context) ==
    /\ status # "walking"
    /\ store[id] # None
    /\ turn' = [grant |-> store[id], admittedAt |-> clock, context |-> context]
    /\ status' = "idle"
    /\ child' = None
    /\ ancestors' = <<>>
    /\ broken' = None
    /\ at' = [admittedAt |-> 0, now |-> 0]
    /\ before' = None
    /\ UNCHANGED hostVars

-----------------------------------------------------------------------------
(* The walk *)

(* child.parentGrantId === undefined ends the loop. *)
statusAt(grant) == IF grant.parentGrantId = None THEN "valid" ELSE "walking"

(* A decision reaches the chain check. A grant naming no parent is a root  *)
(* and is valid at once.                                                   *)
StartWalk ==
    /\ turn # None
    /\ status # "walking"
    /\ status' = statusAt(turn.grant)
    /\ child' = turn.grant
    /\ ancestors' = <<>>
    /\ at' = [admittedAt |-> turn.admittedAt, now |-> clock]
    /\ broken' = None
    /\ before' = store
    /\ UNCHANGED <<hostVars, turn>>

chainIsFull == Len(ancestors) >= limit

TooLong ==
    /\ status = "walking"
    /\ chainIsFull
    /\ status' = "invalid"
    /\ UNCHANGED <<hostVars, turn, child, ancestors, at, broken, before>>

(* The resolver is missing, which the first link finds out, or throws. *)
ResolverFails ==
    /\ status = "walking"
    /\ ~chainIsFull \/ ancestors = <<>>
    /\ status' = "unverified"
    /\ UNCHANGED <<hostVars, turn, child, ancestors, at, broken, before>>

(* Mutant: the end of what could be read is taken for the root. *)
missingMeansRoot == "valid"

(* How a walk ends at an ancestor the store does not have. *)
missingMeans == "unverified"

ParentMissing ==
    /\ status = "walking"
    /\ ~chainIsFull
    /\ store[child.parentGrantId] = None
    /\ status' = missingMeans
    /\ UNCHANGED <<hostVars, turn, child, ancestors, at, broken, before>>

seen(id) == id = turn.grant.id \/ \E i \in 1..Len(ancestors) : ancestors[i].id = id

(* The resolver answers: the link is checked, and the walk moves up, ends  *)
(* at a root, or stops at a cycle or a broken link.                        *)
ParentResolved ==
    /\ status = "walking"
    /\ ~chainIsFull
    /\ store[child.parentGrantId] # None
    /\ LET parent == store[child.parentGrantId] IN
       IF seen(parent.id) \/ ~linkHolds(child, parent, turn.context, at)
       THEN /\ status' = "invalid"
            /\ broken' = parent
            /\ UNCHANGED <<child, ancestors>>
       ELSE /\ status' = statusAt(parent)
            /\ ancestors' = Append(ancestors, parent)
            /\ child' = parent
            /\ UNCHANGED broken
    /\ UNCHANGED <<hostVars, turn, at, before>>

-----------------------------------------------------------------------------
Host ==
    \/ Tick
    \/ \E id \in GrantIds, request \in DeriveRequests : Derive(id, request)
    \/ \E id \in GrantIds : Revoke(id) \/ Remove(id)
    \/ \E id \in GrantIds, context \in Contexts : Admit(id, context)

WalkSteps == StartWalk \/ TooLong \/ ResolverFails \/ ParentMissing \/ ParentResolved

ChainNext == Host \/ WalkSteps

ChainSpec == ChainInit /\ [][ChainNext]_chainVars

-----------------------------------------------------------------------------
(* Properties *)

(* Everything stored stays under its own id, ids are never reused, and a   *)
(* walk holds a grant to go on from: one that names a parent until it ends.*)
ChainTypeOK ==
    /\ limit \in ChainLimits
    /\ store \in Store
    /\ \A id \in GrantIds : store[id] # None => id \in issued
    /\ derived \subseteq issued /\ issued \subseteq GrantIds
    /\ clock \in 0..LastInstant
    /\ turn \in Optional([grant : Grant, admittedAt : Int, context : Context])
    /\ status \in {"idle", "walking", "valid", "invalid", "unverified"}
    /\ child \in Optional(Grant)
    /\ ancestors \in Seq(Grant)
    /\ at \in [admittedAt : Int, now : Int]
    /\ broken \in Optional(Grant)
    /\ before \in Optional(Store)
    /\ turn # None => turn.grant # None
    /\ status # "idle" => turn # None /\ child # None
    /\ status = "walking" => child.parentGrantId # None
    /\ child # None => child = IF ancestors = <<>> THEN turn.grant ELSE ancestors[Len(ancestors)]

(* A use: a requirement, with the purpose and the instants it is made for. *)
(* Revocation is a store edit and is left to the properties that follow.   *)
permits(grant, use, context) ==
    /\ \E capability \in grant.capabilities :
           capabilityMatches(capability, use.requirement, context)
    /\ withinBounds(grant, use.purpose, use.at)

(* Delegation never amplifies: whatever a grant with a valid chain permits,*)
(* at any instant and for any purpose, every ancestor the walk resolved    *)
(* permits as well, however many links lie between (linkViolation).        *)
NoAmplification ==
    status = "valid" =>
        \A i \in 1..Len(ancestors), use \in Uses :
            permits(turn.grant, use, turn.context) => permits(ancestors[i], use, turn.context)

(* A chain of k links needs k at its root: every redelegation spends one   *)
(* of the budget each ancestor set, and what is left is the presented      *)
(* grant's own (delegation_depth_exceeded).                                *)
DepthBudgetSpent ==
    status = "valid" =>
        \A i \in 1..Len(ancestors) : depthOf(ancestors[i]) >= i + depthOf(turn.grant)

(* Revocation and expiry reach descendants: an ancestor that was revoked   *)
(* by the instant the turn was admitted, or has expired by the operation's,*)
(* supports no decision whose walk starts later, at any depth.             *)
RemovalReachesDescendants ==
    status = "valid" =>
        \A i \in 1..Len(ancestors) :
            LET held == before[ancestors[i].id] IN
            held # None =>
                /\ held.revokedAt # None => held.revokedAt > at.admittedAt
                /\ held.constraints.expiresAt # None => held.constraints.expiresAt > at.now

(* The walk reads its ancestors one await at a time, and is still sound as *)
(* one read: a chain it calls valid held in full, link by link up to a     *)
(* root, in the store as it stood when the walk began.                     *)
ValidChainWasWhole ==
    LET line(i) == IF i = 0 THEN turn.grant ELSE before[ancestors[i].id] IN
    status = "valid" =>
        /\ \A i \in 1..Len(ancestors) :
               /\ line(i) # None
               /\ line(i - 1).parentGrantId = line(i).id
               /\ linkHolds(line(i - 1), line(i), turn.context, at)
        /\ line(Len(ancestors)).parentGrantId = None

(* What deriveGrant refuses at issue is what the walk refuses at use: a    *)
(* link deriveGrant wrote breaks only because the ancestor is no longer    *)
(* active, or the chain is longer than this walk may go.                   *)
DerivedLinksHold ==
    status = "invalid" /\ child.id \in derived =>
        chainIsFull \/ ~grantIsActive(broken, turn.context.purpose, at)

=============================================================================
