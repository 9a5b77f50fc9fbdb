------------------------------ MODULE Admission ------------------------------
(***************************************************************************)
(* From an ask to a grant: a host escalates the authority a turn lacks, its *)
(* owner answers, and a host's matcher may have a later ask decided on the *)
(* answers it cites, within what those answers allowed.                    *)
(*                                                                         *)
(* packages/core/src: capability-request.ts, kernel.ts (recordEscalation), *)
(* constraints.ts (tightestConstraints); packages/precedent/src.           *)
(*                                                                         *)
(* A request is its ask: the id the kernel mints hashes exactly these      *)
(* fields, so the record stands for its id.  The key a precedent is filed  *)
(* under leaves the constraints out.                                       *)
(***************************************************************************)
EXTENDS GrantStore

CONSTANTS
    Matchers,      (* proposals under way, and the grants they lead to      *)
    Contexts,      (* the trusted contexts turns run in                     *)
    Payloads,      (* what may be asked, for what, within what bounds       *)
    Requirements,  (* what a turn may be denied                             *)
    Answers,       (* an owner's answers: [outcome, narrower, constraints]  *)
    Widths,        (* the capability sets a matcher may propose             *)
    Instants,      (* when a grant is tried                                 *)
    MaxAsks,       (* requests waiting or answered                          *)
    MaxLoaded      (* rows in one answer of the lookup                      *)

ASSUME AdmissionAssumption ==
    /\ Matchers \subseteq GrantIds
    /\ \A payload \in Payloads : payload.capabilities \subseteq Capability
    /\ Requirements \subseteq Requirement
    /\ \A answer \in Answers :
          answer.narrower \subseteq Capability /\ answer.constraints \in Constraints
    /\ Widths \subseteq SUBSET Capability
    /\ Instants \subseteq Int
    /\ \A purposes \in SUBSET Purposes : purposes # None

VARIABLES
    asked,      (* the escalations recorded, by request   *)
    rows,       (* the host's precedents                  *)
    proposal    (* what each matcher is having decided    *)

admissionVars == <<asked, rows, proposal>>

-----------------------------------------------------------------------------
(* Asking *)

(* Who asks, of whom and where comes from the context, whatever the caller *)
(* wrote beside its ask; what for is the ask's own, like what is asked.    *)
mintCapabilityRequest(context, payload) ==
    [namespaceId  |-> context.namespaceId, requester |-> context.actor,
     owner        |-> context.owner,       purpose   |-> payload.purpose,
     capabilities |-> payload.capabilities, constraints |-> payload.constraints]

(* One capability, exactly the resource and the action a denial was about, *)
(* for the turn's own purpose.                                             *)
describeRequiredAuthority(context, requirement) ==
    mintCapabilityRequest(context,
        [capabilities |-> {[namespace |-> requirement.namespace, path |-> requirement.path,
                            owner |-> requirement.owner, actions |-> {requirement.action},
                            scope |-> "exact"]},
         purpose      |-> context.purpose,
         constraints  |-> None])

recordEscalation(request) ==
    /\ Cardinality(asked \cup {request}) <= MaxAsks
    /\ asked' = asked \cup {request}
    /\ UNCHANGED <<rows, proposal, store>>

(* A host escalates what a turn was denied, or an ask it states itself; an *)
(* ask of no capability is a contract violation and records nothing. An    *)
(* escalation without an ask, as a turn's envelope records of its own      *)
(* accord, leaves nothing to answer.                                       *)
Asks(context) ==
    \/ \E payload \in Payloads :
          /\ payload.capabilities # {}
          /\ recordEscalation(mintCapabilityRequest(context, payload))
    \/ \E requirement \in Requirements :
          recordEscalation(describeRequiredAuthority(context, requirement))

-----------------------------------------------------------------------------
(* Answering *)

precedentKey(request) ==
    [namespaceId |-> request.namespaceId, owner |-> request.owner,
     requester |-> request.requester, purpose |-> request.purpose,
     capabilities |-> request.capabilities]

(* Mutant: what the access is for is left out.                             *)
digestForAnyPurpose(key) ==
    [key EXCEPT !.purpose = None, !.capabilities =
        {[capability EXCEPT !.owner = resolvedOwner(capability, key)] : capability \in @}]

(* Two keys are one question when they name the same things once unowned   *)
(* resources are the key owner's.                                          *)
precedentKeyDigest(key) ==
    [key EXCEPT !.capabilities =
        {[capability EXCEPT !.owner = resolvedOwner(capability, key)] : capability \in @}]

(* A refusal has no width.                                                 *)
rowOf(request, answer) ==
    [requestId    |-> request, outcome |-> answer.outcome, key |-> precedentKey(request),
     capabilities |-> IF answer.outcome = "refused" THEN {}
                      ELSE IF answer.narrower = {} THEN request.capabilities
                      ELSE answer.narrower,
     constraints  |-> answer.constraints]

(* The owner answers, or answers again: one row per request.               *)
Records(request, answer) ==
    /\ request \in asked
    /\ rows' = {row \in rows : row.requestId # request} \cup {rowOf(request, answer)}
    /\ UNCHANGED <<asked, proposal, store>>

-----------------------------------------------------------------------------
(* The tightest envelope *)

declared(sets, field) == {constraints[field] : constraints \in sets} \ {None}

(* An absent bound is no bound: the bound is one that was declared, or     *)
(* none was.                                                               *)
boundsOf(bounds) == IF bounds = {} THEN {None} ELSE bounds

(* The narrowest bounds every set can live with, as a set of at most one.  *)
tightestConstraints(sets) ==
    LET purposes == declared(sets, "purposes")
        starts   == declared(sets, "notBefore")
        ends     == declared(sets, "expiresAt")
        limits   == declared(sets, "maxUses")
        depths   == declared(sets, "delegationDepth")
    IN  {envelope \in [purposes  : {IF purposes = {} THEN None
                                    ELSE {purpose \in UNION purposes :
                                             \A allowed \in purposes : purpose \in allowed}},
                       notBefore : boundsOf(starts), expiresAt : boundsOf(ends),
                       maxUses   : boundsOf(limits), delegationDepth : boundsOf(depths)] :
            /\ \A at \in starts \cup ends : Readable(at)
            /\ \A at \in starts : at <= envelope.notBefore
            /\ \A at \in ends : envelope.expiresAt <= at
            /\ \A uses \in limits : envelope.maxUses <= uses
            /\ \A depth \in depths : envelope.delegationDepth <= depth
            /\ envelope.purposes # {}
            /\ envelope.notBefore # None /\ envelope.expiresAt # None =>
                   envelope.notBefore <= envelope.expiresAt}

(* And not to be passed on.                                                *)
tightestEnvelope(precedents) ==
    {[envelope EXCEPT !.delegationDepth = 0] :
        envelope \in tightestConstraints({row.constraints : row \in precedents})}

-----------------------------------------------------------------------------
(* Judging a proposal *)

(* Mutant: what the lookup could not find is left out.                     *)
citedPrecedentsFound(loaded, cited) ==
    {loaded[i].requestId : i \in DOMAIN loaded} \subseteq cited

(* The answer holds every row cited, once, and no other.                   *)
citedPrecedents(loaded, cited) ==
    /\ Len(loaded) = Cardinality(cited)
    /\ {loaded[i].requestId : i \in DOMAIN loaded} = cited

isSameQuestion(request, row) ==
    precedentKeyDigest(row.key) = precedentKeyDigest(precedentKey(request))

(* Mutant: the best row speaks for the citation.                           *)
matchKindOfTheBest(request, precedents) ==
    IF \E row \in precedents : isSameQuestion(request, row) THEN "exact" ELSE "fuzzy"

matchKind(request, precedents) ==
    IF \A row \in precedents : isSameQuestion(request, row) THEN "exact" ELSE "fuzzy"

areWithin(capabilities, allowed, request) ==
    \A capability \in capabilities :
        \E other \in allowed : capabilityIsWithin(capability, other, request)

(* The rules an answered lookup breaks; the code reports the first.        *)
objections(request, cited, width, loaded) ==
    LET precedents == {loaded[i] : i \in DOMAIN loaded} IN
    {reason \in {"precedent_unavailable", "precedent_not_this_owner", "allow_cites_refusal",
                 "precedent_not_this_requester", "wider_than_precedent", "wider_than_request",
                 "envelope_unsatisfiable"} :
        \/ reason = "precedent_unavailable" /\ ~citedPrecedents(loaded, cited)
        \/ /\ reason = "precedent_not_this_owner"
           /\ \E row \in precedents : \/ row.key.namespaceId # request.namespaceId
                                      \/ row.key.owner # request.owner
        \/ /\ width # None
           /\ \/ /\ reason = "allow_cites_refusal"
                 /\ \E row \in precedents : row.outcome # "approved"
              \/ /\ reason = "precedent_not_this_requester"
                 /\ \E row \in precedents : row.key.requester # request.requester
              \/ /\ reason = "wider_than_precedent"
                 /\ \E row \in precedents : ~areWithin(width, row.capabilities, request)
              \/ /\ reason = "wider_than_request"
                 /\ matchKind(request, precedents) = "fuzzy"
                 /\ ~areWithin(width, request.capabilities, request)
              \/ /\ reason = "envelope_unsatisfiable"
                 /\ tightestEnvelope(precedents) = {}}

Undecided == [at |-> "none", request |-> None, cited |-> {}, width |-> None, loaded |-> <<>>,
              reason |-> None, constraints |-> None]

inadmissible(p, reason) == [p EXCEPT !.at = "inadmissible", !.reason = reason]

(* A proposal is refused before the lookup for its marker, for citing      *)
(* nothing, or for allowing nothing. Its width is None when it refuses.    *)
Proposes(m, request, cited, width, marked) ==
    LET p == [Undecided EXCEPT !.at = "looking", !.request = request, !.cited = cited,
                               !.width = width]
    IN  /\ proposal[m].at = "none"
        /\ request \in asked
        /\ proposal' = [proposal EXCEPT ![m] =
               IF ~marked THEN inadmissible(p, "auto_decision_unmarked")
               ELSE IF cited = {} THEN inadmissible(p, "no_precedent_cited")
               ELSE IF width = {} THEN inadmissible(p, "empty_proposed_capability")
               ELSE p]
        /\ UNCHANGED <<asked, rows, store>>

LookupFails(m) ==
    /\ proposal[m].at = "looking"
    /\ proposal' = [proposal EXCEPT ![m] = inadmissible(@, "precedent_unavailable")]
    /\ UNCHANGED <<asked, rows, store>>

admitted(p, loaded, constraints) ==
    [p EXCEPT !.at = "admitted", !.loaded = loaded, !.constraints = constraints]

(* The lookup answers with rows of the store, whichever; the proposal is   *)
(* judged on them there and then, never on what it claimed of them.        *)
LookupAnswers(m, loaded) ==
    LET p == proposal[m]
        broken == objections(p.request, p.cited, p.width, loaded)
    IN  /\ p.at = "looking"
        /\ \/ \E reason \in broken :
                 proposal' = [proposal EXCEPT ![m] = inadmissible(@, reason)]
           \/ /\ broken = {} /\ p.width = None
              /\ proposal' = [proposal EXCEPT ![m] = admitted(@, loaded, None)]
           \/ /\ broken = {} /\ p.width # None
              /\ \E envelope \in tightestEnvelope({loaded[i] : i \in DOMAIN loaded}) :
                    proposal' = [proposal EXCEPT ![m] = admitted(@, loaded, envelope)]
        /\ UNCHANGED <<asked, rows, store>>

(* The grant an admitted allow describes, for the host's store to issue.   *)
grantOf(m, at) ==
    LET p == proposal[m] IN
    [id |-> m, namespaceId |-> p.request.namespaceId, subject |-> p.request.requester,
     issuer |-> p.request.owner, capabilities |-> p.width, constraints |-> p.constraints,
     issuedAt |-> at, revokedAt |-> None, parentGrantId |-> None]

IssuesAdmitted(m, at) ==
    /\ proposal[m].at = "admitted" /\ proposal[m].width # None
    /\ Issues(grantOf(m, at))
    /\ UNCHANGED admissionVars

(* What is on record of a decision, and goes with the grant: who proposed  *)
(* it, on what answers, and whether they were to the same question. A      *)
(* grant that has none was a person's.                                     *)
autoDecided(m) ==
    LET p == proposal[m] IN
    [matcher |-> m, citedRequestIds |-> p.cited,
     match |-> matchKind(p.request, {p.loaded[i] : i \in DOMAIN p.loaded})]

readAutoDecided(grant) == {autoDecided(m) : m \in Matchers \cap {grant.id}}

autoDecisionAuditEvent(m) ==
    LET isNarrowed == proposal[m].width # None /\ autoDecided(m).match = "fuzzy" IN
    [outcome |-> IF proposal[m].width = None THEN "denied" ELSE "allowed",
     reason |-> IF isNarrowed THEN "auto_allow_narrowed" ELSE None,
     metadata |-> autoDecided(m)]

-----------------------------------------------------------------------------

AdmissionInit ==
    /\ asked = {} /\ rows = {}
    /\ proposal = [m \in Matchers |-> Undecided]

answersOfLookup == UNION {[1..n -> rows] : n \in 0..MaxLoaded}

Admits(m) ==
    \/ \E request \in asked, width \in Widths \cup {None}, marked \in BOOLEAN :
          \E cited \in SUBSET asked : Proposes(m, request, cited, width, marked)
    \/ LookupFails(m)
    \/ \E loaded \in answersOfLookup : LookupAnswers(m, loaded)
    \/ IssuesAdmitted(m, 0)

Consents ==
    \/ \E context \in Contexts : Asks(context)
    \/ \E request \in asked, answer \in Answers : Records(request, answer)
    \/ \E m \in Matchers : Admits(m)

-----------------------------------------------------------------------------
(* Properties *)

boundsHold(constraints, purpose, now) ==
    withinBounds([constraints |-> constraints, issuedAt |-> now], purpose,
                 [admittedAt |-> now, now |-> now])

allows(capabilities, constraints, owner, use, purpose, now) ==
    /\ permits(capabilities, use, owner)
    /\ boundsHold(constraints, purpose, now)

(* An auto-decision rests on an answer to every request it cites, of this  *)
(* owner in this namespace; and what it allows, each of those answers      *)
(* allowed this same requester, at every instant, for every purpose, and   *)
(* as many times (admitAutoDecision, R2 and R3). A grant issued of one says *)
(* so, and names them (R4).                                                *)
AllowRestsOnEveryAnswer ==
    /\ \A grant \in issued :
        (grant.id \notin {other.id : other \in HostGrants}) =>
            /\ readAutoDecided(grant) # {}
            /\ \A decision \in readAutoDecided(grant) : \A request \in decision.citedRequestIds :
                  \E i \in DOMAIN proposal[grant.id].loaded :
                     LET row == proposal[grant.id].loaded[i] IN
                     row.requestId = request /\ areWithin(grant.capabilities, row.capabilities, row.key)
    /\ \A m \in Matchers :
        LET p == proposal[m] IN
        p.at = "admitted" =>
            \A request \in p.cited : \E i \in DOMAIN p.loaded :
                LET row == p.loaded[i] IN
                /\ row.requestId = request
                /\ row.key.namespaceId = p.request.namespaceId
                /\ row.key.owner = p.request.owner
                /\ p.width # None =>
                      /\ row.outcome = "approved"
                      /\ row.key.requester = p.request.requester
                      /\ row.constraints.maxUses # None =>
                             p.constraints.maxUses <= row.constraints.maxUses
                      /\ \A use \in Uses, purpose \in Purposes, now \in Instants :
                            allows(p.width, p.constraints, p.request, use, purpose, now) =>
                                allows(row.capabilities, row.constraints, row.key,
                                       use, purpose, now)

asksForTheSame(request, key) ==
    /\ request.purpose = key.purpose
    /\ \A use \in Uses :
          permits(request.capabilities, use, request) <=> permits(key.capabilities, use, key)

(* Resemblance may only narrow: with one answer among those cited that was *)
(* to another question, whatever is allowed was asked for in this one, and *)
(* not only allowed in those; and its record tells it from the other kind  *)
(* (matchKind, R1; autoDecisionAuditEvent).                                *)
NarrowedUnlessSameQuestion ==
    \A m \in Matchers :
        LET p == proposal[m] IN
        /\ p.at = "admitted" /\ p.width # None
        /\ \E i \in DOMAIN p.loaded : ~asksForTheSame(p.request, p.loaded[i].key)
        => /\ autoDecisionAuditEvent(m).reason = "auto_allow_narrowed"
           /\ \A use \in Uses :
              permits(p.width, use, p.request) => permits(p.request.capabilities, use, p.request)

=============================================================================
