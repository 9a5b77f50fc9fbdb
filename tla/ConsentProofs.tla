--------------------------- MODULE ConsentProofs ---------------------------
(***************************************************************************)
(* What is decided on precedent, and what a reach says, for any owners'    *)
(* answers, any proposals, any grants and any spending meanwhile: an allow *)
(* is no wider than any answer it cites, resemblance only narrows, and a   *)
(* reach is true of its subject when it is served.                         *)
(*                                                                         *)
(* The invariant says what the code established when a proposal was        *)
(* admitted and never looks at again, and of a reach under way that what   *)
(* was considered so far is in it, and nothing else.                       *)
(***************************************************************************)
EXTENDS Consent, TLAPS

IsRow(row) ==
    /\ row.capabilities \subseteq Capability
    /\ DOMAIN row.key = {"namespaceId", "owner", "requester", "purpose", "capabilities"}
    /\ row.key.capabilities \subseteq Capability
    /\ row.constraints \in Constraints

(* A proposal is its fields, ...                                           *)
isWhole(p) ==
    DOMAIN p = {"at", "request", "cited", "width", "loaded", "reason", "constraints"}

IsProposal(p) ==
    /\ isWhole(p)
    /\ p.at \in {"none", "looking", "inadmissible", "admitted"}
    /\ p.at \in {"looking", "admitted"} =>
          p.request.capabilities \subseteq Capability /\ p.width \in Widths \cup {None}

(* ... where every row cited, and no other, is an answer of this owner's;  *)
(* an allow is within each, and within the request unless they are its own.*)
Answered(request, cited, width, answers) ==
    /\ {row.requestId : row \in answers} = cited
    /\ \A row \in answers :
          row.key.namespaceId = request.namespaceId /\ row.key.owner = request.owner
    /\ width # None =>
          /\ \A row \in answers :
                /\ row.outcome = "approved" /\ row.key.requester = request.requester
                /\ areWithin(width, row.capabilities, request)
          /\ matchKind(request, answers) = "fuzzy" =>
                areWithin(width, request.capabilities, request)

answersTo(p) == {p.loaded[i] : i \in DOMAIN p.loaded}

Supported(p) ==
    /\ \A row \in answersTo(p) : IsRow(row)
    /\ Answered(p.request, p.cited, p.width, answersTo(p))
    /\ p.width # None => p.constraints \in tightestEnvelope(answersTo(p))

ProposalsAreSupported ==
    /\ proposal = [m \in Matchers |-> proposal[m]]
    /\ \A m \in Matchers :
          /\ IsProposal(proposal[m])
          /\ proposal[m].at = "admitted" => Supported(proposal[m])

(* A grant is the host's own, or an admitted allow.                        *)
isAdmitted(grant) ==
    /\ grant.id \in Matchers
    /\ proposal[grant.id].at = "admitted" /\ proposal[grant.id].width # None
    /\ grant.capabilities = proposal[grant.id].width
    /\ grant.constraints = proposal[grant.id].constraints

AdmissionInv ==
    /\ \A request \in asked : request.capabilities \subseteq Capability
    /\ \A row \in rows : IsRow(row)
    /\ ProposalsAreSupported
    /\ used \in [GrantIds -> Nat]
    /\ \A grant \in issued : grant \in HostGrants \/ isAdmitted(grant)

(* What a reach under way is made of.                                      *)
Derives(r) ==
    /\ r.kind \in {"turn", "card"}
    /\ r.loaded \subseteq issued /\ r.left \subseteq r.loaded
    /\ \A grant \in r.spent : ~hasUses(grant)
    /\ r.spent \subseteq r.loaded
    /\ \A entry \in r.entries : \E grant \in r.loaded \ r.spent :
          isInForce(grant, r.context) /\ entry \in entriesOf(grant, r.context)
    /\ \A grant \in r.loaded \ (r.left \cup r.passedOver) :
          isInForce(grant, r.context) /\ hasUses(grant) => entriesOf(grant, r.context) \subseteq r.entries

isReadRecord(r) ==
    DOMAIN r = {"at", "kind", "context", "subject", "view", "loaded", "left", "spent",
                "passedOver", "entries", "answer"}

IsReading(r) ==
    /\ isReadRecord(r)
    /\ r.at = "admitted" => r.kind = "card" /\ r.entries = {}
    /\ r.at = "deriving" => Derives(r)
    /\ r.at = "served" /\ r.view # "identity" =>
          Derives(r) /\ r.left = {} /\ r.answer = composed(r)

ReadInv ==
    /\ read = [reader \in Readers |-> read[reader]]
    /\ \A reader \in Readers : IsReading(read[reader])

Inv == AdmissionInv /\ ReadInv

-----------------------------------------------------------------------------
(* What deciding a proposal establishes.                                   *)

LEMMA NothingObjected ==
    ASSUME NEW request, NEW cited, NEW width, NEW loaded,
           objections(request, cited, width, loaded) = {}
    PROVE  Answered(request, cited, width, {loaded[i] : i \in DOMAIN loaded})
<1> DEFINE answers == {loaded[i] : i \in DOMAIN loaded}
<1>1. citedPrecedents(loaded, cited)
  <2>1. "precedent_unavailable" \notin objections(request, cited, width, loaded)
    OBVIOUS
  <2> QED BY <2>1 DEF objections
<1>2. \A row \in answers :
         row.key.namespaceId = request.namespaceId /\ row.key.owner = request.owner
  <2>1. "precedent_not_this_owner" \notin objections(request, cited, width, loaded)
    OBVIOUS
  <2> QED BY <2>1 DEF objections
<1>3. width # None => \A row \in answers : row.outcome = "approved"
  <2>1. "allow_cites_refusal" \notin objections(request, cited, width, loaded)
    OBVIOUS
  <2> QED BY <2>1 DEF objections
<1>4. width # None => \A row \in answers : row.key.requester = request.requester
  <2>1. "precedent_not_this_requester" \notin objections(request, cited, width, loaded)
    OBVIOUS
  <2> QED BY <2>1 DEF objections
<1>5. width # None => \A row \in answers : areWithin(width, row.capabilities, request)
  <2>1. "wider_than_precedent" \notin objections(request, cited, width, loaded)
    OBVIOUS
  <2> QED BY <2>1 DEF objections
<1>6. width # None /\ matchKind(request, answers) = "fuzzy" =>
         areWithin(width, request.capabilities, request)
  <2>1. "wider_than_request" \notin objections(request, cited, width, loaded)
    OBVIOUS
  <2> QED BY <2>1 DEF objections
<1>7. {row.requestId : row \in answers} = cited
  BY <1>1 DEF citedPrecedents
<1> QED BY <1>2, <1>3, <1>4, <1>5, <1>6, <1>7 DEF Answered

LEMMA AnswerSupports ==
    ASSUME NEW p, IsProposal(p), p.at = "looking",
           \A row \in rows : IsRow(row),
           NEW loaded, \A i \in DOMAIN loaded : loaded[i] \in rows,
           objections(p.request, p.cited, p.width, loaded) = {},
           NEW constraints,
           p.width # None => constraints \in tightestEnvelope({loaded[i] : i \in DOMAIN loaded})
    PROVE  IsProposal(admitted(p, loaded, constraints)) /\ Supported(admitted(p, loaded, constraints))
<1> DEFINE q == admitted(p, loaded, constraints)
           answers == {loaded[i] : i \in DOMAIN loaded}
<1>1. isWhole(p)
  BY DEF IsProposal
<1>2. /\ q.at = "admitted" /\ q.request = p.request /\ q.cited = p.cited /\ q.width = p.width
      /\ q.loaded = loaded /\ q.constraints = constraints /\ isWhole(q)
  BY <1>1 DEF admitted, isWhole
<1> HIDE DEF q
<1>3. IsProposal(q)
  BY <1>2 DEF IsProposal
<1>4. Supported(q)
  <2>1. \A row \in answers : IsRow(row)
    OBVIOUS
  <2>2. answersTo(q) = answers
    BY <1>2 DEF answersTo
  <2>3. Answered(p.request, p.cited, p.width, answers)
    BY NothingObjected
  <2>4. p.width # None => constraints \in tightestEnvelope(answers)
    OBVIOUS
  <2> HIDE DEF answers
  <2> QED BY <1>2, <2>1, <2>2, <2>3, <2>4 DEF Supported
<1> QED BY <1>3, <1>4 DEF q

LEMMA RefusalIsProposal ==
    ASSUME NEW p, IsProposal(p), NEW reason
    PROVE  IsProposal(inadmissible(p, reason)) /\ inadmissible(p, reason).at = "inadmissible"
<1> DEFINE q == inadmissible(p, reason)
<1>1. isWhole(p)
  BY DEF IsProposal
<1>2. q.at = "inadmissible" /\ isWhole(q)
  BY <1>1 DEF inadmissible, isWhole
<1> HIDE DEF q
<1>3. IsProposal(q)
  BY <1>2 DEF IsProposal
<1> QED BY <1>2, <1>3 DEF q

LEMMA LookingIsProposal ==
    ASSUME NEW request, request.capabilities \subseteq Capability, NEW cited,
           NEW width \in Widths \cup {None}
    PROVE  LET p == [Undecided EXCEPT !.at = "looking", !.request = request, !.cited = cited,
                                      !.width = width]
           IN  IsProposal(p) /\ p.at = "looking"
<1> DEFINE p == [Undecided EXCEPT !.at = "looking", !.request = request, !.cited = cited,
                                  !.width = width]
<1>1. isWhole(Undecided)
  BY DEF isWhole, Undecided
<1>2. isWhole(p) /\ p.at = "looking" /\ p.request = request /\ p.width = width
  BY <1>1 DEF isWhole
<1> HIDE DEF p
<1>3. IsProposal(p)
  BY <1>2 DEF IsProposal
<1> QED BY <1>2, <1>3 DEF p

-----------------------------------------------------------------------------
(* The steps of admission.                                                 *)

(* A proposal that changes is the only one; one admitted never changes.    *)
LEMMA ProposalsKeep ==
    ASSUME ProposalsAreSupported, NEW m \in Matchers, proposal[m].at # "admitted",
           NEW p, IsProposal(p), p.at = "admitted" => Supported(p),
           proposal' = [proposal EXCEPT ![m] = p]
    PROVE  /\ ProposalsAreSupported'
           /\ \A grant : isAdmitted(grant) => isAdmitted(grant)'
<1>1. DOMAIN proposal = Matchers
  BY DEF ProposalsAreSupported
<1>2. /\ proposal'[m] = p
      /\ \A n \in Matchers \ {m} : proposal'[n] = proposal[n]
      /\ proposal' = [n \in Matchers |-> proposal'[n]]
  BY <1>1
<1>3. ProposalsAreSupported'
  BY <1>2 DEF ProposalsAreSupported
<1>4. ASSUME NEW grant, isAdmitted(grant) PROVE isAdmitted(grant)'
  <2>1. grant.id \in Matchers \ {m}
    BY <1>4 DEF isAdmitted
  <2> QED BY <1>2, <1>4, <2>1 DEF isAdmitted
<1> QED BY <1>3, <1>4

LEMMA AskedAreRequests ==
    ASSUME NEW context, Asks(context), \A request \in asked : request.capabilities \subseteq Capability
    PROVE  /\ \A request \in asked' : request.capabilities \subseteq Capability
           /\ UNCHANGED <<rows, proposal, store>>
<1>1. ASSUME NEW payload \in Payloads, recordEscalation(mintCapabilityRequest(context, payload))
      PROVE  /\ \A request \in asked' : request.capabilities \subseteq Capability
             /\ UNCHANGED <<rows, proposal, store>>
  BY <1>1, AdmissionAssumption DEF recordEscalation, mintCapabilityRequest
<1>2. ASSUME NEW requirement \in Requirements,
             recordEscalation(describeRequiredAuthority(context, requirement))
      PROVE  /\ \A request \in asked' : request.capabilities \subseteq Capability
             /\ UNCHANGED <<rows, proposal, store>>
  <2>1. requirement \in Requirement
    BY AdmissionAssumption
  <2>2. [namespace |-> requirement.namespace, path |-> requirement.path,
         owner |-> requirement.owner, actions |-> {requirement.action}, scope |-> "exact"]
           \in Capability
    BY <2>1 DEF Requirement, Capability
  <2>3. describeRequiredAuthority(context, requirement).capabilities \subseteq Capability
    BY <2>2 DEF describeRequiredAuthority, mintCapabilityRequest
  <2> QED BY <1>2, <2>3 DEF recordEscalation
<1> QED BY <1>1, <1>2 DEF Asks

LEMMA RecordedAreRows ==
    ASSUME \A request \in asked : request.capabilities \subseteq Capability,
           \A row \in rows : IsRow(row),
           NEW request \in asked, NEW answer \in Answers, Records(request, answer)
    PROVE  \A row \in rows' : IsRow(row)
<1>1. answer.narrower \subseteq Capability /\ answer.constraints \in Constraints
  BY AdmissionAssumption
<1>2. IsRow(rowOf(request, answer))
  BY <1>1 DEF IsRow, rowOf, precedentKey
<1> QED BY <1>2 DEF Records

LEMMA ProposalSteps ==
    ASSUME AdmissionInv, NEW m \in Matchers, Admits(m), ~IssuesAdmitted(m, 0)
    PROVE  /\ ProposalsAreSupported'
           /\ \A grant : isAdmitted(grant) => isAdmitted(grant)'
           /\ UNCHANGED <<asked, rows, store>>
<1> DEFINE p == proposal[m]
<1>1. ProposalsAreSupported /\ IsProposal(p)
  BY DEF AdmissionInv, ProposalsAreSupported
<1>2. ASSUME NEW request \in asked, NEW width \in Widths \cup {None}, NEW marked \in BOOLEAN,
             NEW cited \in SUBSET asked, Proposes(m, request, cited, width, marked)
      PROVE  /\ ProposalsAreSupported'
             /\ \A grant : isAdmitted(grant) => isAdmitted(grant)'
             /\ UNCHANGED <<asked, rows, store>>
  <2>1. PICK q : q = [Undecided EXCEPT !.at = "looking", !.request = request, !.cited = cited,
                                       !.width = width]
    OBVIOUS
  <2>2. IsProposal(q) /\ q.at = "looking"
    BY <2>1, LookingIsProposal DEF AdmissionInv
  <2>3. \/ proposal' = [proposal EXCEPT ![m] = q]
        \/ \E reason : proposal' = [proposal EXCEPT ![m] = inadmissible(q, reason)]
    BY <1>2, <2>1 DEF Proposes
  <2>4. UNCHANGED <<asked, rows, store>> /\ p.at # "admitted"
    BY <1>2 DEF Proposes
  <2> QED BY <1>1, <2>2, <2>3, <2>4, RefusalIsProposal, ProposalsKeep
<1>3. CASE LookupFails(m)
  <2>1. proposal' = [proposal EXCEPT ![m] = inadmissible(p, "precedent_unavailable")]
    BY <1>3 DEF LookupFails
  <2>2. UNCHANGED <<asked, rows, store>> /\ p.at # "admitted"
    BY <1>3 DEF LookupFails
  <2> QED BY <1>1, <2>1, <2>2, RefusalIsProposal, ProposalsKeep
<1>4. ASSUME NEW loaded \in answersOfLookup, LookupAnswers(m, loaded)
      PROVE  /\ ProposalsAreSupported'
             /\ \A grant : isAdmitted(grant) => isAdmitted(grant)'
             /\ UNCHANGED <<asked, rows, store>>
  <2>1. UNCHANGED <<asked, rows, store>> /\ p.at = "looking"
    BY <1>4 DEF LookupAnswers
  <2>2. ASSUME NEW reason, proposal' = [proposal EXCEPT ![m] = inadmissible(@, reason)]
        PROVE  /\ ProposalsAreSupported'
               /\ \A grant : isAdmitted(grant) => isAdmitted(grant)'
    <3>1. proposal' = [proposal EXCEPT ![m] = inadmissible(p, reason)]
      BY <2>2
    <3> QED BY <1>1, <2>1, <3>1, RefusalIsProposal, ProposalsKeep
  <2>3. ASSUME objections(p.request, p.cited, p.width, loaded) = {},
               NEW constraints,
               p.width # None => constraints \in tightestEnvelope({loaded[i] : i \in DOMAIN loaded}),
               proposal' = [proposal EXCEPT ![m] = admitted(@, loaded, constraints)]
        PROVE  /\ ProposalsAreSupported'
               /\ \A grant : isAdmitted(grant) => isAdmitted(grant)'
    <3>1. \A i \in DOMAIN loaded : loaded[i] \in rows
      BY DEF answersOfLookup
    <3>2. proposal' = [proposal EXCEPT ![m] = admitted(p, loaded, constraints)]
      BY <2>3
    <3>3. IsProposal(admitted(p, loaded, constraints)) /\ Supported(admitted(p, loaded, constraints))
      BY <1>1, <2>1, <2>3, <3>1, AnswerSupports DEF AdmissionInv
    <3> QED BY <1>1, <2>1, <3>2, <3>3, ProposalsKeep
  <2> QED BY <1>4, <2>1, <2>2, <2>3 DEF LookupAnswers
<1> QED BY <1>2, <1>3, <1>4 DEF Admits

-----------------------------------------------------------------------------
(* The envelope of an allow, and the store it is issued to.                *)

(* The tightest envelope is no looser than any answer it is made of, and   *)
(* is not passed on (tightestConstraints).                                 *)
LEMMA EnvelopeIsTight ==
    ASSUME NEW answers, \A row \in answers : IsRow(row),
           NEW constraints \in tightestEnvelope(answers)
    PROVE  /\ constraints.delegationDepth = 0
           /\ constraints.maxUses \in Nat \cup {None}
           /\ \A row \in answers :
                 /\ row.constraints.maxUses # None =>
                       constraints.maxUses <= row.constraints.maxUses
                 /\ \A purpose, now : now \in Int /\ boundsHold(constraints, purpose, now) =>
                       boundsHold(row.constraints, purpose, now)
<1> DEFINE sets == {row.constraints : row \in answers}
<1>1. PICK envelope \in tightestConstraints(sets) :
          constraints = [envelope EXCEPT !.delegationDepth = 0]
  BY DEF tightestEnvelope
<1>2. \A c \in sets : c \in Constraints
  BY DEF IsRow
<1> HIDE DEF sets
<1>3. /\ DOMAIN envelope = {"purposes", "notBefore", "expiresAt", "maxUses", "delegationDepth"}
      /\ envelope.notBefore \in boundsOf(declared(sets, "notBefore"))
      /\ envelope.expiresAt \in boundsOf(declared(sets, "expiresAt"))
      /\ envelope.maxUses \in boundsOf(declared(sets, "maxUses"))
      /\ declared(sets, "purposes") # {} =>
            envelope.purposes = {purpose \in UNION declared(sets, "purposes") :
                                    \A allowed \in declared(sets, "purposes") : purpose \in allowed}
  BY DEF tightestConstraints
<1>4. /\ \A at \in declared(sets, "notBefore") : Readable(at) /\ at <= envelope.notBefore
      /\ \A at \in declared(sets, "expiresAt") : Readable(at) /\ envelope.expiresAt <= at
      /\ \A uses \in declared(sets, "maxUses") : envelope.maxUses <= uses
  BY DEF tightestConstraints
<1>5. /\ constraints.delegationDepth = 0 /\ constraints.purposes = envelope.purposes
      /\ constraints.notBefore = envelope.notBefore /\ constraints.expiresAt = envelope.expiresAt
      /\ constraints.maxUses = envelope.maxUses
  BY <1>1, <1>3
<1>6. constraints.maxUses \in Nat \cup {None}
  BY <1>2, <1>3, <1>5 DEF boundsOf, declared, Constraints, Optional
<1>7. ASSUME NEW row \in answers
      PROVE  row.constraints \in sets /\ row.constraints \in Constraints
  BY <1>7 DEF sets, IsRow
<1>8. ASSUME NEW row \in answers, row.constraints.maxUses # None
      PROVE  constraints.maxUses <= row.constraints.maxUses
  <2>1. row.constraints.maxUses \in declared(sets, "maxUses")
    BY <1>7, <1>8 DEF declared
  <2> QED BY <1>4, <1>5, <2>1
<1>9. ASSUME NEW row \in answers, NEW purpose, NEW now \in Int,
             boundsHold(constraints, purpose, now)
      PROVE  boundsHold(row.constraints, purpose, now)
  <2> DEFINE c == row.constraints
  <2>1. /\ constraints.notBefore # None => constraints.notBefore \in Int /\ constraints.notBefore <= now
        /\ constraints.expiresAt # None => constraints.expiresAt \in Int /\ now < constraints.expiresAt
        /\ constraints.purposes # None => purpose \in constraints.purposes
    BY <1>9 DEF boundsHold, withinBounds, Readable
  <2>2. c \in sets /\ c \in Constraints
    BY <1>7
  <2>3. ASSUME c.notBefore # None PROVE Readable(c.notBefore) /\ c.notBefore <= now
    <3>1. c.notBefore \in declared(sets, "notBefore")
      BY <2>2, <2>3 DEF declared
    <3>2. Readable(c.notBefore) /\ c.notBefore <= constraints.notBefore /\ constraints.notBefore # None
      BY <1>3, <1>4, <1>5, <3>1 DEF boundsOf, declared
    <3> QED BY <2>1, <3>2 DEF Readable
  <2>4. ASSUME c.expiresAt # None PROVE Readable(c.expiresAt) /\ now < c.expiresAt
    <3>1. c.expiresAt \in declared(sets, "expiresAt")
      BY <2>2, <2>4 DEF declared
    <3>2. Readable(c.expiresAt) /\ constraints.expiresAt <= c.expiresAt /\ constraints.expiresAt # None
      BY <1>3, <1>4, <1>5, <3>1 DEF boundsOf, declared
    <3> QED BY <2>1, <3>2 DEF Readable
  <2>5. ASSUME c.purposes # None PROVE purpose \in c.purposes
    <3>1. c.purposes \in declared(sets, "purposes")
      BY <2>2, <2>5 DEF declared
    <3>2. declared(sets, "purposes") \subseteq SUBSET Purposes
      BY <1>2 DEF declared, Constraints, Optional
    <3>3. constraints.purposes \in SUBSET Purposes /\ \A x \in constraints.purposes : x \in c.purposes
      BY <1>3, <1>5, <3>1, <3>2
    <3> QED BY <2>1, <3>3, AdmissionAssumption
  <2> QED BY <2>3, <2>4, <2>5 DEF boundsHold, withinBounds, Readable
<1> QED BY <1>5, <1>6, <1>8, <1>9

LEMMA AStoredGrant ==
    ASSUME AdmissionInv, NEW grant \in issued
    PROVE  /\ grant.id \in GrantIds
           /\ grant.constraints.maxUses \in Nat \cup {None}
           /\ grant \notin HostGrants => grant.constraints.delegationDepth = 0
<1>1. CASE grant \in HostGrants
  BY <1>1, GrantStoreAssumption DEF Grant, Constraints, Optional
<1>2. CASE isAdmitted(grant)
  <2> DEFINE p == proposal[grant.id]
  <2>1. grant.id \in Matchers /\ Supported(p) /\ p.width # None /\ grant.constraints = p.constraints
    BY <1>2 DEF isAdmitted, AdmissionInv, ProposalsAreSupported
  <2> QED BY <2>1, EnvelopeIsTight, AdmissionAssumption DEF Supported
<1> QED BY <1>1, <1>2 DEF AdmissionInv

(* A grant that is not passed on supports no other: issuing it changes     *)
(* nothing about the grants there are.                                     *)
LEMMA IssuingChangesNoForce ==
    ASSUME NEW new, issued' = issued \cup {new}, new.constraints.delegationDepth = 0,
           NEW grant, NEW context
    PROVE  isInForce(grant, context)' <=> isInForce(grant, context)
<1>1. ~linkHolds(grant, new, context, instantsOf(context))
  BY DEF linkHolds, delegationPermitted, depthOf
<1>2. chainIsValid(grant, context)' <=> chainIsValid(grant, context)
  BY <1>1 DEF chainIsValid
<1> QED BY <1>2 DEF isInForce

LEMMA StoreSteps ==
    ASSUME AdmissionInv,
           \/ \E m \in Matchers : IssuesAdmitted(m, 0)
           \/ (\E grant \in issued : Spends(grant)) /\ UNCHANGED admissionVars
    PROVE  /\ AdmissionInv'
           /\ issued \subseteq issued'
           /\ \A grant \in issued : hasUses(grant)' => hasUses(grant)
           /\ \A grant, context : isInForce(grant, context)' <=> isInForce(grant, context)
<1>1. ASSUME NEW m \in Matchers, IssuesAdmitted(m, 0)
      PROVE  /\ AdmissionInv' /\ issued \subseteq issued'
             /\ \A grant \in issued : hasUses(grant)' => hasUses(grant)
             /\ \A grant, context : isInForce(grant, context)' <=> isInForce(grant, context)
  <2>1. PICK new : new = grantOf(m, 0)
    OBVIOUS
  <2>2. /\ issued' = issued \cup {new}
        /\ UNCHANGED <<used, asked, rows, proposal>>
        /\ proposal[m].at = "admitted" /\ proposal[m].width # None
    BY <1>1, <2>1 DEF IssuesAdmitted, Issues, admissionVars
  <2>3. /\ new.id = m /\ new.capabilities = proposal[m].width
        /\ new.constraints = proposal[m].constraints
    BY <2>1 DEF grantOf
  <2>4. isAdmitted(new)
    BY <2>2, <2>3 DEF isAdmitted
  <2>5. AdmissionInv'
    BY <2>2, <2>4 DEF AdmissionInv, ProposalsAreSupported, isAdmitted
  <2>6. new.constraints.delegationDepth = 0
    <3>1. Supported(proposal[m])
      BY <2>2 DEF AdmissionInv, ProposalsAreSupported
    <3> QED BY <2>2, <2>3, <3>1, EnvelopeIsTight DEF Supported
  <2>7. \A grant, context : isInForce(grant, context)' <=> isInForce(grant, context)
    BY <2>2, <2>6, IssuingChangesNoForce
  <2> QED BY <2>2, <2>5, <2>7 DEF hasUses
<1>2. ASSUME NEW spent \in issued, Spends(spent), UNCHANGED admissionVars
      PROVE  /\ AdmissionInv' /\ issued \subseteq issued'
             /\ \A grant \in issued : hasUses(grant)' => hasUses(grant)
             /\ \A grant, context : isInForce(grant, context)' <=> isInForce(grant, context)
  <2>1. UNCHANGED <<issued, asked, rows, proposal>> /\ used \in [GrantIds -> Nat]
    BY <1>2 DEF Spends, admissionVars, AdmissionInv
  <2>2. /\ used' \in [GrantIds -> Nat]
        /\ \A id \in GrantIds : used[id] <= used'[id]
    <3>1. spent.id \in GrantIds
      BY AStoredGrant
    <3>2. used' = [used EXCEPT ![spent.id] = used[spent.id] + 1]
      BY <1>2 DEF Spends
    <3>3. \A id \in GrantIds : used[id] \in Nat /\ used'[id] = IF id = spent.id THEN used[id] + 1 ELSE used[id]
      BY <2>1, <3>2
    <3>4. used' \in [GrantIds -> Nat]
      BY <2>1, <3>1, <3>2
    <3> QED BY <3>3, <3>4
  <2>3. AdmissionInv'
    BY <2>1, <2>2 DEF AdmissionInv, ProposalsAreSupported, isAdmitted
  <2>4. ASSUME NEW grant \in issued, hasUses(grant)' PROVE hasUses(grant)
    <3>1. grant.id \in GrantIds /\ grant.constraints.maxUses \in Nat \cup {None}
      BY AStoredGrant
    <3>2. used[grant.id] \in Nat /\ used'[grant.id] \in Nat
      BY <2>1, <2>2, <3>1
    <3> QED BY <2>2, <2>4, <3>1, <3>2 DEF hasUses
  <2>5. \A grant, context : isInForce(grant, context)' <=> isInForce(grant, context)
    BY <2>1 DEF isInForce, chainIsValid
  <2> QED BY <2>1, <2>3, <2>4, <2>5
<1> QED BY <1>1, <1>2

LEMMA AdmissionStarts == Init => AdmissionInv
<1> SUFFICES ASSUME Init PROVE AdmissionInv
  OBVIOUS
<1>1. IsProposal(Undecided) /\ Undecided.at = "none"
  BY DEF IsProposal, isWhole, Undecided
<1>2. ProposalsAreSupported
  BY <1>1 DEF Init, AdmissionInit, ProposalsAreSupported
<1> QED BY <1>2 DEF Init, AdmissionInit, StoreInit, AdmissionInv

(* What leads to a grant leaves the store and its grants as they are.      *)
LEMMA ConsentSteps ==
    ASSUME AdmissionInv, Consents
    PROVE  /\ AdmissionInv'
           /\ issued \subseteq issued'
           /\ \A grant \in issued : hasUses(grant)' => hasUses(grant)
           /\ \A grant, context : isInForce(grant, context)' <=> isInForce(grant, context)
<1>1. ASSUME UNCHANGED store
      PROVE  /\ issued \subseteq issued'
             /\ \A grant \in issued : hasUses(grant)' => hasUses(grant)
             /\ \A grant, context : isInForce(grant, context)' <=> isInForce(grant, context)
  BY <1>1 DEF store, hasUses, isInForce, chainIsValid
<1>2. ASSUME NEW context \in Contexts, Asks(context)
      PROVE  AdmissionInv' /\ UNCHANGED store
  <2>1. /\ \A request \in asked' : request.capabilities \subseteq Capability
        /\ UNCHANGED <<rows, proposal, store>>
    BY <1>2, AskedAreRequests DEF AdmissionInv
  <2> QED BY <2>1 DEF AdmissionInv, ProposalsAreSupported, isAdmitted, store
<1>3. ASSUME NEW request \in asked, NEW answer \in Answers, Records(request, answer)
      PROVE  AdmissionInv' /\ UNCHANGED store
  <2>1. \A row \in rows' : IsRow(row)
    BY <1>3, RecordedAreRows DEF AdmissionInv
  <2>2. UNCHANGED <<asked, proposal, store>>
    BY <1>3 DEF Records
  <2> QED BY <2>1, <2>2 DEF AdmissionInv, ProposalsAreSupported, isAdmitted, store
<1>4. ASSUME NEW m \in Matchers, Admits(m), ~IssuesAdmitted(m, 0)
      PROVE  AdmissionInv' /\ UNCHANGED store
  <2>1. /\ ProposalsAreSupported'
        /\ \A grant : isAdmitted(grant) => isAdmitted(grant)'
        /\ UNCHANGED <<asked, rows, store>>
    BY <1>4, ProposalSteps
  <2> QED BY <2>1 DEF AdmissionInv, store
<1> QED BY <1>1, <1>2, <1>3, <1>4, StoreSteps DEF Consents

-----------------------------------------------------------------------------
(* Reads under way.                                                        *)

LEMMA ReadingSurvives ==
    ASSUME NEW CONSTANT r, IsReading(r),
           issued \subseteq issued',
           \A grant \in issued : hasUses(grant)' => hasUses(grant),
           \A grant, context : isInForce(grant, context)' <=> isInForce(grant, context)
    PROVE  IsReading(r)'
<1>1. ASSUME Derives(r) PROVE Derives(r)'
  <2>1. r.loaded \subseteq issued /\ r.left \subseteq r.loaded /\ r.spent \subseteq r.loaded
    BY <1>1 DEF Derives
  <2>2. \A grant \in r.spent : ~hasUses(grant)'
    BY <1>1, <2>1 DEF Derives
  <2>3. \A entry \in r.entries : \E grant \in r.loaded \ r.spent :
           isInForce(grant, r.context)' /\ entry \in entriesOf(grant, r.context)
    BY <1>1 DEF Derives
  <2>4. \A grant \in r.loaded \ (r.left \cup r.passedOver) :
           isInForce(grant, r.context)' /\ hasUses(grant)' =>
              entriesOf(grant, r.context) \subseteq r.entries
    BY <1>1, <2>1 DEF Derives
  <2> QED BY <1>1, <2>1, <2>2, <2>3, <2>4 DEF Derives
<1> QED BY <1>1 DEF IsReading

LEMMA ReadsSurvive ==
    ASSUME ReadInv, UNCHANGED read,
           issued \subseteq issued',
           \A grant \in issued : hasUses(grant)' => hasUses(grant),
           \A grant, context : isInForce(grant, context)' <=> isInForce(grant, context)
    PROVE  ReadInv'
<1>1. ASSUME NEW reader \in Readers PROVE IsReading(read[reader])'
  <2>1. PICK r : r = read[reader]
    OBVIOUS
  <2>2. IsReading(r)'
    BY <2>1, ReadingSurvives DEF ReadInv
  <2> QED BY <2>1, <2>2
<1> QED BY <1>1 DEF ReadInv

LEMMA ReadsKeep ==
    ASSUME ReadInv, NEW reader \in Readers, NEW CONSTANT r, IsReading(r),
           UNCHANGED store, read' = [read EXCEPT ![reader] = r]
    PROVE  ReadInv'
<1>1. /\ issued \subseteq issued'
      /\ \A grant \in issued : hasUses(grant)' => hasUses(grant)
      /\ \A grant, context : isInForce(grant, context)' <=> isInForce(grant, context)
  BY DEF store, hasUses, isInForce, chainIsValid
<1>2. DOMAIN read = Readers
  BY DEF ReadInv
<1>3. ASSUME NEW other \in Readers PROVE IsReading(read[other])'
  <2>1. PICK s : s = read'[other]
    OBVIOUS
  <2>2. s = r \/ s = read[other]
    BY <1>2, <2>1
  <2>3. IsReading(s)
    BY <2>2 DEF ReadInv
  <2>4. IsReading(s)'
    BY <1>1, <2>3, ReadingSurvives
  <2> QED BY <2>1, <2>4
<1>4. read' = [other \in Readers |-> read'[other]]
  BY <1>2
<1> QED BY <1>3, <1>4 DEF ReadInv

(* A reach begins with everything yet to consider.                         *)
LEMMA DerivingIsReading ==
    ASSUME NEW r, isReadRecord(r), r.kind \in {"turn", "card"}, r.entries = {}, NEW context
    PROVE  IsReading(deriving(r, context))
<1> DEFINE d == deriving(r, context)
           grants == grantsOf(context)
<1>1. /\ isReadRecord(d) /\ d.at = "deriving" /\ d.kind = r.kind /\ d.context = context
      /\ d.loaded = grants /\ d.left = grants /\ d.spent = spentOf(grants) /\ d.entries = {}
  BY DEF deriving, isReadRecord
<1>2. grants \subseteq issued
  BY DEF grantsOf
<1> HIDE DEF d, grants
<1>3. Derives(d)
  BY <1>1, <1>2 DEF Derives, spentOf
<1>4. IsReading(d)
  BY <1>1, <1>3 DEF IsReading
<1> QED BY <1>4 DEF d

LEMMA RefusedIsReading ==
    ASSUME NEW r, isReadRecord(r), NEW servable
    PROVE  IsReading(refused(r, servable))
<1>1. isReadRecord(refused(r, servable)) /\ refused(r, servable).at = "refused"
  BY DEF refused, isReadRecord
<1> QED BY <1>1 DEF IsReading

LEMMA ConsideredIsReading ==
    ASSUME AdmissionInv, NEW r, IsReading(r), r.at = "deriving", NEW grant \in r.left
    PROVE  IsReading(considered(r, grant))
<1> DEFINE d == considered(r, grant)
           opened == isInForce(grant, r.context) /\ hasUses(grant)
           adding == IF opened THEN r.entries \cup entriesOf(grant, r.context) ELSE r.entries
<1>1. isReadRecord(r) /\ Derives(r)
  BY DEF IsReading
<1>2. /\ isReadRecord(d) /\ d.at = "deriving" /\ d.kind = r.kind /\ d.context = r.context
      /\ d.loaded = r.loaded /\ d.left = r.left \ {grant} /\ d.spent = r.spent
      /\ d.passedOver = r.passedOver /\ d.entries = adding
  BY <1>1 DEF considered, isReadRecord
<1> HIDE DEF d
<1>3. \A entry \in adding : \E g \in r.loaded \ r.spent :
         isInForce(g, r.context) /\ entry \in entriesOf(g, r.context)
  <2>1. opened => grant \in r.loaded \ r.spent
    BY <1>1 DEF Derives
  <2> QED BY <1>1, <2>1 DEF Derives
<1>4. \A g \in r.loaded \ ((r.left \ {grant}) \cup r.passedOver) :
         isInForce(g, r.context) /\ hasUses(g) => entriesOf(g, r.context) \subseteq adding
  BY <1>1 DEF Derives
<1>5. Derives(d)
  BY <1>1, <1>2, <1>3, <1>4 DEF Derives
<1>6. IsReading(d)
  BY <1>2, <1>5 DEF IsReading
<1> QED BY <1>6 DEF d

LEMMA PassedOverIsReading ==
    ASSUME NEW r, IsReading(r), r.at = "deriving", NEW grant \in r.left
    PROVE  IsReading(skipped(r, grant))
<1> DEFINE d == skipped(r, grant)
<1>1. isReadRecord(r) /\ Derives(r)
  BY DEF IsReading
<1>2. /\ isReadRecord(d) /\ d.at = "deriving" /\ d.kind = r.kind /\ d.context = r.context
      /\ d.loaded = r.loaded /\ d.left = r.left \ {grant} /\ d.spent = r.spent
      /\ d.passedOver = r.passedOver \cup {grant} /\ d.entries = r.entries
  BY <1>1 DEF skipped, isReadRecord
<1> HIDE DEF d
<1>3. r.loaded \ (d.left \cup d.passedOver) \subseteq r.loaded \ (r.left \cup r.passedOver)
  BY <1>2
<1>4. Derives(d)
  BY <1>1, <1>2, <1>3 DEF Derives
<1>5. IsReading(d)
  BY <1>2, <1>4 DEF IsReading
<1> QED BY <1>5 DEF d

LEMMA ServedIsReading ==
    ASSUME NEW r, IsReading(r), r.at = "deriving", r.left = {}
    PROVE  IsReading(served(r))
<1> DEFINE d == served(r)
<1>1. isReadRecord(r) /\ Derives(r)
  BY DEF IsReading
<1>2. /\ isReadRecord(d) /\ d.at = "served" /\ d.kind = r.kind /\ d.context = r.context
      /\ d.view = r.view /\ d.loaded = r.loaded /\ d.left = r.left /\ d.spent = r.spent
      /\ d.passedOver = r.passedOver /\ d.entries = r.entries /\ d.answer = composed(r)
  BY <1>1 DEF served, isReadRecord
<1> HIDE DEF d
<1>3. Derives(d) /\ d.answer = composed(d)
  BY <1>1, <1>2 DEF Derives, composed
<1>4. IsReading(d)
  BY <1>2, <1>3 DEF IsReading
<1> QED BY <1>4 DEF d

LEMMA ReadSteps ==
    ASSUME AdmissionInv, ReadInv, NEW reader \in Readers, Reads(reader)
    PROVE  ReadInv' /\ UNCHANGED store
<1>1. PICK r : r = read[reader]
  OBVIOUS
<1>2. IsReading(r) /\ isReadRecord(r) /\ DOMAIN read = Readers
  BY <1>1 DEF ReadInv, IsReading
<1>3. isReadRecord(NoRead) /\ NoRead.entries = {}
  BY DEF NoRead, isReadRecord
<1>4. ASSUME NEW context \in ReadContexts, ReadsReach(reader, context)
      PROVE  ReadInv' /\ UNCHANGED store
  <2>1. PICK begun : begun = [NoRead EXCEPT !.kind = "turn"]
    OBVIOUS
  <2>2. isReadRecord(begun) /\ begun.kind = "turn" /\ begun.entries = {}
    BY <1>3, <2>1 DEF isReadRecord
  <2>3. PICK next : /\ next = deriving(begun, context) \/ next = refused(begun, {})
                    /\ read' = [read EXCEPT ![reader] = next]
    BY <1>4, <2>1 DEF ReadsReach
  <2>4. IsReading(next)
    BY <2>2, <2>3, DerivingIsReading, RefusedIsReading
  <2> QED BY <1>4, <2>3, <2>4, ReadsKeep DEF ReadsReach
<1>5. ASSUME NEW context \in ReadContexts, NEW subject \in Subjects, NEW view \in Views,
             ReadsCard(reader, context, subject, view)
      PROVE  ReadInv' /\ UNCHANGED store
  <2>1. PICK begun : begun = [NoRead EXCEPT !.kind = "card", !.context = context,
                                            !.subject = subject, !.view = view]
    OBVIOUS
  <2>2. isReadRecord(begun) /\ begun.kind = "card" /\ begun.entries = {}
    BY <1>3, <2>1 DEF isReadRecord
  <2>3. PICK next : /\ \/ next = [begun EXCEPT !.at = "admitted"]
                       \/ \E servable : next = refused(begun, servable)
                    /\ read' = [read EXCEPT ![reader] = next]
    BY <1>5, <2>1 DEF ReadsCard
  <2>4. ASSUME next = [begun EXCEPT !.at = "admitted"] PROVE IsReading(next)
    <3>1. isReadRecord(next) /\ next.at = "admitted" /\ next.kind = "card" /\ next.entries = {}
      BY <2>2, <2>4 DEF isReadRecord
    <3> QED BY <3>1 DEF IsReading
  <2>5. IsReading(next)
    BY <2>2, <2>3, <2>4, RefusedIsReading
  <2> QED BY <1>5, <2>3, <2>5, ReadsKeep DEF ReadsCard
<1>6. CASE ServesIdentity(reader)
  <2>1. PICK next : next = [r EXCEPT !.at = "served", !.answer = {}]
    OBVIOUS
  <2>2. isReadRecord(next) /\ next.at = "served" /\ next.view = r.view
    BY <1>2, <2>1 DEF isReadRecord
  <2>3. r.view = "identity" /\ read' = [read EXCEPT ![reader] = next] /\ UNCHANGED store
    BY <1>1, <1>6, <2>1 DEF ServesIdentity
  <2>4. IsReading(next)
    BY <2>2, <2>3 DEF IsReading
  <2> QED BY <2>3, <2>4, ReadsKeep
<1>7. CASE LoadsSubject(reader)
  <2>1. r.kind = "card" /\ r.entries = {}
    BY <1>1, <1>2, <1>7 DEF LoadsSubject, IsReading
  <2>2. PICK next : /\ next = deriving(r, subjectCardContext(r.context, r.subject)) \/ next = refused(r, {})
                    /\ read' = [read EXCEPT ![reader] = next]
    BY <1>1, <1>7 DEF LoadsSubject
  <2>3. IsReading(next)
    BY <1>2, <2>1, <2>2, DerivingIsReading, RefusedIsReading
  <2> QED BY <1>7, <2>2, <2>3, ReadsKeep DEF LoadsSubject
<1>8. ASSUME NEW servable, read' = [read EXCEPT ![reader] = refused(r, servable)], UNCHANGED store
      PROVE  ReadInv' /\ UNCHANGED store
  BY <1>2, <1>8, RefusedIsReading, ReadsKeep
<1>9. CASE LoadFails(reader)
  BY <1>1, <1>8, <1>9 DEF LoadFails
<1>10. ASSUME NEW grant \in read[reader].left, Considers(reader, grant)
       PROVE  ReadInv' /\ UNCHANGED store
  <2>1. PICK next : next = considered(r, grant)
    OBVIOUS
  <2>2. IsReading(next)
    BY <1>1, <1>2, <1>10, <2>1, ConsideredIsReading DEF Considers
  <2> QED BY <1>1, <1>10, <2>1, <2>2, ReadsKeep DEF Considers
<1>11. ASSUME NEW grant \in read[reader].left, BudgetUnreadable(reader, grant)
       PROVE  ReadInv' /\ UNCHANGED store
  BY <1>1, <1>8, <1>11 DEF BudgetUnreadable, unreadable
<1>12. ASSUME NEW grant \in read[reader].left, CheckFails(reader, grant)
       PROVE  ReadInv' /\ UNCHANGED store
  <2>1. PICK next : next = skipped(r, grant)
    OBVIOUS
  <2>2. IsReading(next)
    BY <1>1, <1>2, <1>12, <2>1, PassedOverIsReading DEF CheckFails
  <2> QED BY <1>1, <1>12, <2>1, <2>2, ReadsKeep DEF CheckFails
<1>13. CASE Serves(reader)
  <2>1. PICK next : next = served(r)
    OBVIOUS
  <2>2. IsReading(next)
    BY <1>1, <1>2, <1>13, <2>1, ServedIsReading DEF Serves
  <2> QED BY <1>1, <1>13, <2>1, <2>2, ReadsKeep DEF Serves
<1> QED
  BY <1>4, <1>5, <1>6, <1>7, <1>9, <1>10, <1>11, <1>12, <1>13 DEF Reads

-----------------------------------------------------------------------------
(* The invariant of the store and of all that is read from it.             *)

LEMMA ReadsStart == Init => ReadInv
<1>1. IsReading(NoRead)
  BY DEF IsReading, isReadRecord, NoRead
<1> QED BY <1>1 DEF Init, CardsInit, ReadInv

LEMMA StepKeepsInv == Inv /\ [Next]_vars => Inv'
<1> SUFFICES ASSUME Inv, [Next]_vars PROVE Inv'
  OBVIOUS
<1>1. ASSUME UNCHANGED admissionVars, UNCHANGED store PROVE AdmissionInv'
  BY <1>1 DEF Inv, AdmissionInv, ProposalsAreSupported, isAdmitted, admissionVars, store
<1>2. CASE Consents /\ UNCHANGED read
  BY <1>2, ConsentSteps, ReadsSurvive DEF Inv
<1>3. CASE (\E m \in Matchers : IssuesAdmitted(m, 0)) /\ UNCHANGED read
  BY <1>3, StoreSteps, ReadsSurvive DEF Inv
<1>4. CASE (\E reader \in Readers : Reads(reader)) /\ UNCHANGED admissionVars
  BY <1>1, <1>4, ReadSteps DEF Inv
<1>5. CASE (\E grant \in issued : Spends(grant)) /\ UNCHANGED <<admissionVars, read>>
  BY <1>5, StoreSteps, ReadsSurvive DEF Inv
<1>6. CASE UNCHANGED vars
  <2>1. UNCHANGED admissionVars /\ UNCHANGED store /\ UNCHANGED read
    BY <1>6 DEF vars
  <2>2. /\ issued \subseteq issued'
        /\ \A grant \in issued : hasUses(grant)' => hasUses(grant)
        /\ \A grant, context : isInForce(grant, context)' <=> isInForce(grant, context)
    BY <2>1 DEF store, hasUses, isInForce, chainIsValid
  <2> QED BY <1>1, <2>1, <2>2, ReadsSurvive DEF Inv
<1> QED BY <1>2, <1>3, <1>4, <1>5, <1>6 DEF Next

(* What is admitted stays supported by the answers it was decided on, and  *)
(* what is read stays made of what was loaded (admitAutoDecision, reach).  *)
THEOREM InductiveInvariant == Spec => []Inv
<1>1. Init => Inv
  BY AdmissionStarts, ReadsStart DEF Inv
<1> QED BY <1>1, StepKeepsInv, PTL DEF Spec

-----------------------------------------------------------------------------
(* An allow is no wider than the answers it cites.                         *)

LEMMA PathsCompose ==
    ASSUME NEW a \in Seq(Segments), NEW b \in Seq(Segments), NEW c \in Seq(Segments),
           pathIsWithin(a, b), pathIsWithin(b, c)
    PROVE  pathIsWithin(a, c)
<1>1. Len(a) \in Nat /\ Len(b) \in Nat /\ Len(c) \in Nat
  OBVIOUS
<1>2. Len(a) <= Len(b) /\ Len(b) <= Len(c)
  BY DEF pathIsWithin
<1>3. \A i \in 1..Len(a) : i \in 1..Len(b) /\ a[i] = b[i] /\ b[i] = c[i]
  BY <1>1, <1>2 DEF pathIsWithin
<1> QED BY <1>1, <1>2, <1>3 DEF pathIsWithin

(* Being within is about what is permitted (capabilityIsWithin).           *)
LEMMA WithinPermits ==
    ASSUME NEW context, NEW use \in Requirement,
           NEW width \in SUBSET Capability, NEW allowed \in SUBSET Capability,
           areWithin(width, allowed, context), permits(width, use, context)
    PROVE  permits(allowed, use, context)
<1>1. PICK capability \in width : capabilityMatches(capability, use, context)
  BY DEF permits
<1>2. PICK other \in allowed : capabilityIsWithin(capability, other, context)
  BY <1>1 DEF areWithin
<1>3. concernsSameResource(other, use, context)
  BY <1>1, <1>2 DEF capabilityIsWithin, capabilityMatches, concernsSameResource
<1>4. /\ capability.path \in Seq(Segments) /\ other.path \in Seq(Segments)
      /\ use.path \in Seq(Segments)
  BY <1>1, <1>2 DEF Capability, Requirement
<1>5. CASE other.scope = "exact"
  BY <1>1, <1>2, <1>3, <1>5 DEF capabilityIsWithin, pathCovered, capabilityMatches, permits
<1>6. CASE other.scope # "exact"
  <2>1. pathIsWithin(other.path, capability.path)
    BY <1>2, <1>6 DEF capabilityIsWithin, pathCovered
  <2>2. pathIsWithin(capability.path, use.path) \/ capability.path = use.path
    BY <1>1 DEF capabilityMatches
  <2>3. pathIsWithin(other.path, use.path)
    BY <1>4, <2>1, <2>2, PathsCompose
  <2> QED BY <1>2, <1>3, <1>6, <2>3 DEF capabilityMatches, permits
<1> QED BY <1>5, <1>6

(* Whose an unowned resource is, is all that a context decides.            *)
LEMMA OwnerDecides ==
    ASSUME NEW one, NEW other, one.owner = other.owner, NEW capabilities
    PROVE  /\ \A use : permits(capabilities, use, one) <=> permits(capabilities, use, other)
           /\ \A allowed : areWithin(capabilities, allowed, one) => areWithin(capabilities, allowed, other)
<1>1. \A resource : resolvedOwner(resource, one) = resolvedOwner(resource, other)
  BY DEF resolvedOwner
<1> QED BY <1>1 DEF permits, areWithin, capabilityMatches, concernsSameResource, capabilityIsWithin

(* What an admitted allow is to each answer it cites.                      *)
LEMMA AllowIsWithinAnswers ==
    ASSUME AdmissionInv, NEW m \in Matchers, proposal[m].at = "admitted",
           proposal[m].width # None,
           NEW row \in answersTo(proposal[m])
    PROVE  /\ areWithin(proposal[m].width, row.capabilities, row.key)
           /\ row.constraints.maxUses # None =>
                 proposal[m].constraints.maxUses <= row.constraints.maxUses
           /\ \A use \in Requirement, now \in Int : \A purpose :
                 allows(proposal[m].width, proposal[m].constraints, proposal[m].request,
                        use, purpose, now) =>
                    allows(row.capabilities, row.constraints, row.key, use, purpose, now)
<1> DEFINE p == proposal[m]
<1>1. Supported(p) /\ p.width \in SUBSET Capability
  BY AdmissionAssumption DEF AdmissionInv, ProposalsAreSupported, IsProposal
<1>2. /\ IsRow(row) /\ row.key.owner = p.request.owner
      /\ areWithin(p.width, row.capabilities, p.request)
  BY <1>1 DEF Supported, Answered
<1>3. areWithin(p.width, row.capabilities, row.key)
  BY <1>2, OwnerDecides
<1>4. p.constraints \in tightestEnvelope(answersTo(p)) /\ \A r \in answersTo(p) : IsRow(r)
  BY <1>1 DEF Supported
<1>5. /\ row.constraints.maxUses # None => p.constraints.maxUses <= row.constraints.maxUses
      /\ \A purpose, now : now \in Int /\ boundsHold(p.constraints, purpose, now) =>
            boundsHold(row.constraints, purpose, now)
  BY <1>4, EnvelopeIsTight
<1>6. ASSUME NEW use \in Requirement, permits(p.width, use, p.request)
      PROVE  permits(row.capabilities, use, row.key)
  <2>1. permits(row.capabilities, use, p.request)
    BY <1>1, <1>2, <1>6, WithinPermits DEF IsRow
  <2> QED BY <1>2, <2>1, OwnerDecides
<1> QED BY <1>3, <1>5, <1>6 DEF allows

(* An auto-decision rests on an answer to every request it cites, and the  *)
(* grant it leads to is no wider than any of them: in what it permits,     *)
(* when, for what and how often (admitAutoDecision, R2 and R3).            *)
THEOREM AllowsRestOnAnswers == Spec => []AllowRestsOnEveryAnswer
<1>1. Inv => AllowRestsOnEveryAnswer
  <2> SUFFICES ASSUME AdmissionInv PROVE AllowRestsOnEveryAnswer
    BY DEF Inv
  <2>1. ASSUME NEW m \in Matchers, proposal[m].at = "admitted",
               NEW request \in proposal[m].cited
        PROVE  \E i \in DOMAIN proposal[m].loaded :
                  /\ proposal[m].loaded[i] \in answersTo(proposal[m])
                  /\ proposal[m].loaded[i].requestId = request
    <3>1. {row.requestId : row \in answersTo(proposal[m])} = proposal[m].cited
      BY <2>1 DEF AdmissionInv, ProposalsAreSupported, Supported, Answered
    <3>2. PICK row \in answersTo(proposal[m]) : row.requestId = request
      BY <2>1, <3>1
    <3> QED BY <3>2 DEF answersTo
  <2>2. ASSUME NEW grant \in issued, grant.id \notin {other.id : other \in HostGrants}
        PROVE  /\ readAutoDecided(grant) # {}
               /\ \A decision \in readAutoDecided(grant) : \A request \in decision.citedRequestIds :
                     \E i \in DOMAIN proposal[grant.id].loaded :
                        LET row == proposal[grant.id].loaded[i] IN
                        row.requestId = request /\ areWithin(grant.capabilities, row.capabilities, row.key)
    <3>1. isAdmitted(grant)
      BY <2>2 DEF AdmissionInv
    <3>2. /\ grant.id \in Matchers /\ proposal[grant.id].at = "admitted"
          /\ proposal[grant.id].width # None /\ grant.capabilities = proposal[grant.id].width
      BY <3>1 DEF isAdmitted
    <3>3. /\ readAutoDecided(grant) = {autoDecided(grant.id)}
          /\ autoDecided(grant.id).citedRequestIds = proposal[grant.id].cited
      BY <3>2 DEF readAutoDecided, autoDecided
    <3>4. ASSUME NEW request \in proposal[grant.id].cited
          PROVE  \E i \in DOMAIN proposal[grant.id].loaded :
                    /\ proposal[grant.id].loaded[i].requestId = request
                    /\ areWithin(grant.capabilities, proposal[grant.id].loaded[i].capabilities,
                                 proposal[grant.id].loaded[i].key)
      BY <2>1, <3>2, <3>4, AllowIsWithinAnswers
    <3> QED BY <3>3, <3>4
  <2>3. ASSUME NEW m \in Matchers, proposal[m].at = "admitted",
               NEW request \in proposal[m].cited
        PROVE  \E i \in DOMAIN proposal[m].loaded :
                  LET p == proposal[m]
                      row == p.loaded[i] IN
                  /\ row.requestId = request
                  /\ row.key.namespaceId = p.request.namespaceId
                  /\ row.key.owner = p.request.owner
                  /\ p.width # None =>
                        /\ row.outcome = "approved"
                        /\ row.key.requester = p.request.requester
                        /\ row.constraints.maxUses # None =>
                               p.constraints.maxUses <= row.constraints.maxUses
                        /\ \A use \in Uses, purpose \in Purposes, now \in Instants :
                              allows(p.width, p.constraints, p.request, use, purpose, now) =>
                                  allows(row.capabilities, row.constraints, row.key,
                                         use, purpose, now)
    <3> DEFINE p == proposal[m]
    <3>1. PICK i \in DOMAIN p.loaded : p.loaded[i] \in answersTo(p) /\ p.loaded[i].requestId = request
      BY <2>3, <2>1
    <3> DEFINE row == p.loaded[i]
    <3>2. /\ row.key.namespaceId = p.request.namespaceId /\ row.key.owner = p.request.owner
          /\ p.width # None => row.outcome = "approved" /\ row.key.requester = p.request.requester
      BY <2>3, <3>1 DEF AdmissionInv, ProposalsAreSupported, Supported, Answered
    <3>3. ASSUME p.width # None
          PROVE  /\ row.constraints.maxUses # None =>
                        p.constraints.maxUses <= row.constraints.maxUses
                 /\ \A use \in Uses, purpose \in Purposes, now \in Instants :
                       allows(p.width, p.constraints, p.request, use, purpose, now) =>
                          allows(row.capabilities, row.constraints, row.key, use, purpose, now)
      <4>1. /\ row.constraints.maxUses # None =>
                  p.constraints.maxUses <= row.constraints.maxUses
            /\ \A use \in Requirement, now \in Int : \A purpose :
                  allows(p.width, p.constraints, p.request, use, purpose, now) =>
                     allows(row.capabilities, row.constraints, row.key, use, purpose, now)
        BY <2>3, <3>1, <3>3, AllowIsWithinAnswers
      <4>2. Uses \subseteq Requirement /\ Instants \subseteq Int
        BY GrantStoreAssumption, AdmissionAssumption
      <4>3. ASSUME NEW use \in Uses, NEW purpose \in Purposes, NEW now \in Instants,
                   allows(p.width, p.constraints, p.request, use, purpose, now)
            PROVE  allows(row.capabilities, row.constraints, row.key, use, purpose, now)
        <5>1. use \in Requirement /\ now \in Int
          BY <4>2
        <5> QED BY ONLY <4>1, <4>3, <5>1
      <4> QED BY ONLY <4>1, <4>3
    <3> QED BY <3>1, <3>2, <3>3
  <2> QED BY <2>2, <2>3 DEF AllowRestsOnEveryAnswer
<1> QED BY <1>1, InductiveInvariant, PTL

-----------------------------------------------------------------------------
(* Resemblance narrows.                                                    *)

(* Equal digests are equal questions: the same things asked for, whoever's *)
(* they are written as (precedentKeyDigest).                               *)
LEMMA SameDigestPermits ==
    ASSUME NEW one, NEW other, one.owner = other.owner,
           one.capabilities \subseteq Capability, other.capabilities \subseteq Capability,
           {[c EXCEPT !.owner = resolvedOwner(c, one)] : c \in one.capabilities}
              \subseteq {[c EXCEPT !.owner = resolvedOwner(c, other)] : c \in other.capabilities},
           NEW use, permits(one.capabilities, use, one)
    PROVE  permits(other.capabilities, use, other)
<1>1. PICK c \in one.capabilities : capabilityMatches(c, use, one)
  BY DEF permits
<1>2. PICK d \in other.capabilities :
         [c EXCEPT !.owner = resolvedOwner(c, one)] = [d EXCEPT !.owner = resolvedOwner(d, other)]
  BY <1>1
<1>3. /\ c.namespace = d.namespace /\ c.path = d.path /\ c.actions = d.actions
      /\ c.scope = d.scope /\ resolvedOwner(c, one) = resolvedOwner(d, other)
  BY <1>2 DEF Capability
<1>4. resolvedOwner(use, one) = resolvedOwner(use, other)
  BY DEF resolvedOwner
<1>5. capabilityMatches(d, use, other)
  BY <1>1, <1>3, <1>4 DEF capabilityMatches, concernsSameResource
<1> QED BY <1>5 DEF permits

LEMMA SameQuestionIsAsked ==
    ASSUME NEW request, request.capabilities \subseteq Capability,
           NEW row, IsRow(row), isSameQuestion(request, row)
    PROVE  asksForTheSame(request, row.key)
<1> DEFINE key == precedentKey(request)
           mine == {[c EXCEPT !.owner = resolvedOwner(c, key)] : c \in key.capabilities}
           theirs == {[c EXCEPT !.owner = resolvedOwner(c, row.key)] : c \in row.key.capabilities}
<1>1. /\ DOMAIN key = {"namespaceId", "owner", "requester", "purpose", "capabilities"}
      /\ key.owner = request.owner /\ key.purpose = request.purpose
      /\ key.capabilities = request.capabilities
  BY DEF precedentKey
<1>2. [row.key EXCEPT !.capabilities = theirs] = [key EXCEPT !.capabilities = mine]
  BY DEF isSameQuestion, precedentKeyDigest
<1> HIDE DEF mine, theirs, key
<1>3. row.key.owner = key.owner /\ row.key.purpose = key.purpose /\ theirs = mine
  BY <1>1, <1>2 DEF IsRow
<1>4. \A use : permits(key.capabilities, use, key) <=> permits(row.key.capabilities, use, row.key)
  <2>1. key.capabilities \subseteq Capability /\ row.key.capabilities \subseteq Capability
    BY <1>1 DEF IsRow
  <2>2. mine \subseteq theirs /\ theirs \subseteq mine
    BY <1>3
  <2> QED BY <1>3, <2>1, <2>2, SameDigestPermits DEF mine, theirs
<1>5. \A use : permits(request.capabilities, use, request) <=> permits(key.capabilities, use, key)
  BY <1>1, OwnerDecides
<1> QED BY <1>1, <1>3, <1>4, <1>5 DEF asksForTheSame

(* With one cited answer that was to another question, what is allowed is  *)
(* also within what this request asks for, and the record says so          *)
(* (matchKind, R1; autoDecisionAuditEvent).                                *)
THEOREM ResemblanceNarrows == Spec => []NarrowedUnlessSameQuestion
<1>1. Inv => NarrowedUnlessSameQuestion
  <2> SUFFICES ASSUME AdmissionInv, NEW m \in Matchers,
                      proposal[m].at = "admitted", proposal[m].width # None,
                      NEW i \in DOMAIN proposal[m].loaded,
                      ~asksForTheSame(proposal[m].request, proposal[m].loaded[i].key)
               PROVE  /\ autoDecisionAuditEvent(m).reason = "auto_allow_narrowed"
                      /\ \A use \in Uses :
                            permits(proposal[m].width, use, proposal[m].request) =>
                               permits(proposal[m].request.capabilities, use, proposal[m].request)
    BY DEF Inv, NarrowedUnlessSameQuestion
  <2> DEFINE p == proposal[m]
  <2>1. Supported(p) /\ p.request.capabilities \subseteq Capability /\ p.width \in SUBSET Capability
    BY AdmissionAssumption DEF AdmissionInv, ProposalsAreSupported, IsProposal
  <2>2. p.loaded[i] \in answersTo(p)
    BY DEF answersTo
  <2>3. IsRow(p.loaded[i])
    BY <2>1, <2>2 DEF Supported
  <2>4. ~isSameQuestion(p.request, p.loaded[i])
    BY <2>1, <2>3, SameQuestionIsAsked
  <2>5. matchKind(p.request, answersTo(p)) = "fuzzy"
    BY <2>2, <2>4 DEF matchKind
  <2>6. autoDecisionAuditEvent(m).reason = "auto_allow_narrowed"
    <3>1. autoDecided(m).match = "fuzzy"
      BY <2>5 DEF autoDecided, answersTo
    <3> QED BY <3>1 DEF autoDecisionAuditEvent
  <2>7. areWithin(p.width, p.request.capabilities, p.request)
    BY <2>1, <2>5 DEF Supported, Answered
  <2>8. Uses \subseteq Requirement
    BY GrantStoreAssumption
  <2> QED BY <2>1, <2>6, <2>7, <2>8, WithinPermits
<1> QED BY <1>1, InductiveInvariant, PTL

-----------------------------------------------------------------------------
(* A reach is true of its subject.                                         *)

(* What a full reach tells is what its entries do; a summary tells what    *)
(* they do of the place's namespace and the action.                        *)
covers(entry, r, use) ==
    /\ entry.namespace = use.namespace
    /\ use.action \in entry.actions \/ AnyAction \in entry.actions
    /\ ~isSummary(r) => IF entry.scope = "exact" THEN entry.path = use.path
                        ELSE pathIsWithin(entry.path, use.path)

LEMMA ComposedTells ==
    ASSUME NEW r, r.kind \in {"turn", "card"}, r.view # "identity", r.answer = composed(r),
           NEW use, toldOf(r, use)
    PROVE  tells(r, use) <=> \E entry \in r.entries : covers(entry, r, use)
<1>1. CASE r.kind = "turn"
  <2>1. r.answer = {entry \in r.entries : entry.namespace \in Offered}
    BY <1>1 DEF composed, reachThroughTools
  <2> QED BY <1>1, <2>1 DEF tells, covers, toldOf
<1>2. CASE isSummary(r)
  <2>1. r.answer = summarizeReach(r.entries)
    BY <1>2 DEF composed, isSummary
  <2> DEFINE actionsIn(namespace) ==
                UNION {e.actions : e \in {other \in r.entries : other.namespace = namespace}}
  <2>2. r.answer = {[namespace |-> entry.namespace, actions |-> actionsIn(entry.namespace)] :
                       entry \in r.entries}
    BY <2>1 DEF summarizeReach
  <2>3. \A namespace, action : action \in actionsIn(namespace) <=>
           \E e \in r.entries : e.namespace = namespace /\ action \in e.actions
    OBVIOUS
  <2> HIDE DEF actionsIn
  <2>4. \A answer : answer \in r.answer <=>
           \E entry \in r.entries :
              answer = [namespace |-> entry.namespace, actions |-> actionsIn(entry.namespace)]
    BY <2>2
  <2>5. tells(r, use) <=>
           \E entry \in r.entries :
              /\ entry.namespace = use.namespace
              /\ use.action \in actionsIn(use.namespace) \/ AnyAction \in actionsIn(use.namespace)
    <3>1. ASSUME NEW entry \in r.entries, entry.namespace = use.namespace,
                 use.action \in actionsIn(use.namespace) \/ AnyAction \in actionsIn(use.namespace)
          PROVE  tells(r, use)
      <4>1. PICK told : told = [namespace |-> entry.namespace, actions |-> actionsIn(entry.namespace)]
        OBVIOUS
      <4>2. told \in r.answer /\ told.namespace = use.namespace /\ told.actions = actionsIn(use.namespace)
        BY <2>4, <3>1, <4>1
      <4> QED BY <1>2, <3>1, <4>2 DEF tells
    <3>2. ASSUME tells(r, use)
          PROVE  \E entry \in r.entries :
                    /\ entry.namespace = use.namespace
                    /\ use.action \in actionsIn(use.namespace) \/ AnyAction \in actionsIn(use.namespace)
      <4>1. PICK told \in r.answer :
               /\ told.namespace = use.namespace
               /\ use.action \in told.actions \/ AnyAction \in told.actions
        BY <3>2 DEF tells
      <4>2. PICK entry \in r.entries :
               told = [namespace |-> entry.namespace, actions |-> actionsIn(entry.namespace)]
        BY <2>4, <4>1
      <4>3. entry.namespace = use.namespace /\ told.actions = actionsIn(use.namespace)
        BY <4>1, <4>2
      <4> QED BY <4>1, <4>3
    <3> QED BY <3>1, <3>2
  <2> QED BY <1>2, <2>3, <2>5 DEF covers
<1>3. CASE r.kind = "card" /\ ~isSummary(r)
  <2>1. r.answer = r.entries
    BY <1>3 DEF composed, isSummary
  <2> QED BY <2>1 DEF tells, covers
<1> QED BY <1>1, <1>2, <1>3

(* An entry covers a use the turn may be told of just when its grant's     *)
(* capability opens it.                                                    *)
LEMMA CoversOpens ==
    ASSUME NEW r, NEW use, toldOf(r, use), NEW grant, isInForce(grant, r.context)
    PROVE  (\E entry \in entriesOf(grant, r.context) : covers(entry, r, use))
              <=> opens(grant, r, use)
<1>1. resolvedOwner(use, r.context) = r.context.owner
  BY DEF toldOf, resourceBelongsToContext
<1>2. ASSUME NEW c
      PROVE  /\ concernsSameResource(c, use, r.context)
             /\ ~isSummary(r) => capabilityMatches(c, use, r.context)
             <=>
             /\ resourceBelongsToContext(c, r.context)
             /\ covers([namespace |-> c.namespace, path |-> c.path, actions |-> c.actions,
                        scope |-> c.scope], r, use)
  BY <1>1 DEF concernsSameResource, capabilityMatches, resourceBelongsToContext, covers
<1>3. (\E entry \in entriesOf(grant, r.context) : covers(entry, r, use)) <=>
         \E c \in grant.capabilities :
            /\ resourceBelongsToContext(c, r.context)
            /\ covers([namespace |-> c.namespace, path |-> c.path, actions |-> c.actions,
                       scope |-> c.scope], r, use)
  <2>1. ASSUME NEW c \in grant.capabilities, resourceBelongsToContext(c, r.context)
        PROVE  [namespace |-> c.namespace, path |-> c.path, actions |-> c.actions,
                scope |-> c.scope] \in entriesOf(grant, r.context)
    BY <2>1 DEF entriesOf
  <2>2. ASSUME NEW entry \in entriesOf(grant, r.context)
        PROVE  \E c \in grant.capabilities :
                  /\ resourceBelongsToContext(c, r.context)
                  /\ entry = [namespace |-> c.namespace, path |-> c.path,
                              actions |-> c.actions, scope |-> c.scope]
    BY <2>2 DEF entriesOf
  <2> QED BY <2>1, <2>2
<1> QED BY <1>2, <1>3 DEF opens

(* A served reach tells of nothing the subject's grants did not open when  *)
(* they were loaded, and of everything those whose checks were answered    *)
(* open still (reach).                                                     *)
THEOREM ReachesAreTrue == Spec => []ReachIsTrue
<1>1. Inv => ReachIsTrue
  <2> SUFFICES ASSUME NEW reader \in Readers, NEW r, r = read[reader], IsReading(r),
                      r.at = "served", r.view # "identity",
                      NEW use \in Uses, toldOf(r, use)
               PROVE  /\ tells(r, use) => \E grant \in r.loaded \ r.spent : opens(grant, r, use)
                      /\ (\E grant \in r.loaded \ r.passedOver : hasUses(grant) /\ opens(grant, r, use))
                            => tells(r, use)
    BY DEF Inv, ReadInv, ReachIsTrue, isServedReach, overstated, leftOut
  <2>1. Derives(r) /\ r.left = {} /\ r.answer = composed(r)
    BY DEF IsReading
  <2>2. tells(r, use) <=> \E entry \in r.entries : covers(entry, r, use)
    BY <2>1, ComposedTells DEF Derives
  <2>3. ASSUME tells(r, use) PROVE \E grant \in r.loaded \ r.spent : opens(grant, r, use)
    <3>1. PICK entry \in r.entries : covers(entry, r, use)
      BY <2>2, <2>3
    <3>2. PICK grant \in r.loaded \ r.spent :
             isInForce(grant, r.context) /\ entry \in entriesOf(grant, r.context)
      BY <2>1, <3>1 DEF Derives
    <3> QED BY <3>1, <3>2, CoversOpens
  <2>4. ASSUME NEW grant \in r.loaded \ r.passedOver, hasUses(grant), opens(grant, r, use) PROVE tells(r, use)
    <3>1. isInForce(grant, r.context)
      BY <2>4 DEF opens
    <3>2. entriesOf(grant, r.context) \subseteq r.entries
      BY <2>1, <2>4, <3>1 DEF Derives
    <3>3. PICK entry \in entriesOf(grant, r.context) : covers(entry, r, use)
      BY <2>4, <3>1, CoversOpens
    <3> QED BY <2>2, <3>2, <3>3
  <2> QED BY <2>3, <2>4
<1> QED BY <1>1, InductiveInvariant, PTL

=============================================================================
