----------------------------- MODULE Authorizer -----------------------------
(***************************************************************************)
(* CapabilityAuthorizer#decide: many decisions in flight at once, each     *)
(* walking its own turn's grants in order, and meeting the others only in  *)
(* the usage store a bounded grant is spent against.                       *)
(*                                                                         *)
(* The authorizer waits on the grant verifier, the chain walk              *)
(* (DelegationWalk) and the usage store. The store's answer leaves the     *)
(* store in one step and reaches the decision in another, or never does.   *)
(***************************************************************************)
EXTENDS Grants, FiniteSets

CONSTANTS
    Calls,        (* decisions, each made once                                  *)
    GrantBook,    (* [GrantIds -> Grant]: what each id stands for               *)
    Requests      (* what a decision may be asked: see Request                  *)

Modes == {"discover", "inspect", "consume"}

DecisionContext ==
    [owner : Addresses, purpose : Purposes, actor : Addresses, authority : Addresses,
     namespaceId : Namespaces]

Request ==
    [mode : Modes, grants : Seq(GrantIds), requirement : Requirement,
     context : DecisionContext, at : [admittedAt : Instant, now : Instant]]

ASSUME AuthorizerAssumption ==
    /\ IsFiniteSet(Calls)
    /\ GrantBook \in [GrantIds -> Grant]
    /\ \A id \in GrantIds : GrantBook[id].id = id
    /\ \A r \in Requests : r \in Request
    /\ None \notin GrantIds /\ None \notin Requests

VARIABLES
    used,    (* the usage store: [GrantIds -> Nat]                              *)
    walk,    (* [Calls -> one decision's progress]                              *)
    paid     (* history: the grant whose use a decision spent, or None          *)

vars == <<used, walk, paid>>

(* What became of one grant a decision considered.                         *)
Outcome == {"unmatched", "invalid", "unverified", "refused", "exhausted"}

Verdicts == {"allowed", "invalid_context", "invalid_request", "no_matching_grant",
             "delegation_chain_invalid", "delegation_chain_unverified",
             "host_policy_denied", "host_policy_unavailable",
             "grant_exhausted", "usage_store_unavailable"}

Idle == [step |-> "idle", request |-> None, met |-> <<>>,
         delegationFailure |-> "none", policyDenial |-> None, foundExhaustedGrant |-> FALSE,
         available |-> FALSE, verdict |-> "pending", matched |-> None]

maxUses(id) == GrantBook[id].constraints.maxUses

MaxUses == [id \in GrantIds |-> maxUses(id)]

Init ==
    /\ used = [id \in GrantIds |-> 0]
    /\ walk = [call \in Calls |-> Idle]
    /\ paid = [call \in Calls |-> None]

-----------------------------------------------------------------------------
(* What a decision asks of one grant *)

invalidContext(request) == ~Readable(request.at.admittedAt) \/ ~Readable(request.at.now)

grantRejection(grant, context, at) ==
    \/ grant.issuer # context.authority
    \/ grant.subject # context.actor
    \/ grant.namespaceId # context.namespaceId
    \/ ~grantIsActive(grant, context.purpose, at)

matches(capability, request) ==
    IF request.mode = "discover"
    THEN capabilityIntersectsCeiling(capability, request.requirement, request.context)
    ELSE capabilityMatches(capability, request.requirement, request.context)

eligible(grant, request) ==
    /\ ~grantRejection(grant, request.context, request.at)
    /\ \E capability \in grant.capabilities : matches(capability, request)

(* The grants a walk has not come to, and the one it is at.                *)
grantsLeft(w) == Len(w.met) < Len(w.request.grants)
current(w) == w.request.grants[Len(w.met) + 1]

considering(call) == walk[call].step = "next" /\ grantsLeft(walk[call])

passes(w) == eligible(GrantBook[current(w)], w.request)

-----------------------------------------------------------------------------
(* How a walk moves *)

decided(w, verdict) == [w EXCEPT !.step = "end", !.verdict = verdict]

allowedBy(w, id) == [decided(w, "allowed") EXCEPT !.matched = id]

past(w, outcome) == [w EXCEPT !.step = "next", !.met = Append(@, outcome)]

(* Mutant: the first chain failure met is the one reported.                *)
firstDelegationFailure(previous, candidate) ==
    IF previous = "none" THEN candidate ELSE previous

(* An unverifiable chain outranks an invalid one.                          *)
worstDelegationFailure(previous, candidate) ==
    IF previous = "none" \/ (previous = "invalid" /\ candidate = "unverified")
    THEN candidate ELSE previous

pastBroken(w, status) ==
    [past(w, status) EXCEPT
        !.delegationFailure = worstDelegationFailure(w.delegationFailure, status)]

(* The first refusal is the one reported.                                  *)
pastRefused(w) ==
    [past(w, "refused") EXCEPT
        !.policyDenial = IF w.policyDenial = None THEN current(w) ELSE w.policyDenial]

pastExhausted(w) == [past(w, "exhausted") EXCEPT !.foundExhaustedGrant = TRUE]

Begin(call, request) ==
    /\ walk[call].step = "idle"
    /\ LET w == [walk[call] EXCEPT !.step = "next", !.request = request] IN
       walk' = [walk EXCEPT ![call] =
           IF invalidContext(request) THEN decided(w, "invalid_context")
           ELSE IF ~resourceBelongsToContext(request.requirement, request.context)
           THEN decided(w, "invalid_request")
           ELSE w]
    /\ UNCHANGED <<used, paid>>

(* The grant is not eligible, its verifier refuses it or throws, or no     *)
(* capability of it matches.                                               *)
TurnAway(call) ==
    /\ considering(call)
    /\ walk' = [walk EXCEPT ![call] = past(@, "unmatched")]
    /\ UNCHANGED <<used, paid>>

(* validateDelegationChain ends otherwise than valid; a root has no chain. *)
ChainFails(call, status) ==
    /\ considering(call)
    /\ passes(walk[call])
    /\ GrantBook[current(walk[call])].parentGrantId # None
    /\ walk' = [walk EXCEPT ![call] = pastBroken(@, status)]
    /\ UNCHANGED <<used, paid>>

(* The host's policy refuses this grant; another may still serve.          *)
CeilingRefuses(call) ==
    /\ considering(call)
    /\ passes(walk[call])
    /\ walk' = [walk EXCEPT ![call] = pastRefused(@)]
    /\ UNCHANGED <<used, paid>>

(* No policy was loaded, or the ceiling threw or answered nonsense.        *)
CeilingFails(call) ==
    /\ considering(call)
    /\ passes(walk[call])
    /\ walk' = [walk EXCEPT ![call] = decided(@, "host_policy_unavailable")]
    /\ UNCHANGED <<used, paid>>

(* Every gate passed: an unbounded grant allows, a bounded one is put to   *)
(* the usage store.                                                        *)
GatesPass(call) ==
    /\ considering(call)
    /\ passes(walk[call])
    /\ walk' = [walk EXCEPT ![call] =
           IF maxUses(current(@)) = None
           THEN allowedBy(@, current(@))
           ELSE [@ EXCEPT !.step = "store"]]
    /\ UNCHANGED <<used, paid>>

-----------------------------------------------------------------------------
(* The usage store *)

hasUseLeft(id) == used[id] < maxUses(id)

spends(mode) == mode = "consume"

answering(w, available) == [w EXCEPT !.step = "answer", !.available = available]

(* tryConsume or getUsage, atomic in the store.                            *)
StoreServes(call) ==
    /\ walk[call].step = "store"
    /\ LET id == current(walk[call]) IN
       /\ walk' = [walk EXCEPT ![call] = answering(@, hasUseLeft(id))]
       /\ IF spends(walk[call].request.mode) /\ hasUseLeft(id)
          THEN /\ used' = [used EXCEPT ![id] = @ + 1]
               /\ paid' = [paid EXCEPT ![call] = id]
          ELSE UNCHANGED <<used, paid>>

StoreAnswers(call) ==
    /\ walk[call].step = "answer"
    /\ walk' = [walk EXCEPT ![call] =
           IF @.available THEN allowedBy(@, current(@)) ELSE pastExhausted(@)]
    /\ UNCHANGED <<used, paid>>

(* Mutant: a grant whose store failed is passed over like a spent one.     *)
passedOver(w) == past(w, "exhausted")

afterStoreFailure(w) == decided(w, "usage_store_unavailable")

(* The store is missing or throws, before or after it counted the use.     *)
StoreFails(call) ==
    /\ walk[call].step \in {"store", "answer"}
    /\ walk' = [walk EXCEPT ![call] = afterStoreFailure(@)]
    /\ UNCHANGED <<used, paid>>

-----------------------------------------------------------------------------
(* The reason a walk that allowed nothing gives.                           *)
denialReason(w) ==
    IF w.delegationFailure = "unverified" THEN "delegation_chain_unverified"
    ELSE IF w.delegationFailure = "invalid" THEN "delegation_chain_invalid"
    ELSE IF w.policyDenial # None THEN "host_policy_denied"
    ELSE IF w.foundExhaustedGrant THEN "grant_exhausted"
    ELSE "no_matching_grant"

denied(w) ==
    [decided(w, denialReason(w)) EXCEPT
        !.matched = IF denialReason(w) = "host_policy_denied" THEN w.policyDenial ELSE None]

Conclude(call) ==
    /\ walk[call].step = "next"
    /\ ~grantsLeft(walk[call])
    /\ walk' = [walk EXCEPT ![call] = denied(@)]
    /\ UNCHANGED <<used, paid>>

Decide(call) ==
    \/ \E request \in Requests : Begin(call, request)
    \/ TurnAway(call)
    \/ \E status \in {"invalid", "unverified"} : ChainFails(call, status)
    \/ CeilingRefuses(call)
    \/ CeilingFails(call)
    \/ GatesPass(call)
    \/ StoreServes(call)
    \/ StoreAnswers(call)
    \/ StoreFails(call)
    \/ Conclude(call)

Next == \E call \in Calls : Decide(call)

Spec == Init /\ [][Next]_vars

-----------------------------------------------------------------------------
(* Properties *)

Walk ==
    [step : {"idle", "next", "store", "answer", "end"},
     request : Optional(Requests), met : Seq(Outcome),
     delegationFailure : {"none", "invalid", "unverified"}, policyDenial : Optional(GrantIds),
     foundExhaustedGrant : BOOLEAN, available : BOOLEAN,
     verdict : Verdicts \cup {"pending"}, matched : Optional(GrantIds)]

WellFormed(w) ==
    /\ w.step = "idle" <=> w.request = None
    /\ w.step = "idle" => w.met = <<>>
    /\ w.step = "end" <=> w.verdict # "pending"
    /\ w.step # "idle" => Len(w.met) <= Len(w.request.grants)
    /\ w.step \in {"store", "answer"} =>
           grantsLeft(w) /\ passes(w) /\ maxUses(current(w)) # None

(* A decision under way has a request, and a bounded grant of it in hand   *)
(* while the usage store works; only a decision that ended has a verdict.  *)
TypeOK ==
    /\ used \in [GrantIds -> Nat]
    /\ walk \in [Calls -> Walk]
    /\ paid \in [Calls -> Optional(GrantIds)]
    /\ \A call \in Calls : WellFormed(walk[call])

ended(call) == walk[call].step = "end"

payers(id) == {call \in Calls : paid[call] = id}

(* The store's count of a bounded grant is the number of decisions that    *)
(* spent it, each of them once, however the decisions interleave and       *)
(* whatever answers are lost; and it stays within maxUses (tryConsume).    *)
UsesAreAccounted ==
    \A id \in GrantIds :
        /\ used[id] = Cardinality(payers(id))
        /\ maxUses(id) # None => used[id] <= maxUses(id)

(* Refusing is free and asking is free: a use is spent only by an          *)
(* invocation that is allowed on that very grant, or whose store failed    *)
(* (the ceiling is the last gate before consumption; canDiscover does not  *)
(* consume).                                                               *)
OnlyAllowedInvocationsPay ==
    \A call \in Calls : ended(call) =>
        LET w == walk[call] IN
        /\ paid[call] # None =>
               /\ w.request.mode = "consume"
               /\ \/ w.verdict = "allowed" /\ w.matched = paid[call]
                  \/ w.verdict = "usage_store_unavailable"
        /\ w.verdict = "allowed" /\ w.request.mode = "consume" /\ maxUses(w.matched) # None =>
               paid[call] = w.matched

outcomes(w) == {w.met[i] : i \in 1..Len(w.met)}

(* The decision the outcomes call for, whatever order they were met in: a  *)
(* denial has looked at every grant and names the worst it found           *)
(* (worstDelegationFailure, and the order of the final denials).           *)
DenialNamesTheWorst ==
    \A call \in Calls :
        LET w == walk[call] IN
        /\ w.verdict \in {"no_matching_grant", "grant_exhausted", "host_policy_denied",
                          "delegation_chain_invalid", "delegation_chain_unverified"} =>
               Len(w.met) = Len(w.request.grants)
        /\ w.verdict = "no_matching_grant" => outcomes(w) \subseteq {"unmatched"}
        /\ w.verdict = "grant_exhausted" =>
               "exhausted" \in outcomes(w) /\ outcomes(w) \subseteq {"unmatched", "exhausted"}
        /\ w.verdict = "host_policy_denied" =>
               "refused" \in outcomes(w) /\ outcomes(w) \cap {"invalid", "unverified"} = {}
        /\ w.verdict = "delegation_chain_invalid" =>
               "invalid" \in outcomes(w) /\ "unverified" \notin outcomes(w)
        /\ w.verdict = "delegation_chain_unverified" => "unverified" \in outcomes(w)

(* What an invocation stands on: the grant it spent, or the unbounded one  *)
(* it was allowed by.                                                      *)
standing ==
    [call \in Calls |->
        IF paid[call] # None THEN paid[call]
        ELSE IF walk[call].verdict = "allowed" /\ walk[call].request.mode = "consume"
        THEN walk[call].matched
        ELSE None]

Budget == INSTANCE UseBudget

(* The authorizer keeps the promise of maxUses: at most that many          *)
(* operations, ever, stand on one bounded grant.                           *)
BudgetKept == Budget!Spec

=============================================================================
