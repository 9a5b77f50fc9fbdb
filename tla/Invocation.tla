----------------------------- MODULE Invocation -----------------------------
(***************************************************************************)
(* The kernel's operations on the world: a tool call, a resource           *)
(* operation, a message, the message a tool dispatches, and the admission  *)
(* of a turn. Each is decided, its decision is recorded, and only then is  *)
(* the host's port entered; what became of it is recorded last.            *)
(*                                                                         *)
(* A decision whose record fails stops the operation. An outcome whose     *)
(* record fails, or is not answered in time, changes nothing for the       *)
(* caller and goes to onAuditError. A port may call the kernel back, and   *)
(* what it hears then may be what it throws.                               *)
(*                                                                         *)
(* The authorizer is one step here, spending a use as UseBudget allows,    *)
(* which Authorizer implements. All bounded decisions are on one grant.    *)
(***************************************************************************)
EXTENDS Integers, FiniteSets

CONSTANTS
    Calls,       (* operations, each asked for once                              *)
    KindsOf,     (* [Calls -> what kinds of operation each may be]               *)
    OuterOf,     (* [Calls -> the call whose port makes it, or None]             *)
    Signals,     (* the abort signals of the callers                             *)
    SignalOf,    (* [Calls -> the signal each runs under]                        *)
    MaxUses,     (* the uses of the bounded grant                                *)
    Hosts,       (* [limit, hook]: has it an auditWriteTimeoutMs, an onAuditError*)
    None

Kinds == {"tool", "resource", "message", "dispatch", "admit"}

Results == {"succeeded", "denied", "failed"}

(* What a caller gets: a result, the reason of its signal, or an           *)
(* AuditUnavailableError saying what effect the operation may have had.    *)
Answers == Results \union {"aborted", "audit_none", "audit_unknown"}

ASSUME InvocationAssumption ==
    /\ IsFiniteSet(Calls)
    /\ KindsOf \in [Calls -> SUBSET Kinds]
    /\ OuterOf \in [Calls -> Calls \union {None}]
    /\ \A c \in Calls : OuterOf[c] # c
    /\ SignalOf \in [Calls -> Signals]
    /\ MaxUses \in Nat
    /\ Hosts \subseteq [limit : BOOLEAN, hook : BOOLEAN]
    /\ None \notin Calls \union Kinds \union Answers

VARIABLES
    host,        (* the host the kernel was built for                            *)
    aborted,     (* the signals that have fired                                  *)
    used,        (* uses of the bounded grant the store has counted              *)
    op,          (* [Calls -> one operation's progress]                          *)
    trail,       (* [Calls -> the records of it the audit sink holds]            *)
    late,        (* operations whose outcome the sink may still write            *)
    reported     (* operations whose outcome onAuditError was handed             *)

vars == <<host, aborted, used, op, trail, late, reported>>

Operation ==
    [phase : {"idle", "checking", "deciding", "allowed", "running", "closing", "reporting", "ended"},
     kind : Kinds \union {None},
     decision : {"none", "allowed", "denied"},
     grant : {"none", "bounded", "unbounded"},
     port : {"none", "entered", "acted"},
     answer : Answers \union {None}]

Trail == [decision : {"none", "allowed", "denied"}, outcome : Results \union {"none", "interrupted"}]

TypeOK ==
    /\ host \in Hosts
    /\ aborted \subseteq Signals
    /\ used \in 0..MaxUses
    /\ op \in [Calls -> Operation]
    /\ trail \in [Calls -> Trail]
    /\ late \subseteq Calls
    /\ reported \subseteq Calls
    /\ \A c \in Calls : op[c].phase \in {"closing", "reporting", "ended"} <=> op[c].answer # None

Init ==
    /\ host \in Hosts
    /\ aborted = {}
    /\ used = 0
    /\ op = [c \in Calls |-> [phase |-> "idle", kind |-> None, decision |-> "none",
                              grant |-> "none", port |-> "none", answer |-> None]]
    /\ trail = [c \in Calls |-> [decision |-> "none", outcome |-> "none"]]
    /\ late = {}
    /\ reported = {}

-----------------------------------------------------------------------------
stopped(c) == SignalOf[c] \in aborted

ending(o, answer) == [o EXCEPT !.phase = "ended", !.answer = answer]

(* An answer is due, and its record is being written.                      *)
closing(o, answer) == [o EXCEPT !.phase = "closing", !.answer = answer]

Becomes(c, o) == op' = [op EXCEPT ![c] = o]

(* A caller gives up.                                                      *)
Abort(signal) ==
    /\ signal \notin aborted
    /\ aborted' = aborted \union {signal}
    /\ UNCHANGED <<host, used, op, trail, late, reported>>

-----------------------------------------------------------------------------
(* Up to the decision                                                      *)

(* Operations that have nothing around them begin at any time, the others  *)
(* while the port that makes them runs. A dispatch stands on the decision  *)
(* of the tool call it belongs to, and runs under its signal.              *)
mayBegin(c, kind) ==
    /\ kind \in KindsOf[c]
    /\ OuterOf[c] # None => op[OuterOf[c]].phase = "running"
    /\ kind = "dispatch" =>
           /\ OuterOf[c] # None /\ op[OuterOf[c]].kind = "tool"
           /\ SignalOf[c] = SignalOf[OuterOf[c]]

Begin(c, kind) ==
    /\ op[c].phase = "idle"
    /\ mayBegin(c, kind)
    /\ LET o == [op[c] EXCEPT !.kind = kind,
                              !.phase = IF kind = "dispatch" THEN "allowed" ELSE "checking"]
       IN Becomes(c, IF stopped(c) /\ kind # "dispatch" THEN ending(o, "aborted") ELSE o)
    /\ UNCHANGED <<host, aborted, used, trail, late, reported>>

(* Refused with no decision: another trace, no authority, no catalogue, no *)
(* such tool, a namespace that is off, arguments or a requirement that     *)
(* cannot be read or leave the tool's boundary.                            *)
Refuses(c) ==
    /\ op[c].phase = "checking" /\ op[c].kind # "admit"
    /\ \E answer \in {"denied", "failed"} : Becomes(c, closing(op[c], answer))
    /\ UNCHANGED <<host, aborted, used, trail, late, reported>>

(* The authority could not be recorded, or its load or the catalogue's was *)
(* left at the caller's abort.                                             *)
ThrowsEarly(c) ==
    /\ op[c].phase = "checking"
    /\ \/ Becomes(c, ending(op[c], "audit_none"))
       \/ stopped(c) /\ Becomes(c, ending(op[c], "aborted"))
    /\ UNCHANGED <<host, aborted, used, trail, late, reported>>

(* A decision made for an operation consumes.                              *)
spends(grant) == grant = "bounded"

(* A decision is made and on its way to the sink. Discovery, a resource in *)
(* another world and an admission without authority are denied without     *)
(* consuming; a use may be spent and the answer still be a denial, when    *)
(* the usage store failed after it counted.                                *)
Decides(c, decision, grant) ==
    /\ op[c].phase = "checking"
    /\ grant = "none" => decision = "denied"
    /\ grant = "unbounded" => decision = "allowed"
    /\ spends(grant) => used < MaxUses
    /\ used' = IF spends(grant) THEN used + 1 ELSE used
    /\ Becomes(c, [op[c] EXCEPT !.phase = "deciding", !.decision = decision, !.grant = grant])
    /\ UNCHANGED <<host, aborted, trail, late, reported>>

decided(o) ==
    IF o.kind = "admit"
      THEN ending(o, IF o.decision = "allowed" THEN "succeeded" ELSE "denied")
    ELSE IF o.decision = "allowed" THEN [o EXCEPT !.phase = "allowed"]
    ELSE closing(o, "denied")

DecisionRecorded(c) ==
    /\ op[c].phase = "deciding"
    /\ trail' = [trail EXCEPT ![c].decision = op[c].decision]
    /\ Becomes(c, decided(op[c]))
    /\ UNCHANGED <<host, aborted, used, late, reported>>

(* Mutant: an allow whose record failed is acted on.                       *)
undecidedOnDenials(o) ==
    IF o.decision = "allowed" THEN [o EXCEPT !.phase = "allowed"] ELSE ending(o, "audit_none")

undecided(o) == ending(o, "audit_none")

(* The sink threw, and may have written all the same.                      *)
DecisionUnrecorded(c) ==
    /\ op[c].phase = "deciding"
    /\ \E written \in {"none", op[c].decision} : trail' = [trail EXCEPT ![c].decision = written]
    /\ Becomes(c, undecided(op[c]))
    /\ UNCHANGED <<host, aborted, used, late, reported>>

-----------------------------------------------------------------------------
(* The port                                                                *)

(* No provider for the namespace, no transport.                            *)
NoPort(c) ==
    /\ op[c].phase = "allowed" /\ op[c].kind # "tool"
    /\ Becomes(c, closing(op[c], "failed"))
    /\ UNCHANGED <<host, aborted, used, trail, late, reported>>

EntersPort(c) ==
    /\ op[c].phase = "allowed"
    /\ Becomes(c, IF stopped(c) THEN ending(op[c], "aborted")
                  ELSE [op[c] EXCEPT !.phase = "running", !.port = "entered"])
    /\ UNCHANGED <<host, aborted, used, trail, late, reported>>

PortActs(c) ==
    /\ op[c].phase = "running" /\ op[c].port = "entered"
    /\ Becomes(c, [op[c] EXCEPT !.port = "acted"])
    /\ UNCHANGED <<host, aborted, used, trail, late, reported>>

(* Whatever it did, a port answers what it likes; an answer that cannot be *)
(* believed has failed.                                                    *)
PortReturns(c) ==
    /\ op[c].phase = "running"
    /\ \E answer \in Results : Becomes(c, closing(op[c], answer))
    /\ UNCHANGED <<host, aborted, used, trail, late, reported>>

(* Mutant: a stopped port leaves no record.                                *)
throwsUnrecorded(c) ==
    IF stopped(c) THEN ending(op[c], "aborted") ELSE closing(op[c], "failed")

throws(c) == closing(op[c], IF stopped(c) THEN "aborted" ELSE "failed")

PortThrows(c) ==
    /\ op[c].phase = "running"
    /\ Becomes(c, throws(c))
    /\ UNCHANGED <<host, aborted, used, trail, late, reported>>

(* Mutant: what the nested operation said of itself is said of the outer.  *)
losesAuditAsNested(o) == closing(o, "audit_none")

losesAudit(o) == closing(o, "audit_unknown")

(* The port lets through what the kernel threw at a call of its own.       *)
PortLosesAudit(c) ==
    /\ op[c].phase = "running"
    /\ \E n \in Calls : OuterOf[n] = c /\ op[n].phase = "ended"
                         /\ op[n].answer \in {"audit_none", "audit_unknown"}
    /\ Becomes(c, losesAudit(op[c]))
    /\ UNCHANGED <<host, aborted, used, trail, late, reported>>

-----------------------------------------------------------------------------
(* The outcome's record                                                    *)

outcomeOf(answer) == IF answer \in Results THEN answer ELSE "interrupted"

OutcomeRecorded(c) ==
    /\ op[c].phase = "closing"
    /\ trail' = [trail EXCEPT ![c].outcome = outcomeOf(op[c].answer)]
    /\ Becomes(c, ending(op[c], op[c].answer))
    /\ UNCHANGED <<host, aborted, used, late, reported>>

(* Mutant: a failed record fails the operation.                            *)
unrecordedFails(o) == [o EXCEPT !.phase = "ended", !.answer = "failed"]

(* onAuditError is called, if there is one, and changes no answer.         *)
unrecorded(o) == [o EXCEPT !.phase = IF host.hook THEN "reporting" ELSE "ended"]

Unrecorded(c) ==
    /\ Becomes(c, unrecorded(op[c]))
    /\ reported' = IF host.hook THEN reported \union {c} ELSE reported

(* The sink threw, and may have written all the same.                      *)
OutcomeFails(c) ==
    /\ op[c].phase = "closing"
    /\ Unrecorded(c)
    /\ \E written \in {"none", outcomeOf(op[c].answer)} :
         trail' = [trail EXCEPT ![c].outcome = written]
    /\ UNCHANGED <<host, aborted, used, late>>

(* auditWriteTimeoutMs passed. The sink goes on with it.                   *)
OutcomeLate(c) ==
    /\ op[c].phase = "closing" /\ host.limit
    /\ Unrecorded(c)
    /\ late' = late \union {c}
    /\ UNCHANGED <<host, aborted, used, trail>>

LateWrite(c) ==
    /\ c \in late
    /\ late' = late \ {c}
    /\ trail' = [trail EXCEPT ![c].outcome = outcomeOf(op[c].answer)]
    /\ UNCHANGED <<host, aborted, used, op, reported>>

reportingEnds(c) ==
    /\ op[c].phase = "reporting"
    /\ Becomes(c, ending(op[c], op[c].answer))
    /\ UNCHANGED <<host, aborted, used, trail, late, reported>>

(* onAuditError answers or throws.                                         *)
HookEnds(c) == reportingEnds(c)

(* Mutant: onAuditError may take as long as it likes.                      *)
hookUnlimited(c) == FALSE

hookLimited(c) == host.limit

(* auditWriteTimeoutMs passed again.                                       *)
HookLate(c) == hookLimited(c) /\ reportingEnds(c)

-----------------------------------------------------------------------------
Steps(c) ==
    \/ \E kind \in Kinds : Begin(c, kind)
    \/ Refuses(c)
    \/ ThrowsEarly(c)
    \/ \E decision \in {"allowed", "denied"}, grant \in {"none", "bounded", "unbounded"} :
         Decides(c, decision, grant)
    \/ DecisionRecorded(c)
    \/ DecisionUnrecorded(c)
    \/ NoPort(c)
    \/ EntersPort(c)
    \/ PortActs(c)
    \/ PortReturns(c)
    \/ PortThrows(c)
    \/ PortLosesAudit(c)
    \/ OutcomeRecorded(c)
    \/ OutcomeFails(c)
    \/ OutcomeLate(c)
    \/ LateWrite(c)
    \/ HookEnds(c)
    \/ HookLate(c)

Next ==
    \/ \E signal \in Signals : Abort(signal)
    \/ \E c \in Calls : Steps(c)

(* The write limit is a timer: it fires. Nothing is assumed of the sink,   *)
(* of onAuditError or of a port.                                           *)
Fairness == \A c \in Calls : WF_vars(OutcomeLate(c)) /\ WF_vars(HookLate(c))

Spec == Init /\ [][Next]_vars /\ Fairness

-----------------------------------------------------------------------------
(* Properties                                                              *)

(* The call whose decision an operation stands on.                         *)
decider(c) == IF op[c].kind = "dispatch" THEN OuterOf[c] ELSE c

(* A decision that was never recorded is not one SharedOS acts on: no port *)
(* is entered, at any depth, but on an allow the trail holds               *)
(* (#recordDecision).                                                      *)
ActsOnRecordedAllow ==
    \A c \in Calls : op[c].port # "none" => trail[decider(c)].decision = "allowed"

(* An outage that claims no effect had none: the operation's port was not  *)
(* entered, and nothing was asked of the kernel from inside it             *)
(* (AuditUnavailableError.effect, #invokePort).                            *)
NoneMeansNothingRan ==
    \A c \in Calls : op[c].answer = "audit_none" =>
        /\ op[c].port = "none"
        /\ \A n \in Calls : OuterOf[n] = c => op[n].phase = "idle"

(* The operations that reached a port on the bounded grant are no more     *)
(* than its uses, whichever calls nest, fail or give up                    *)
(* (#invokeTool, invokeResource, sendMessage deciding with consume).       *)
OperationsWithinBudget ==
    Cardinality({c \in Calls : op[c].grant = "bounded" /\ op[c].port # "none"}) <= MaxUses

(* Whatever was let through is followed up: once an operation that was     *)
(* allowed has ended, the trail says how, or the host was told that it may *)
(* not, or its caller stopped it before its port (#invokePort,             *)
(* #recordOutcome).                                                        *)
TrailIsComplete ==
    \A c \in Calls :
        /\ op[c].phase = "ended" /\ trail[decider(c)].decision = "allowed"
        /\ op[c].kind # "admit" /\ host.hook
        => \/ trail[c].outcome # "none" \/ c \in reported
           \/ op[c].port = "none" /\ op[c].answer \in {"aborted", "audit_none"}

(* The trail and the caller are never told two stories, however late the   *)
(* record or whatever became of it: a caller has the result the trail      *)
(* holds, and an interrupted operation threw (#recordOutcome).             *)
TrailMatchesAnswers ==
    \A c \in Calls : trail[c].outcome # "none" => trail[c].outcome = outcomeOf(op[c].answer)

(* With a write limit, neither the sink nor onAuditError can hold back an  *)
(* answer (auditWriteTimeoutMs, #withinAuditWriteLimit).                   *)
AnswersAreReleased ==
    \A c \in Calls :
        host.limit /\ op[c].phase \in {"closing", "reporting"} ~> op[c].phase = "ended"

=============================================================================
