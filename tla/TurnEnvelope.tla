---------------------------- MODULE TurnEnvelope ----------------------------
(***************************************************************************)
(* One turn in the execution envelope (SharedOSExecutor.#runTurn): it opens *)
(* its authority, admits the agent, lists its tools, runs the plugin and   *)
(* mediates the calls the plugin makes, several at once if it likes. The   *)
(* envelope owns the ending, and says whether the turn may be run again.   *)
(*                                                                         *)
(* Two signals end it (createTurnDeadlines): draining says it takes        *)
(* nothing new, and the hard one stops it. What a call does once the       *)
(* kernel has it is Invocation's; here a call acts, or not, and answers    *)
(* as Invocation says it may.                                              *)
(***************************************************************************)
EXTENDS Integers, FiniteSets

CONSTANTS
    Calls,           (* the tool calls the plugin may make                       *)
    Steps,           (* the steps it may declare for them                        *)
    MaxSteps,        (* limits.maxSteps                                          *)
    MaxToolCalls,    (* limits.maxToolCalls                                      *)
    Graces,          (* is drainGraceMs above 0: the executors to consider       *)
    None

Tools == {"write", "repeatable", "unoffered"}

Endings == {"refused", "succeeded", "escalated", "invalid", "plugin_failed",
            "audit_unavailable", "cancelled", "runtime_failed"}

(* What the kernel's promise for a call settles with.                      *)
Answers == {"succeeded", "denied", "failed", "aborted", "audit_none", "audit_unknown"}

ASSUME TurnEnvelopeAssumption ==
    /\ IsFiniteSet(Calls)
    /\ Steps \subseteq Nat
    /\ MaxSteps \in Nat \ {0}
    /\ MaxToolCalls \in Nat \ {0}
    /\ Graces \subseteq BOOLEAN
    /\ None \notin Nat \union Tools \union [ending : Endings, retryable : BOOLEAN]

VARIABLES
    grace,            (* has this executor a drainGraceMs                        *)
    stage,            (* where #runTurn is                                       *)
    lease,            (* the authority this turn opened                          *)
    draining,         (* has the soft signal fired                               *)
    hard,             (* has the hard one, and with what for a reason            *)
    armed,            (* is the stop that follows a drain due                    *)
    call,             (* [Calls -> one mediated call]                            *)
    steps,            (* the steps seen                                          *)
    toolCallCount,
    writesWithKernel,
    effectPossible,
    outage,           (* is auditOutage set                                      *)
    awaited,          (* the calls a draining turn waits for                     *)
    result            (* what execute answers                                    *)

deadlines == <<draining, hard, armed>>
ledger == <<call, steps, toolCallCount, writesWithKernel, effectPossible>>
vars == <<grace, stage, lease, deadlines, ledger, outage, awaited, result>>

Stages == {"new", "opening", "admitting", "preparing", "running", "escalating",
           "settling", "recording", "ended"}

Call == [phase : {"idle", "refusing", "kernel", "done"},
         tool : Tools \union {None},
         step : Steps \union {None},
         acted : BOOLEAN,
         disowned : BOOLEAN]      (* it came back denied *)

Result == [ending : Endings, retryable : BOOLEAN]

TypeOK ==
    /\ grace \in Graces
    /\ stage \in Stages
    /\ lease \in {"none", "pending", "open", "closed"}
    /\ draining \in BOOLEAN
    /\ hard \in {"no", "stopped", "outage"}
    /\ armed \in BOOLEAN
    /\ call \in [Calls -> Call]
    /\ steps \subseteq Steps
    /\ toolCallCount \in 0..MaxToolCalls
    /\ writesWithKernel \in 0..Cardinality(Calls)
    /\ effectPossible \in BOOLEAN
    /\ outage \in BOOLEAN
    /\ awaited \subseteq Calls
    /\ result \in Result \union {None}
    /\ result # None <=> stage \in {"recording", "ended"}
    /\ hard # "no" \/ armed => draining

Init ==
    /\ grace \in Graces
    /\ stage = "new"
    /\ lease = "none"
    /\ draining = FALSE /\ hard = "no" /\ armed = FALSE
    /\ call = [c \in Calls |-> [phase |-> "idle", tool |-> None, step |-> None,
                                 acted |-> FALSE, disowned |-> FALSE]]
    /\ steps = {} /\ toolCallCount = 0
    /\ writesWithKernel = 0 /\ effectPossible = FALSE
    /\ outage = FALSE
    /\ awaited = {}
    /\ result = None

-----------------------------------------------------------------------------
over == stage \in {"recording", "ended"}

inFlight == {c \in Calls : call[c].phase \in {"refusing", "kernel"}}

safeToRetry == ~effectPossible /\ writesWithKernel = 0

released(l) == IF l = "open" THEN "closed" ELSE l

(* The turn has its result. The finally closes its authority and aborts.   *)
EndsHolding(held, ending, retryable) ==
    /\ result' = [ending |-> ending, retryable |-> retryable]
    /\ stage' = "recording"
    /\ lease' = released(held)
    /\ hard' = IF hard = "no" THEN "stopped" ELSE hard
    /\ draining' = TRUE
    /\ armed' = FALSE

Ends(ending, retryable) == EndsHolding(lease, ending, retryable)

caughtAs(noted) ==
    IF noted THEN "audit_unavailable"
    ELSE IF draining THEN "cancelled" ELSE "runtime_failed"

(* Mutant: a draining turn ends without its calls.                         *)
waitsForNone == {}

waitsFor == IF draining /\ hard = "no" THEN inFlight ELSE {}

(* #runTurn's catch. A turn that drains waits for the calls it has out.    *)
Catches(noted) ==
    \/ /\ waitsFor = {}
       /\ Ends(caughtAs(noted), safeToRetry)
       /\ UNCHANGED awaited
    \/ /\ waitsFor # {}
       /\ stage' = "settling"
       /\ awaited' = waitsFor
       /\ UNCHANGED <<lease, deadlines, result>>

-----------------------------------------------------------------------------
(* Up to the run                                                           *)

(* The context is not the agent's; a host had already cancelled; or the    *)
(* turn boundary is asked for.                                             *)
Starts ==
    /\ stage = "new"
    /\ \/ /\ Ends("refused", FALSE)
       \/ /\ hard # "no"
          /\ Ends("cancelled", TRUE)
       \/ /\ hard = "no"
          /\ stage' = "opening" /\ lease' = "pending"
          /\ UNCHANGED <<deadlines, result>>
    /\ UNCHANGED <<grace, ledger, outage, awaited>>

(* A turn that has gone by then closes what arrives (opening.then).        *)
Opens ==
    /\ lease = "pending"
    /\ lease' = IF over THEN "closed" ELSE "open"
    /\ stage' = IF stage = "opening" /\ hard = "no" THEN "admitting" ELSE stage
    /\ UNCHANGED <<grace, deadlines, ledger, outage, awaited, result>>

(* An execution of this id is in progress.                                 *)
OpenRefused ==
    /\ stage = "opening" /\ lease = "pending" /\ hard = "no"
    /\ EndsHolding("none", "refused", FALSE)
    /\ UNCHANGED <<grace, ledger, outage, awaited>>

Admits ==
    /\ stage = "admitting" /\ hard = "no"
    /\ \/ stage' = "preparing" /\ UNCHANGED <<lease, deadlines, result>>
       \/ Ends("refused", FALSE)
    /\ UNCHANGED <<grace, ledger, outage, awaited>>

(* Reach is computed and the catalogue listed.                             *)
Prepares ==
    /\ stage = "preparing" /\ hard = "no"
    /\ stage' = "running"
    /\ UNCHANGED <<grace, lease, deadlines, ledger, outage, awaited, result>>

(* A kernel call of the envelope's own rejects, for want of a record or    *)
(* for something else.                                                     *)
PreparationFails ==
    /\ stage \in {"opening", "admitting", "preparing"}
    /\ stage = "opening" => lease = "pending"
    /\ outage' \in BOOLEAN
    /\ EndsHolding(IF stage = "opening" THEN "none" ELSE lease, caughtAs(outage'), safeToRetry)
    /\ UNCHANGED <<grace, ledger, awaited>>

-----------------------------------------------------------------------------
(* The deadlines                                                           *)

(* timeoutMs passed, or the host cancelled.                                *)
Stops ==
    /\ ~over /\ hard = "no"
    /\ hard' = "stopped" /\ draining' = TRUE
    /\ UNCHANGED <<grace, stage, lease, armed, ledger, outage, awaited, result>>

(* The grace before timeoutMs began.                                       *)
SoftDeadline ==
    /\ stage # "new" /\ ~over /\ grace /\ ~draining
    /\ draining' = TRUE
    /\ UNCHANGED <<grace, stage, lease, hard, armed, ledger, outage, awaited, result>>

(* The grace given by a drain is over, and its reason is the stop's.       *)
GraceEnds ==
    /\ armed /\ hard = "no"
    /\ hard' = "outage"
    /\ UNCHANGED <<grace, stage, lease, draining, armed, ledger, outage, awaited, result>>

Drains ==
    /\ draining' = TRUE
    /\ hard' = IF ~grace /\ hard = "no" THEN "outage" ELSE hard
    /\ armed' = (armed \/ (grace /\ hard = "no"))

(* Whatever the envelope awaits is raced with the hard signal.             *)
Interrupted ==
    /\ stage \in {"opening", "admitting", "preparing", "running", "escalating"}
    /\ hard # "no"
    /\ Catches(outage)
    /\ UNCHANGED <<grace, ledger, outage>>

(* Mutant: the wait is for the calls and nothing else.                     *)
settledByCalls == awaited \intersect inFlight = {}

settled == awaited \intersect inFlight = {} \/ hard # "no"

Settles ==
    /\ stage = "settling" /\ settled
    /\ Ends(caughtAs(outage), safeToRetry)
    /\ UNCHANGED <<grace, ledger, outage, awaited>>

(* #recordTurnEnd, and execute answers.                                    *)
TurnEndRecorded ==
    /\ stage = "recording"
    /\ stage' = "ended"
    /\ UNCHANGED <<grace, lease, deadlines, ledger, outage, awaited, result>>

-----------------------------------------------------------------------------
(* Mediated calls                                                          *)

(* The host the plugin was given answers from the run on, and refuses once *)
(* the turn has stopped.                                                   *)
hostActive == stage \in {"running", "escalating", "settling"} /\ hard = "no"

stepIsWithinBudget(step) ==
    step < MaxSteps /\ (step \in steps \/ Cardinality(steps) < MaxSteps)

stepAllowed(step) == step # None => stepIsWithinBudget(step)

seen(step) == IF step = None THEN steps ELSE steps \union {step}

Refusing(c) == call' = [call EXCEPT ![c].phase = "refusing"]

(* The turn is draining, or the step is outside its budget.                *)
RefusesUnseen(c, step) ==
    /\ hostActive /\ call[c].phase = "idle"
    /\ draining \/ ~stepAllowed(step)
    /\ Refusing(c)
    /\ UNCHANGED <<grace, stage, lease, deadlines, steps, toolCallCount, writesWithKernel,
                   effectPossible, outage, awaited, result>>

(* The calls are spent, or the tool is not in this turn's catalogue.       *)
RefusesSeen(c, tool, step) ==
    /\ hostActive /\ call[c].phase = "idle"
    /\ ~draining /\ stepAllowed(step)
    /\ steps' = seen(step)
    /\ \/ toolCallCount >= MaxToolCalls /\ UNCHANGED toolCallCount
       \/ toolCallCount < MaxToolCalls /\ tool = "unoffered" /\ toolCallCount' = toolCallCount + 1
    /\ Refusing(c)
    /\ UNCHANGED <<grace, stage, lease, deadlines, writesWithKernel, effectPossible, outage,
                   awaited, result>>

(* #recordRefusedCall.                                                     *)
RefusalRecorded(c) ==
    /\ call[c].phase = "refusing"
    /\ call' = [call EXCEPT ![c].phase = "done"]
    /\ UNCHANGED <<grace, stage, lease, deadlines, steps, toolCallCount, writesWithKernel,
                   effectPossible, outage, awaited, result>>

Mediates(c, tool, step) ==
    /\ hostActive /\ call[c].phase = "idle"
    /\ ~draining /\ stepAllowed(step)
    /\ steps' = seen(step)
    /\ toolCallCount < MaxToolCalls /\ toolCallCount' = toolCallCount + 1
    /\ tool # "unoffered"
    /\ call' = [call EXCEPT ![c].phase = "kernel", ![c].tool = tool, ![c].step = step]
    /\ writesWithKernel' = IF tool = "write" THEN writesWithKernel + 1 ELSE writesWithKernel
    /\ UNCHANGED <<grace, stage, lease, deadlines, effectPossible, outage, awaited, result>>

(* The tool does what running it again would repeat.                       *)
Acts(c) ==
    /\ call[c].phase = "kernel" /\ call[c].tool = "write" /\ ~call[c].acted
    /\ call' = [call EXCEPT ![c].acted = TRUE]
    /\ UNCHANGED <<grace, stage, lease, deadlines, steps, toolCallCount, writesWithKernel,
                   effectPossible, outage, awaited, result>>

(* Invocation!NoneMeansNothingRan. A denial is the kernel's or the tool's. *)
mayAnswer(c, answer) ==
    /\ answer = "aborted" => hard # "no"
    /\ answer = "audit_none" => ~call[c].acted

(* The reason a call is aborted with may be the outage the turn ends on.   *)
isAuditUnavailable(answer) ==
    \/ answer \in {"audit_none", "audit_unknown"}
    \/ answer = "aborted" /\ hard = "outage"

(* Mutant: the outage a sibling was stopped with is taken for a refusal.   *)
didNothingByItsError(answer) ==
    \/ answer \in {"denied", "audit_none"}
    \/ answer = "aborted" /\ hard = "outage"

(* A denial is a refusal made before the tool ran; a failure may be one    *)
(* half way.                                                               *)
isRefusedBeforeEffect(answer) == answer = "denied"

(* That, or an outage met before the tool (refusedForOutage).              *)
didNothing(answer) ==
    \/ isRefusedBeforeEffect(answer)
    \/ answer = "audit_none" /\ hard = "no"

(* The kernel's promise settles, even after the turn stopped waiting.      *)
KernelAnswers(c, answer) ==
    /\ call[c].phase = "kernel"
    /\ mayAnswer(c, answer)
    /\ call' = [call EXCEPT ![c].phase = "done", ![c].disowned = (answer = "denied")]
    /\ LET write == call[c].tool = "write" IN
       /\ writesWithKernel' = IF write THEN writesWithKernel - 1 ELSE writesWithKernel
       /\ effectPossible' = (effectPossible \/ (write /\ ~didNothing(answer)))
    /\ outage' = (outage \/ isAuditUnavailable(answer))
    /\ IF outage' /\ ~outage /\ ~over THEN Drains ELSE UNCHANGED deadlines
    /\ UNCHANGED <<grace, stage, lease, steps, toolCallCount, awaited, result>>

-----------------------------------------------------------------------------
(* The run's own ending                                                    *)

(* Mutant: what the run answers stands.                                    *)
runAnswersAnyway == stage = "running" /\ hard = "no"

(* An outage noted while it ran is thrown over whatever it answered.       *)
runAnswers == stage = "running" /\ hard = "no" /\ ~outage

RunThrows ==
    /\ stage = "running" /\ hard = "no"
    /\ Catches(outage)
    /\ UNCHANGED <<grace, ledger, outage>>

RunCompletes ==
    /\ runAnswers
    /\ Ends("succeeded", FALSE)
    /\ UNCHANGED <<grace, ledger, outage, awaited>>

(* No outcome, or an escalation this turn's catalogue does not offer.      *)
RunMisbehaves ==
    /\ runAnswers
    /\ Ends("invalid", FALSE)
    /\ UNCHANGED <<grace, ledger, outage, awaited>>

capped(claim) == claim /\ safeToRetry

RunFails(retryable) ==
    /\ runAnswers
    /\ Ends("plugin_failed", capped(retryable))
    /\ UNCHANGED <<grace, ledger, outage, awaited>>

RunEscalates ==
    /\ runAnswers
    /\ stage' = "escalating"
    /\ UNCHANGED <<grace, lease, deadlines, ledger, outage, awaited, result>>

EscalationRecorded ==
    /\ stage = "escalating" /\ hard = "no"
    /\ Ends("escalated", FALSE)
    /\ UNCHANGED <<grace, ledger, outage, awaited>>

-----------------------------------------------------------------------------
Preparation == Starts \/ Opens \/ OpenRefused \/ Admits \/ Prepares \/ PreparationFails

Timers == Stops \/ SoftDeadline \/ GraceEnds

Mediation ==
    \E c \in Calls :
      \/ \E step \in Steps \union {None} :
           \/ RefusesUnseen(c, step)
           \/ \E tool \in Tools : RefusesSeen(c, tool, step) \/ Mediates(c, tool, step)
      \/ RefusalRecorded(c)
      \/ Acts(c)
      \/ \E answer \in Answers : KernelAnswers(c, answer)

Ending ==
    \/ Interrupted \/ Settles \/ TurnEndRecorded
    \/ RunThrows \/ RunCompletes \/ RunMisbehaves
    \/ \E retryable \in BOOLEAN : RunFails(retryable)
    \/ RunEscalates \/ EscalationRecorded

Next == Preparation \/ Timers \/ Mediation \/ Ending

(* The envelope's own continuations run, and the timeout fires. Nothing is *)
(* assumed of the plugin, of a tool or of the audit sink.                  *)
Fairness == WF_vars(Starts) /\ WF_vars(Stops) /\ WF_vars(Interrupted) /\ WF_vars(Settles)

Spec == Init /\ [][Next]_vars /\ Fairness

-----------------------------------------------------------------------------
(* Properties                                                              *)

(* A turn whose result says that it may be run again did nothing that      *)
(* running it again would repeat, and nothing it left behind will: not a   *)
(* call it stopped waiting for, nor one stopped by another's outage. Only  *)
(* a tool that acted and then answered denied is believed over that        *)
(* (safeToRetry, writesWithKernel, effectPossible, isRefusedBeforeEffect). *)
RetryRepeatsNothing ==
    result # None /\ result.retryable =>
        \A c \in Calls : call[c].acted => call[c].disowned

(* An outage noted while the plugin ran ends the turn, on that outage,     *)
(* whatever the plugin answers, throws or swallows and whichever signal    *)
(* fires first (auditOutage in #runTurn).                                  *)
OutageIsNotSwallowed ==
    [][outage /\ stage \in {"running", "settling"} /\ result' # None
         => result'.ending = "audit_unavailable"]_vars

(* A turn that ends early by draining, and was not stopped, leaves no call *)
(* inside its tool, though others were asked for and refused meanwhile     *)
(* (the catch of #runTurn, createTurnDeadlines).                           *)
DrainWaitsForCalls ==
    [][result = None /\ result' # None /\ draining /\ hard = "no"
         /\ result'.ending \in {"cancelled", "audit_unavailable"}
         => \A c \in Calls : call[c].phase # "kernel"]_vars

(* However many calls the plugin has out at once, no more reach the kernel *)
(* than its budgets allow (toolCallCount, stepIsWithinBudget).             *)
BudgetsBind ==
    LET mediated == {c \in Calls : call[c].tool # None} IN
    /\ Cardinality(mediated) <= MaxToolCalls
    /\ Cardinality({call[c].step : c \in mediated} \ {None}) <= MaxSteps

(* Every turn ends, whatever its plugin, its tools and the kernel leave    *)
(* unanswered, and holds no authority from then on, though its open were   *)
(* still under way (timeoutMs, raceAbort, the finally of #runTurn).        *)
EveryTurnEnds == <>[](result # None /\ lease # "open")

=============================================================================
