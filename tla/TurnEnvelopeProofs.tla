------------------------- MODULE TurnEnvelopeProofs -------------------------
(***************************************************************************)
(* TurnEnvelope, for any number of calls, steps and any budgets: a turn    *)
(* that may be run again repeats nothing, an outage is not swallowed, a    *)
(* drain waits for its calls and the budgets bind.                         *)
(***************************************************************************)
EXTENDS TurnEnvelope, FiniteSetTheorems, TLAPS

writesOut == {c \in Calls : call[c].phase = "kernel" /\ call[c].tool = "write"}

mediated == {c \in Calls : call[c].tool # None}

(* What one call did is known from where it is, or noted.                  *)
Accounted(o, effect, known) ==
    /\ o.phase \in {"idle", "refusing"} => o.tool = None /\ ~o.acted
    /\ o.acted => o.tool = "write" /\ (o.phase = "kernel" \/ effect \/ o.disowned)
    /\ o.step # None => o.step \in known

(* The envelope's counts say what its calls are.                           *)
LedgerKept ==
    /\ writesWithKernel = Cardinality(writesOut)
    /\ \A c \in Calls : Accounted(call[c], effectPossible, steps)
    /\ Cardinality(mediated) <= toolCallCount
    /\ steps \subseteq 0..(MaxSteps - 1)

(* No call is made before the run.                                         *)
QuietBeforeRun ==
    stage \in {"new", "opening", "admitting", "preparing"} =>
        safeToRetry /\ \A c \in Calls : call[c].phase = "idle"

(* What allows a retry stays true: a turn that is over starts nothing.     *)
RetryStands == result # None /\ result.retryable => safeToRetry

(* A turn that waits for its calls waits for all that are in their tools.  *)
WaitsForAll ==
    stage = "settling" => draining /\ \A c \in Calls : call[c].phase = "kernel" => c \in awaited

IInv == TypeOK /\ LedgerKept /\ QuietBeforeRun /\ RetryStands /\ WaitsForAll

-----------------------------------------------------------------------------
(* The ledger                                                              *)

(* The sets counted are finite.                                            *)
LEMMA Finite == IsFiniteSet(writesOut) /\ IsFiniteSet(mediated) /\ IsFiniteSet(Calls)
<1>1. writesOut \subseteq Calls /\ mediated \subseteq Calls
  BY DEF writesOut, mediated
<1> QED
  BY <1>1, FS_Subset, TurnEnvelopeAssumption

(* What the ledger's types say beyond the counters' bounds.                *)
LedgerTypes ==
    /\ call \in [Calls -> Call]
    /\ steps \subseteq Steps
    /\ toolCallCount \in 0..MaxToolCalls
    /\ writesWithKernel \in 0..Cardinality(Calls)
    /\ effectPossible \in BOOLEAN

(* A move of one call that sends no write to the kernel and none back.     *)
LEMMA QuietMove ==
    ASSUME IInv, NEW c \in Calls, NEW o \in Call,
           call' = [call EXCEPT ![c] = o],
           o.tool = call[c].tool,
           o.phase = "kernel" <=> call[c].phase = "kernel",
           Accounted(o, effectPossible', steps'),
           steps \subseteq steps', steps' \subseteq Steps,
           steps' \subseteq 0..(MaxSteps - 1),
           toolCallCount <= toolCallCount', toolCallCount' \in 0..MaxToolCalls,
           UNCHANGED <<writesWithKernel, effectPossible>>
    PROVE  LedgerTypes' /\ LedgerKept'
<1> USE DEF IInv, TypeOK
<1>1. call'[c] = o /\ \A d \in Calls \ {c} : call'[d] = call[d]
  OBVIOUS
<1>2. writesOut' = writesOut /\ mediated' = mediated
  BY <1>1 DEF writesOut, mediated
<1>3. \A d \in Calls : Accounted(call[d], effectPossible, steps)'
  <2> TAKE d \in Calls
  <2>1. CASE d = c
    BY <2>1, <1>1 DEF Accounted
  <2>2. CASE d # c
    BY <2>2, <1>1 DEF Accounted, LedgerKept
  <2> QED
    BY <2>1, <2>2
<1>4. Cardinality(mediated)' <= toolCallCount'
  <2>1. Cardinality(mediated) \in Nat
    BY Finite, FS_CardinalityType
  <2> QED
    BY <1>2, <2>1 DEF LedgerKept
<1>5. LedgerTypes'
  BY DEF LedgerTypes
<1> QED
  BY <1>2, <1>3, <1>4, <1>5 DEF LedgerKept

(* The steps seen stay within the budget.                                  *)
LEMMA SeenWithinBudget ==
    ASSUME IInv, NEW step \in Steps \union {None}, stepAllowed(step), steps' = seen(step)
    PROVE  /\ steps \subseteq steps' /\ steps' \subseteq Steps
           /\ steps' \subseteq 0..(MaxSteps - 1)
           /\ step # None => step \in steps'
<1>1. CASE step = None
  BY <1>1 DEF seen, IInv, TypeOK, LedgerKept
<1>2. CASE step # None
  <2>1. step \in Nat /\ step < MaxSteps /\ MaxSteps \in Nat
    BY <1>2, TurnEnvelopeAssumption DEF stepAllowed, stepIsWithinBudget
  <2>2. step \in 0..(MaxSteps - 1)
    BY <2>1
  <2> QED
    BY <1>2, <2>2 DEF seen, IInv, TypeOK, LedgerKept
<1> QED
  BY <1>1, <1>2

(* A refusal is recorded as one, and sends nothing.                        *)
LEMMA RefusingKept ==
    ASSUME IInv, NEW c \in Calls, call[c].phase = "idle", Refusing(c),
           steps \subseteq steps', steps' \subseteq Steps,
           steps' \subseteq 0..(MaxSteps - 1),
           toolCallCount <= toolCallCount', toolCallCount' \in 0..MaxToolCalls,
           UNCHANGED <<writesWithKernel, effectPossible>>
    PROVE  LedgerTypes' /\ LedgerKept'
<1> DEFINE o == [call[c] EXCEPT !.phase = "refusing"]
<1>1. call[c] \in Call /\ o \in Call
  BY DEF IInv, TypeOK, Call
<1>2. call' = [call EXCEPT ![c] = o]
  BY DEF Refusing, IInv, TypeOK
<1>3. /\ o.tool = call[c].tool /\ o.step = call[c].step /\ o.acted = call[c].acted
      /\ o.phase = "refusing"
  BY <1>1 DEF Call
<1>4. Accounted(o, effectPossible', steps')
  BY <1>3 DEF Accounted, IInv, LedgerKept
<1> HIDE DEF o
<1> QED
  BY <1>1, <1>2, <1>3, <1>4, QuietMove

LEMMA MediatesKept ==
    ASSUME IInv, NEW c \in Calls, NEW tool \in Tools, NEW step \in Steps \union {None},
           Mediates(c, tool, step)
    PROVE  LedgerTypes' /\ LedgerKept'
<1> USE DEF IInv
<1> DEFINE o == [call[c] EXCEPT !.phase = "kernel", !.tool = tool, !.step = step]
<1>1. call[c] \in Call /\ o \in Call
  BY DEF TypeOK, Call
<1>2. call' = [call EXCEPT ![c] = o]
  BY DEF Mediates, TypeOK
<1>3. o.tool = tool /\ o.step = step /\ o.phase = "kernel" /\ o.acted = call[c].acted
  BY <1>1 DEF Call
<1>4. call[c].tool = None /\ ~call[c].acted
  BY DEF Mediates, LedgerKept, Accounted
<1> HIDE DEF o
<1>5. call'[c] = o /\ \A d \in Calls \ {c} : call'[d] = call[d]
  BY <1>2 DEF TypeOK
<1>6. tool # None
  BY TurnEnvelopeAssumption
<1>7. /\ steps \subseteq steps' /\ steps' \subseteq Steps
      /\ steps' \subseteq 0..(MaxSteps - 1)
      /\ step # None => step \in steps'
  BY SeenWithinBudget DEF Mediates
<1>8. \A d \in Calls : Accounted(call[d], effectPossible, steps)'
  <2> TAKE d \in Calls
  <2>1. CASE d = c
    BY <2>1, <1>3, <1>4, <1>5, <1>7 DEF Accounted
  <2>2. CASE d # c
    <3>1. Accounted(call[d], effectPossible, steps) /\ call'[d] = call[d] /\ effectPossible' = effectPossible
      BY <2>2, <1>5 DEF LedgerKept, Mediates
    <3> QED
      BY <3>1, <1>7 DEF Accounted
  <2> QED
    BY <2>1, <2>2
<1>9. Cardinality(mediated)' <= toolCallCount'
  <2>1. mediated' = mediated \union {c} /\ c \notin mediated
    BY <1>3, <1>4, <1>5, <1>6 DEF mediated
  <2>2. Cardinality(mediated') = Cardinality(mediated) + 1
    BY <2>1, Finite, FS_AddElement
  <2>3. Cardinality(mediated) \in Nat
    BY Finite, FS_CardinalityType
  <2> QED
    BY <2>2, <2>3 DEF Mediates, LedgerKept, TypeOK
<1>10. writesWithKernel' = Cardinality(writesOut)' /\ writesWithKernel' \in 0..Cardinality(Calls)
  <2>1. writesWithKernel' = Cardinality(writesOut)'
    <3>1. CASE tool = "write"
      <4>1. writesOut' = writesOut \union {c} /\ c \notin writesOut
        BY <3>1, <1>3, <1>5 DEF writesOut, Mediates
      <4>2. Cardinality(writesOut') = Cardinality(writesOut) + 1
        BY <4>1, Finite, FS_AddElement
      <4> QED
        BY <3>1, <4>2 DEF Mediates, LedgerKept
    <3>2. CASE tool # "write"
      <4>1. writesOut' = writesOut
        BY <3>2, <1>3, <1>5 DEF writesOut, Mediates
      <4> QED
        BY <3>2, <4>1 DEF Mediates, LedgerKept
    <3> QED
      BY <3>1, <3>2
  <2>2. writesOut' \subseteq Calls
    BY DEF writesOut
  <2>3. /\ Cardinality(writesOut') <= Cardinality(Calls)
        /\ Cardinality(writesOut') \in Nat /\ Cardinality(Calls) \in Nat
    BY <2>2, Finite, FS_Subset, FS_CardinalityType
  <2> QED
    BY <2>1, <2>3
<1>11. LedgerTypes'
  <2>1. toolCallCount' \in 0..MaxToolCalls
    BY TurnEnvelopeAssumption DEF Mediates, TypeOK
  <2> QED
    BY <1>1, <1>2, <1>7, <1>10, <2>1, ZenonT(60) DEF LedgerTypes, Mediates, TypeOK
<1> QED
  BY <1>7, <1>8, <1>9, <1>10, <1>11 DEF LedgerKept

LEMMA ActsKept ==
    ASSUME IInv, NEW c \in Calls, Acts(c)
    PROVE  LedgerTypes' /\ LedgerKept'
<1> DEFINE o == [call[c] EXCEPT !.acted = TRUE]
<1>1. call[c] \in Call /\ o \in Call
  BY DEF IInv, TypeOK, Call
<1>2. call' = [call EXCEPT ![c] = o]
  BY DEF Acts, IInv, TypeOK
<1>3. o.tool = call[c].tool /\ o.step = call[c].step /\ o.phase = call[c].phase
  BY <1>1 DEF Call
<1>4. Accounted(o, effectPossible', steps')
  BY <1>3 DEF Accounted, IInv, LedgerKept, Acts
<1> HIDE DEF o
<1>5. /\ steps' \subseteq Steps /\ steps' \subseteq 0..(MaxSteps - 1)
      /\ toolCallCount' \in 0..MaxToolCalls /\ toolCallCount <= toolCallCount'
  BY DEF Acts, IInv, TypeOK, LedgerKept
<1> QED
  BY <1>1, <1>2, <1>3, <1>4, <1>5, QuietMove DEF Acts

LEMMA RefusalRecordedKept ==
    ASSUME IInv, NEW c \in Calls, RefusalRecorded(c)
    PROVE  LedgerTypes' /\ LedgerKept'
<1> DEFINE o == [call[c] EXCEPT !.phase = "done"]
<1>1. call[c] \in Call /\ o \in Call
  BY DEF IInv, TypeOK, Call
<1>2. call' = [call EXCEPT ![c] = o]
  BY DEF RefusalRecorded, IInv, TypeOK
<1>3. /\ o.tool = call[c].tool /\ o.step = call[c].step /\ o.phase = "done"
      /\ o.acted = call[c].acted /\ call[c].phase = "refusing"
  BY <1>1 DEF Call, RefusalRecorded
<1>4. Accounted(o, effectPossible', steps')
  BY <1>3 DEF Accounted, IInv, LedgerKept, RefusalRecorded
<1> HIDE DEF o
<1>5. /\ steps' \subseteq Steps /\ steps' \subseteq 0..(MaxSteps - 1)
      /\ toolCallCount' \in 0..MaxToolCalls /\ toolCallCount <= toolCallCount'
  BY DEF RefusalRecorded, IInv, TypeOK, LedgerKept
<1> QED
  BY <1>1, <1>2, <1>3, <1>4, <1>5, QuietMove DEF RefusalRecorded

LEMMA KernelAnswersKept ==
    ASSUME IInv, NEW c \in Calls, NEW answer \in Answers, KernelAnswers(c, answer)
    PROVE  LedgerTypes' /\ LedgerKept'
<1> USE DEF IInv
<1> DEFINE o == [call[c] EXCEPT !.phase = "done", !.disowned = (answer = "denied")]
<1>1. call[c] \in Call /\ o \in Call
  BY DEF TypeOK, Call
<1>2. call' = [call EXCEPT ![c] = o]
  BY DEF KernelAnswers, TypeOK
<1>3. /\ o.tool = call[c].tool /\ o.step = call[c].step /\ o.phase = "done"
      /\ o.acted = call[c].acted /\ o.disowned = (answer = "denied")
      /\ call[c].phase = "kernel"
  BY <1>1 DEF Call, KernelAnswers
<1> HIDE DEF o
<1>4. call'[c] = o /\ \A d \in Calls \ {c} : call'[d] = call[d]
  BY <1>2 DEF TypeOK
<1>5. steps' = steps /\ toolCallCount' = toolCallCount
  BY DEF KernelAnswers
<1>6. effectPossible' = (effectPossible \/ (call[c].tool = "write" /\ ~didNothing(answer)))
  BY DEF KernelAnswers
<1>7. \A d \in Calls : Accounted(call[d], effectPossible, steps)'
  <2> TAKE d \in Calls
  <2>0. Accounted(call[d], effectPossible, steps)
    BY DEF LedgerKept
  <2>1. CASE d = c
    <3>1. call[c].acted => effectPossible' \/ answer = "denied"
      BY <1>6, <2>0, <2>1 DEF KernelAnswers, mayAnswer, didNothing, isRefusedBeforeEffect, Accounted
    <3> QED
      BY <2>0, <2>1, <3>1, <1>3, <1>4, <1>5 DEF Accounted
  <2>2. CASE d # c
    BY <2>0, <2>2, <1>4, <1>5, <1>6 DEF Accounted
  <2> QED
    BY <2>1, <2>2
<1>8. mediated' = mediated
  BY <1>3, <1>4 DEF mediated
<1>9. writesWithKernel' = Cardinality(writesOut)'
  <2>1. CASE call[c].tool = "write"
    <3>1. writesOut' = writesOut \ {c} /\ c \in writesOut
      BY <2>1, <1>3, <1>4 DEF writesOut
    <3>2. Cardinality(writesOut') = Cardinality(writesOut) - 1
      BY <3>1, Finite, FS_RemoveElement
    <3> QED
      BY <2>1, <3>2 DEF KernelAnswers, LedgerKept
  <2>2. CASE call[c].tool # "write"
    <3>1. writesOut' = writesOut
      BY <2>2, <1>3, <1>4 DEF writesOut
    <3> QED
      BY <2>2, <3>1 DEF KernelAnswers, LedgerKept
  <2> QED
    BY <2>1, <2>2
<1>10. writesWithKernel' \in 0..Cardinality(Calls)
  <2>1. writesOut' \subseteq Calls
    BY DEF writesOut
  <2>2. /\ Cardinality(writesOut') <= Cardinality(Calls)
        /\ Cardinality(writesOut') \in Nat /\ Cardinality(Calls) \in Nat
    BY <2>1, Finite, FS_Subset, FS_CardinalityType
  <2> QED
    BY <1>9, <2>2
<1>11. LedgerTypes'
  BY <1>1, <1>2, <1>5, <1>6, <1>10 DEF LedgerTypes, TypeOK
<1> QED
  BY <1>5, <1>7, <1>8, <1>9, <1>11 DEF LedgerKept

LEMMA MediationKeepsLedger ==
    ASSUME IInv, Mediation PROVE LedgerTypes' /\ LedgerKept'
<1>1. PICK c \in Calls :
        \/ \E step \in Steps \union {None} :
             \/ RefusesUnseen(c, step)
             \/ \E tool \in Tools : RefusesSeen(c, tool, step) \/ Mediates(c, tool, step)
        \/ RefusalRecorded(c)
        \/ Acts(c)
        \/ \E answer \in Answers : KernelAnswers(c, answer)
  BY DEF Mediation
<1>2. CASE \E step \in Steps \union {None} : RefusesUnseen(c, step)
  <2>1. PICK step \in Steps \union {None} : RefusesUnseen(c, step)
    BY <1>2
  <2>2. /\ steps' = steps /\ toolCallCount' = toolCallCount /\ call[c].phase = "idle"
        /\ Refusing(c) /\ UNCHANGED <<writesWithKernel, effectPossible>>
    BY <2>1 DEF RefusesUnseen
  <2>3. /\ steps' \subseteq Steps /\ steps' \subseteq 0..(MaxSteps - 1)
        /\ toolCallCount' \in 0..MaxToolCalls /\ toolCallCount <= toolCallCount'
    BY <2>2 DEF IInv, TypeOK, LedgerKept
  <2> QED
    BY <2>2, <2>3, RefusingKept
<1>3. CASE \E step \in Steps \union {None}, tool \in Tools : RefusesSeen(c, tool, step)
  <2>1. PICK step \in Steps \union {None}, tool \in Tools : RefusesSeen(c, tool, step)
    BY <1>3
  <2>2. /\ steps \subseteq steps' /\ steps' \subseteq Steps
        /\ steps' \subseteq 0..(MaxSteps - 1)
    BY <2>1, SeenWithinBudget DEF RefusesSeen
  <2>3. toolCallCount' \in 0..MaxToolCalls /\ toolCallCount <= toolCallCount'
    BY <2>1, TurnEnvelopeAssumption DEF RefusesSeen, IInv, TypeOK
  <2>4. call[c].phase = "idle" /\ Refusing(c) /\ UNCHANGED <<writesWithKernel, effectPossible>>
    BY <2>1 DEF RefusesSeen
  <2> QED
    BY <2>2, <2>3, <2>4, RefusingKept
<1> QED
  BY <1>1, <1>2, <1>3, MediatesKept, RefusalRecordedKept, ActsKept, KernelAnswersKept

-----------------------------------------------------------------------------
(* The stages                                                              *)

(* What TypeOK says besides the ledger.                                    *)
StageTypes ==
    /\ grace \in Graces
    /\ stage \in Stages
    /\ lease \in {"none", "pending", "open", "closed"}
    /\ draining \in BOOLEAN
    /\ hard \in {"no", "stopped", "outage"}
    /\ armed \in BOOLEAN
    /\ outage \in BOOLEAN
    /\ awaited \subseteq Calls
    /\ result \in Result \union {None}
    /\ result # None <=> stage \in {"recording", "ended"}
    /\ hard # "no" \/ armed => draining

StageKept == StageTypes /\ QuietBeforeRun /\ RetryStands /\ WaitsForAll

LEMMA TypeSplits == TypeOK <=> LedgerTypes /\ StageTypes
BY DEF TypeOK, LedgerTypes, StageTypes

(* A turn that ends on something it may be retried after has nothing out.  *)
LEMMA EndsKept ==
    ASSUME IInv, NEW held \in {"none", "pending", "open", "closed"},
           NEW ending \in Endings, NEW retryable \in BOOLEAN,
           EndsHolding(held, ending, retryable),
           retryable => safeToRetry,
           UNCHANGED <<grace, ledger>>, outage' \in BOOLEAN, awaited' = awaited
    PROVE  StageKept'
<1> USE DEF IInv
<1>1. result' \in Result /\ result'.retryable = retryable /\ stage' = "recording"
  BY DEF EndsHolding, Result
<1>2. result' # None
  BY <1>1, TurnEnvelopeAssumption DEF Result
<1>3. lease' \in {"none", "pending", "open", "closed"}
  BY DEF EndsHolding, released
<1>4. StageTypes'
  BY <1>1, <1>2, <1>3 DEF StageTypes, TypeOK, EndsHolding, Stages
<1>5. safeToRetry' = safeToRetry
  BY DEF safeToRetry, ledger
<1> QED
  BY <1>1, <1>4, <1>5 DEF StageKept, QuietBeforeRun, RetryStands, WaitsForAll

LEMMA EndsHereKept ==
    ASSUME IInv, NEW ending \in Endings, NEW retryable \in BOOLEAN,
           Ends(ending, retryable), retryable => safeToRetry,
           UNCHANGED <<grace, ledger>>, outage' \in BOOLEAN, awaited' = awaited
    PROVE  StageKept'
<1>1. lease \in {"none", "pending", "open", "closed"}
  BY DEF IInv, TypeOK
<1>2. EndsHolding(lease, ending, retryable)
  BY DEF Ends
<1> QED
  BY <1>1, <1>2, EndsKept

LEMMA CaughtAsEnding ==
    ASSUME NEW noted PROVE caughtAs(noted) \in Endings /\ safeToRetry \in BOOLEAN
BY DEF caughtAs, Endings, safeToRetry

LEMMA CatchesKept ==
    ASSUME IInv, stage \notin {"recording", "ended"}, Catches(outage),
           UNCHANGED <<grace, ledger, outage>>
    PROVE  StageKept'
<1>1. outage' \in BOOLEAN
  BY DEF IInv, TypeOK
<1>2. CASE Ends(caughtAs(outage), safeToRetry) /\ UNCHANGED awaited
  BY <1>1, <1>2, CaughtAsEnding, EndsHereKept
<1>3. CASE /\ waitsFor # {} /\ stage' = "settling" /\ awaited' = waitsFor
           /\ UNCHANGED <<lease, deadlines, result>>
  <2>1. draining /\ hard = "no" /\ awaited' = inFlight
    BY <1>3 DEF waitsFor
  <2>2. inFlight \subseteq Calls /\ \A c \in Calls : call[c].phase = "kernel" => c \in inFlight
    BY DEF inFlight
  <2>3. result' = None
    BY <1>3 DEF IInv, TypeOK
  <2> QED
    BY <1>3, <2>1, <2>2, <2>3, <1>1
    DEF StageKept, StageTypes, QuietBeforeRun, RetryStands, WaitsForAll, IInv, TypeOK,
        Stages, deadlines, ledger
<1> QED
  BY <1>2, <1>3 DEF Catches

(* A step that keeps the turn's stage, signals and result where they are.  *)
LEMMA TimersKept ==
    ASSUME IInv, Timers PROVE StageKept'
<1>1. /\ UNCHANGED <<grace, stage, lease, ledger, outage, awaited, result>>
      /\ draining' \in BOOLEAN /\ armed' \in BOOLEAN /\ hard' \in {"no", "stopped", "outage"}
      /\ draining => draining'
      /\ hard' # "no" \/ armed' => draining'
  <2>1. CASE Stops
    BY <2>1 DEF Stops, IInv, TypeOK
  <2>2. CASE SoftDeadline
    BY <2>2 DEF SoftDeadline, IInv, TypeOK
  <2>3. CASE GraceEnds
    BY <2>3 DEF GraceEnds, IInv, TypeOK
  <2> QED
    BY <2>1, <2>2, <2>3 DEF Timers
<1> QED
  BY <1>1 DEF StageKept, StageTypes, QuietBeforeRun, RetryStands, WaitsForAll, safeToRetry,
              IInv, TypeOK, ledger

LEMMA PreparationKept ==
    ASSUME IInv, Preparation PROVE StageKept'
<1> USE DEF IInv
<1>1. CASE Starts
  <2>1. UNCHANGED <<grace, ledger>> /\ outage' \in BOOLEAN /\ awaited' = awaited /\ stage = "new"
    BY <1>1 DEF Starts, TypeOK
  <2>2. CASE Ends("refused", FALSE)
    BY <2>1, <2>2, EndsHereKept DEF Endings
  <2>3. CASE Ends("cancelled", TRUE)
    BY <2>1, <2>3, EndsHereKept DEF Endings, QuietBeforeRun
  <2>4. CASE stage' = "opening" /\ lease' = "pending" /\ UNCHANGED <<deadlines, result>>
    BY <2>1, <2>4 DEF StageKept, StageTypes, QuietBeforeRun, RetryStands, WaitsForAll,
                      safeToRetry, TypeOK, Stages, deadlines, ledger
  <2> QED
    BY <1>1, <2>2, <2>3, <2>4 DEF Starts
<1>2. CASE Opens
  BY <1>2 DEF Opens, StageKept, StageTypes, QuietBeforeRun, RetryStands, WaitsForAll,
              safeToRetry, TypeOK, Stages, deadlines, ledger
<1>3. CASE OpenRefused
  BY <1>3, EndsKept DEF OpenRefused, Endings, TypeOK
<1>4. CASE Admits
  <2>1. UNCHANGED <<grace, ledger>> /\ outage' \in BOOLEAN /\ awaited' = awaited
    BY <1>4 DEF Admits, TypeOK
  <2>2. CASE Ends("refused", FALSE)
    BY <2>1, <2>2, EndsHereKept DEF Endings
  <2>3. CASE stage' = "preparing" /\ UNCHANGED <<lease, deadlines, result>>
    BY <1>4, <2>1, <2>3 DEF Admits, StageKept, StageTypes, QuietBeforeRun, RetryStands,
              WaitsForAll, safeToRetry, TypeOK, Stages, deadlines, ledger
  <2> QED
    BY <1>4, <2>2, <2>3 DEF Admits
<1>5. CASE Prepares
  BY <1>5 DEF Prepares, StageKept, StageTypes, QuietBeforeRun, RetryStands, WaitsForAll,
              safeToRetry, TypeOK, Stages, deadlines, ledger
<1>6. CASE PreparationFails
  <2> DEFINE held == IF stage = "opening" THEN "none" ELSE lease
  <2>1. held \in {"none", "pending", "open", "closed"}
    BY DEF TypeOK
  <2>2. caughtAs(outage') \in Endings /\ safeToRetry \in BOOLEAN
    BY DEF caughtAs, Endings, safeToRetry
  <2>3. EndsHolding(held, caughtAs(outage'), safeToRetry)
    BY <1>6 DEF PreparationFails
  <2>4. UNCHANGED <<grace, ledger>> /\ outage' \in BOOLEAN /\ awaited' = awaited
    BY <1>6 DEF PreparationFails
  <2>5. PICK ending \in Endings : ending = caughtAs(outage')
    BY <2>2
  <2> HIDE DEF held
  <2> QED
    BY <2>1, <2>2, <2>3, <2>4, <2>5, EndsKept
<1> QED
  BY <1>1, <1>2, <1>3, <1>4, <1>5, <1>6 DEF Preparation

LEMMA MediationKept ==
    ASSUME IInv, Mediation PROVE StageKept'
<1> USE DEF IInv
<1>1. PICK c \in Calls :
        \/ \E step \in Steps \union {None} :
             \/ RefusesUnseen(c, step)
             \/ \E tool \in Tools : RefusesSeen(c, tool, step) \/ Mediates(c, tool, step)
        \/ RefusalRecorded(c)
        \/ Acts(c)
        \/ \E answer \in Answers : KernelAnswers(c, answer)
  BY DEF Mediation
<1>2. CASE \E step \in Steps \union {None} :
             \/ RefusesUnseen(c, step)
             \/ \E tool \in Tools : RefusesSeen(c, tool, step) \/ Mediates(c, tool, step)
  <2>1. /\ stage \in {"running", "escalating", "settling"}
        /\ UNCHANGED <<grace, stage, lease, deadlines, outage, awaited, result>>
        /\ stage = "settling" =>
             \A d \in Calls : call'[d].phase = "kernel" => call[d].phase = "kernel"
    <3>1. PICK step \in Steps \union {None} :
            \/ RefusesUnseen(c, step)
            \/ \E tool \in Tools : RefusesSeen(c, tool, step) \/ Mediates(c, tool, step)
      BY <1>2
    <3>2. CASE RefusesUnseen(c, step)
      BY <3>2 DEF RefusesUnseen, Refusing, hostActive, TypeOK, Call
    <3>3. CASE \E tool \in Tools : RefusesSeen(c, tool, step)
      BY <3>3 DEF RefusesSeen, Refusing, hostActive, TypeOK, Call
    <3>4. CASE \E tool \in Tools : Mediates(c, tool, step)
      BY <3>4 DEF Mediates, hostActive, WaitsForAll, TypeOK
    <3> QED
      BY <3>1, <3>2, <3>3, <3>4
  <2> QED
    BY <2>1 DEF StageKept, StageTypes, QuietBeforeRun, RetryStands, WaitsForAll, TypeOK, deadlines
<1>3. CASE RefusalRecorded(c) \/ Acts(c)
  <2>1. /\ UNCHANGED <<grace, stage, lease, deadlines, writesWithKernel, effectPossible, outage,
                       awaited, result>>
        /\ call[c].phase # "idle"
        /\ \A d \in Calls : call'[d].phase = "kernel" => call[d].phase = "kernel"
    BY <1>3 DEF RefusalRecorded, Acts, TypeOK, Call
  <2> QED
    BY <2>1 DEF StageKept, StageTypes, QuietBeforeRun, RetryStands, WaitsForAll, safeToRetry,
                TypeOK, deadlines
<1>4. CASE \E answer \in Answers : KernelAnswers(c, answer)
  <2>1. PICK answer \in Answers : KernelAnswers(c, answer)
    BY <1>4
  <2>2. /\ UNCHANGED <<grace, stage, lease, awaited, result>>
        /\ outage' \in BOOLEAN
        /\ call[c].phase = "kernel"
    BY <2>1 DEF KernelAnswers, TypeOK
  <2>3. \A d \in Calls : call'[d].phase = "kernel" => call[d].phase = "kernel"
    BY <2>1 DEF KernelAnswers, TypeOK, Call
  <2>4. /\ draining' \in BOOLEAN /\ armed' \in BOOLEAN /\ hard' \in {"no", "stopped", "outage"}
        /\ draining => draining'
        /\ hard' # "no" \/ armed' => draining'
    BY <2>1 DEF KernelAnswers, Drains, deadlines, TypeOK
  <2>5. safeToRetry => safeToRetry'
    <3>1. CASE call[c].tool = "write"
      <4>1. c \in writesOut
        BY <3>1, <2>2 DEF writesOut
      <4>2. Cardinality(writesOut) # 0
        BY <4>1, Finite, FS_EmptySet
      <4> QED
        BY <4>2 DEF LedgerKept, safeToRetry
    <3>2. CASE call[c].tool # "write"
      BY <3>2, <2>1 DEF KernelAnswers, safeToRetry
    <3> QED
      BY <3>1, <3>2
  <2>6. StageTypes'
    BY <2>2, <2>4 DEF StageTypes, TypeOK
  <2>7. QuietBeforeRun'
    BY <2>2 DEF QuietBeforeRun
  <2>8. RetryStands'
    BY <2>2, <2>5 DEF RetryStands
  <2>9. WaitsForAll'
    BY <2>2, <2>3, <2>4 DEF WaitsForAll
  <2> QED
    BY <2>6, <2>7, <2>8, <2>9 DEF StageKept
<1> QED
  BY <1>1, <1>2, <1>3, <1>4

LEMMA EndingKept ==
    ASSUME IInv, Ending PROVE StageKept'
<1> USE DEF IInv
<1>1. CASE Interrupted
  BY <1>1, CatchesKept DEF Interrupted
<1>2. CASE Settles
  BY <1>2, CaughtAsEnding, EndsHereKept DEF Settles, TypeOK
<1>3. CASE TurnEndRecorded
  BY <1>3 DEF TurnEndRecorded, StageKept, StageTypes, QuietBeforeRun, RetryStands, WaitsForAll,
              safeToRetry, TypeOK, Stages, deadlines, ledger
<1>4. CASE RunThrows
  BY <1>4, CatchesKept DEF RunThrows
<1>5. CASE RunCompletes
  BY <1>5, EndsHereKept DEF RunCompletes, Endings, TypeOK
<1>6. CASE RunMisbehaves
  BY <1>6, EndsHereKept DEF RunMisbehaves, Endings, TypeOK
<1>7. CASE \E retryable \in BOOLEAN : RunFails(retryable)
  <2>1. PICK retryable \in BOOLEAN : RunFails(retryable)
    BY <1>7
  <2>2. capped(retryable) \in BOOLEAN /\ (capped(retryable) => safeToRetry)
    BY DEF capped
  <2> QED
    BY <2>1, <2>2, EndsHereKept DEF RunFails, Endings, TypeOK
<1>8. CASE RunEscalates
  BY <1>8 DEF RunEscalates, runAnswers, StageKept, StageTypes, QuietBeforeRun, RetryStands,
              WaitsForAll, safeToRetry, TypeOK, Stages, deadlines, ledger
<1>9. CASE EscalationRecorded
  BY <1>9, EndsHereKept DEF EscalationRecorded, Endings, TypeOK
<1> QED
  BY <1>1, <1>2, <1>3, <1>4, <1>5, <1>6, <1>7, <1>8, <1>9 DEF Ending

-----------------------------------------------------------------------------
(* The invariant, and what follows from it                                 *)

LEMMA InitInvariant == Init => IInv
<1> SUFFICES ASSUME Init PROVE IInv
  OBVIOUS
<1>1. writesOut = {} /\ mediated = {}
  BY DEF Init, writesOut, mediated
<1>2. Cardinality(writesOut) = 0 /\ Cardinality(mediated) = 0
  BY <1>1, FS_EmptySet
<1>3. LedgerTypes
  <2>1. Cardinality(Calls) \in Nat
    BY Finite, FS_CardinalityType
  <2>2. call \in [Calls -> Call]
    BY DEF Init, Call
  <2>3. 0 \in 0..MaxToolCalls /\ 0 \in 0..Cardinality(Calls)
    BY <2>1, TurnEnvelopeAssumption
  <2> QED
    BY <2>2, <2>3 DEF LedgerTypes, Init
<1>4. StageTypes
  BY DEF StageTypes, Init, Stages
<1>5. LedgerKept
  BY <1>2 DEF LedgerKept, Accounted, Init
<1>6. QuietBeforeRun /\ RetryStands /\ WaitsForAll
  BY DEF QuietBeforeRun, RetryStands, WaitsForAll, safeToRetry, Init
<1> QED
  BY <1>3, <1>4, <1>5, <1>6, TypeSplits DEF IInv

LEMMA NextInvariant == IInv /\ [Next]_vars => IInv'
<1> SUFFICES ASSUME IInv, [Next]_vars PROVE LedgerTypes' /\ LedgerKept' /\ StageKept'
  BY DEF IInv, StageKept, TypeOK, LedgerTypes, StageTypes
<1>1. ASSUME UNCHANGED ledger PROVE LedgerTypes' /\ LedgerKept'
  BY <1>1 DEF IInv, TypeOK, LedgerTypes, LedgerKept, Accounted, ledger, writesOut, mediated
<1>2. CASE Preparation
  <2>1. UNCHANGED ledger
    BY <1>2 DEF Preparation, Starts, Opens, OpenRefused, Admits, Prepares, PreparationFails
  <2> QED
    BY <1>1, <1>2, <2>1, PreparationKept
<1>3. CASE Timers
  <2>1. UNCHANGED ledger
    BY <1>3 DEF Timers, Stops, SoftDeadline, GraceEnds
  <2> QED
    BY <1>1, <1>3, <2>1, TimersKept
<1>4. CASE Mediation
  BY <1>4, MediationKeepsLedger, MediationKept
<1>5. CASE Ending
  <2>1. UNCHANGED ledger
    BY <1>5 DEF Ending, Interrupted, Settles, TurnEndRecorded, RunThrows, RunCompletes,
                RunMisbehaves, RunFails, RunEscalates, EscalationRecorded
  <2> QED
    BY <1>1, <1>5, <2>1, EndingKept
<1>6. CASE UNCHANGED vars
  BY <1>1, <1>6 DEF vars, deadlines, ledger, StageKept, StageTypes, QuietBeforeRun, RetryStands,
                    WaitsForAll, safeToRetry, IInv, TypeOK
<1> QED
  BY <1>2, <1>3, <1>4, <1>5, <1>6 DEF Next

(* The inductive invariant of the envelope: types, counts, and what the    *)
(* stage says of the calls (#runTurn).                                     *)
THEOREM InductiveInvariant == Spec => []IInv
BY InitInvariant, NextInvariant, PTL DEF Spec

(* The turn's variables have their types, and a turn that is stopped, or   *)
(* about to be, drains (createTurnDeadlines).                              *)
THEOREM TypeCorrect == Spec => []TypeOK
<1>1. IInv => TypeOK
  BY DEF IInv
<1> QED
  BY <1>1, InductiveInvariant, PTL

(* What a turn that may be run again did is nothing but what a tool denied *)
(* having done: the counts of #runTurn lose no call.                       *)
THEOREM RetriesRepeatNothing == Spec => []RetryRepeatsNothing
<1>1. IInv => RetryRepeatsNothing
  <2> SUFFICES ASSUME IInv, result # None, result.retryable,
                      NEW c \in Calls, call[c].acted
               PROVE  call[c].disowned
    BY DEF RetryRepeatsNothing
  <2>1. safeToRetry
    BY DEF IInv, RetryStands
  <2>2. Cardinality(writesOut) = 0
    BY <2>1 DEF IInv, LedgerKept, safeToRetry
  <2>3. c \notin writesOut
    BY <2>2, Finite, FS_EmptySet
  <2> QED
    BY <2>1, <2>3 DEF IInv, LedgerKept, Accounted, safeToRetry, writesOut
<1> QED
  BY <1>1, InductiveInvariant, PTL

(* Budgets bind however many calls are out at once (#runTurn's mediateTool *)
(* counts a call before the kernel has it).                                *)
THEOREM BudgetsAlwaysBind == Spec => []BudgetsBind
<1>1. IInv => BudgetsBind
  <2> SUFFICES ASSUME IInv
               PROVE  /\ Cardinality(mediated) <= MaxToolCalls
                      /\ Cardinality({call[c].step : c \in mediated} \ {None}) <= MaxSteps
    BY DEF BudgetsBind, mediated
  <2>1. Cardinality(mediated) <= MaxToolCalls
    <3>1. Cardinality(mediated) \in Nat
      BY Finite, FS_CardinalityType
    <3> QED
      BY <3>1, TurnEnvelopeAssumption DEF IInv, TypeOK, LedgerKept
  <2>2. Cardinality({call[c].step : c \in mediated} \ {None}) <= MaxSteps
    <3> DEFINE declared == {call[c].step : c \in mediated} \ {None}
    <3>1. declared \subseteq 0..(MaxSteps - 1)
      BY DEF IInv, LedgerKept, Accounted, mediated
    <3>2. MaxSteps \in Nat /\ MaxSteps >= 1
      BY TurnEnvelopeAssumption
    <3>3. IsFiniteSet(0..(MaxSteps - 1)) /\ Cardinality(0..(MaxSteps - 1)) = MaxSteps
      BY <3>2, FS_Interval
    <3> HIDE DEF declared
    <3>4. Cardinality(declared) <= MaxSteps
      BY <3>1, <3>3, FS_Subset
    <3> QED
      BY <3>4 DEF declared
  <2> QED
    BY <2>1, <2>2
<1> QED
  BY <1>1, InductiveInvariant, PTL

(* No way out of the run forgets an outage that was noted in it: every     *)
(* answer of the plugin is overruled, every catch reads it first.          *)
THEOREM OutagesAreNotSwallowed == Spec => OutageIsNotSwallowed
<1>1. IInv /\ [Next]_vars =>
        [outage /\ stage \in {"running", "settling"} /\ result' # None
           => result'.ending = "audit_unavailable"]_vars
  <2> SUFFICES ASSUME IInv, Next, outage, stage \in {"running", "settling"}, result' # None
               PROVE  result'.ending = "audit_unavailable"
    OBVIOUS
  <2>1. result = None
    BY DEF IInv, TypeOK
  <2>2. ASSUME Catches(outage) PROVE result'.ending = "audit_unavailable"
    BY <2>1, <2>2 DEF Catches, Ends, EndsHolding, caughtAs
  <2>3. CASE Preparation
    BY <2>1, <2>3 DEF Preparation, Starts, Opens, OpenRefused, Admits, Prepares, PreparationFails
  <2>4. CASE Timers
    BY <2>1, <2>4 DEF Timers, Stops, SoftDeadline, GraceEnds
  <2>5. CASE Mediation
    BY <2>1, <2>5, ZenonT(60) DEF Mediation, RefusesUnseen, RefusesSeen, RefusalRecorded, Mediates, Acts,
                      KernelAnswers
  <2>6. CASE Ending
    <3>1. CASE Interrupted \/ RunThrows
      BY <2>2, <3>1 DEF Interrupted, RunThrows
    <3>2. CASE Settles
      BY <3>2 DEF Settles, Ends, EndsHolding, caughtAs
    <3>3. CASE TurnEndRecorded \/ RunEscalates \/ EscalationRecorded
      BY <2>1, <3>3 DEF TurnEndRecorded, RunEscalates, EscalationRecorded
    <3>4. CASE RunCompletes \/ RunMisbehaves \/ \E retryable \in BOOLEAN : RunFails(retryable)
      BY <3>4 DEF RunCompletes, RunMisbehaves, RunFails, runAnswers
    <3> QED
      BY <2>6, <3>1, <3>2, <3>3, <3>4 DEF Ending
  <2> QED
    BY <2>3, <2>4, <2>5, <2>6 DEF Next
<1> QED
  BY <1>1, InductiveInvariant, PTL DEF Spec, OutageIsNotSwallowed

(* A turn that ends by draining has heard every call it sent: what is in a *)
(* tool when the catch begins is awaited, and nothing is sent after.       *)
THEOREM DrainsWaitForCalls == Spec => DrainWaitsForCalls
<1>1. IInv /\ [Next]_vars =>
        [result = None /\ result' # None /\ draining /\ hard = "no"
           /\ result'.ending \in {"cancelled", "audit_unavailable"}
           => \A c \in Calls : call[c].phase # "kernel"]_vars
  <2> SUFFICES ASSUME IInv, Next, result = None, result' # None, draining, hard = "no",
                      result'.ending \in {"cancelled", "audit_unavailable"},
                      NEW c \in Calls, call[c].phase = "kernel"
               PROVE  FALSE
    OBVIOUS
  <2>1. stage \notin {"new", "opening", "admitting", "preparing"}
    BY DEF IInv, QuietBeforeRun
  <2>2. c \in inFlight
    BY DEF inFlight
  <2>3. CASE Preparation
    BY <2>1, <2>3 DEF Preparation, Starts, Opens, OpenRefused, Admits, Prepares, PreparationFails
  <2>4. CASE Timers
    BY <2>4 DEF Timers, Stops, SoftDeadline, GraceEnds
  <2>5. CASE Mediation
    BY <2>5 DEF Mediation, RefusesUnseen, RefusesSeen, RefusalRecorded, Mediates, Acts,
                KernelAnswers
  <2>6. CASE Ending
    <3>1. CASE Interrupted \/ TurnEndRecorded \/ RunEscalates
      BY <3>1 DEF Interrupted, TurnEndRecorded, RunEscalates
    <3>2. CASE RunThrows
      BY <2>2, <3>2 DEF RunThrows, Catches, waitsFor
    <3>3. CASE Settles
      BY <2>2, <3>3 DEF Settles, settled, IInv, WaitsForAll
    <3>4. CASE RunCompletes \/ RunMisbehaves \/ EscalationRecorded
      BY <3>4 DEF RunCompletes, RunMisbehaves, EscalationRecorded, Ends, EndsHolding
    <3>5. CASE \E retryable \in BOOLEAN : RunFails(retryable)
      BY <3>5 DEF RunFails, Ends, EndsHolding
    <3> QED
      BY <2>6, <3>1, <3>2, <3>3, <3>4, <3>5 DEF Ending
  <2> QED
    BY <2>3, <2>4, <2>5, <2>6 DEF Next
<1> QED
  BY <1>1, InductiveInvariant, PTL DEF Spec, DrainWaitsForCalls

=============================================================================
