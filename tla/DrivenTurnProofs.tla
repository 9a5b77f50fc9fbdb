------------------------- MODULE DrivenTurnProofs -------------------------
(* Proofs about the standard loop: whatever sits in its seat, and with each*)
(* of the seats that DrivenTurn puts there.                                *)
EXTENDS DrivenTurn, FiniteSetTheorems, TLAPS

(* While the loop holds a session it has closed none; what it closed it    *)
(* closed with the status that goes with its outcome; and a session closed *)
(* late is one it never held.                                              *)
ClosingInv ==
    /\ at \in {"opening", "asking", "calling"} => outcome = None /\ closings = <<>>
    /\ at \in {"asking", "calling"} => session
    /\ at = "opening" => ~session
    /\ at \in {"closing", "done"} => outcome \in Outcomes /\ closeOutcome = endingOf(outcome)
    /\ at = "closing" => closings = <<closeOutcome>>
    /\ closings \in {<<>>, <<closeOutcome>>}
    /\ opening = "pending" => closings = <<>>
    /\ opening = "pending" => at \in {"opening", "done"}
    /\ session => opening = "answered"

LoopIInv == LoopTypeOK /\ ClosingInv

(* Append makes a sequence of statuses of one.                             *)
LEMMA ClosedOnce ==
    ASSUME NEW status \in Statuses
    PROVE  /\ Append(<<>>, status) = <<status>>
           /\ <<status>> \in Seq(Statuses)
           /\ <<>> \in Seq(Statuses)
           /\ Len(<<status>>) = 1 /\ Len(<<>>) = 0
           /\ <<status>>[1] = status /\ <<status>> # <<>>
OBVIOUS

(* What run's finally leaves, given an ending and the status it goes with. *)
LEMMA EndsWell ==
    ASSUME LoopIInv, at \in {"opening", "asking", "calling"},
           NEW held \in BOOLEAN, NEW last \in Outcomes,
           EndsWith(held, last, endingOf(last)), session' \in BOOLEAN,
           held => opening' = "answered", session' => held
    PROVE  /\ at' \in {"closing", "done"} /\ outcome' = last
           /\ closeOutcome' = endingOf(last) /\ closeOutcome' \in Statuses
           /\ closings' \in Seq(Statuses) /\ closings' \in {<<>>, <<closeOutcome'>>}
           /\ at' = "closing" => closings' = <<closeOutcome'>>
           /\ ~held => closings' = <<>>
<1>1. endingOf(last) \in Statuses
  BY DEF endingOf, Statuses, Outcomes
<1>2. closings = <<>>
  BY DEF LoopIInv, ClosingInv
<1>3. QED
  BY <1>1, <1>2, ClosedOnce DEF EndsWith

(* The invariant holds at the start.                                       *)
LEMMA LoopInitInv == LoopInit => LoopIInv
<1> SUFFICES ASSUME LoopInit PROVE LoopIInv
  OBVIOUS
<1>1. closings \in Seq(Statuses)
  BY DEF LoopInit
<1>2a. 0 \in 0..(MaxSteps - 1)
  BY StandardRuntimeAssumption
<1>2. LoopTypeOK
  BY <1>1, <1>2a DEF LoopInit, LoopTypeOK, Statuses, Outcomes
<1>3. ClosingInv
  BY DEF LoopInit, ClosingInv
<1>4. QED
  BY <1>2, <1>3 DEF LoopIInv

(* The catch, whichever way it goes.                                       *)
LEMMA CatchesWell ==
    ASSUME LoopIInv, at \in {"opening", "asking", "calling"}, NEW held \in BOOLEAN,
           Catches(held)
    PROVE  \E last \in Outcomes : EndsWith(held, last, endingOf(last))
<1>1. endingOf("thrown") = "cancelled" /\ endingOf("fail") = "failed"
  BY DEF endingOf
<1>2. {"thrown", "fail"} \subseteq Outcomes
  BY DEF Outcomes
<1>3. QED
  BY <1>1, <1>2 DEF Catches

(* The top of the loop: an ending, or the next question.                   *)
LEMMA ContinuesWell ==
    ASSUME LoopIInv, at \in {"opening", "calling"}, NEW next \in Nat, Continues(next)
    PROVE  \/ /\ \E last \in Outcomes : EndsWith(TRUE, last, endingOf(last))
              /\ step' = step
           \/ /\ at' = "asking" /\ step' = next /\ next \in 0..(MaxSteps - 1)
              /\ UNCHANGED <<closeOutcome, closings, outcome>>
<1>1. endingOf("thrown") = "cancelled" /\ endingOf("fail") = "failed"
  BY DEF endingOf
<1>2. {"thrown", "fail"} \subseteq Outcomes
  BY DEF Outcomes
<1>3. CASE draining
  BY <1>1, <1>2, <1>3 DEF Continues
<1>4. CASE ~draining /\ next >= MaxSteps
  BY <1>1, <1>2, <1>4 DEF Continues
<1>5. CASE ~draining /\ ~(next >= MaxSteps)
  <2>1. next \in 0..(MaxSteps - 1)
    BY <1>5, StandardRuntimeAssumption
  <2>2. QED
    BY <1>5, <2>1 DEF Continues
<1>6. QED
  BY <1>3, <1>4, <1>5

-----------------------------------------------------------------------------
(* Each action keeps the invariant.                                        *)

LEMMA OpensInv == LoopIInv /\ Opens => LoopIInv'
<1> SUFFICES ASSUME LoopIInv, Opens PROVE LoopIInv'
  OBVIOUS
<1>1. at = "opening" /\ opening = "pending" /\ opening' = "answered" /\ session'
  BY DEF Opens
<1>2. 0 \in Nat /\ Continues(0)
  BY DEF Opens
<1>3. CASE \E last \in Outcomes : EndsWith(TRUE, last, endingOf(last)) /\ step' = step
  <2>1. PICK last \in Outcomes : EndsWith(TRUE, last, endingOf(last))
    BY <1>3
  <2>2. /\ at' = "closing" /\ outcome' = last /\ closeOutcome' = endingOf(last)
        /\ closeOutcome' \in Statuses /\ closings' = <<closeOutcome'>>
        /\ closings' \in Seq(Statuses)
    BY <1>1, <2>1, EndsWell DEF EndsWith
  <2>3. QED
    BY <1>1, <1>3, <2>2 DEF Opens, LoopIInv, LoopTypeOK, ClosingInv
<1>4. CASE /\ at' = "asking" /\ step' = 0 /\ 0 \in 0..(MaxSteps - 1)
           /\ UNCHANGED <<closeOutcome, closings, outcome>>
  BY <1>1, <1>4 DEF Opens, LoopIInv, LoopTypeOK, ClosingInv
<1>5. QED
  BY <1>1, <1>2, <1>3, <1>4, ContinuesWell

LEMMA OpensLateInv == LoopIInv /\ OpensLate => LoopIInv'
<1> SUFFICES ASSUME LoopIInv, OpensLate PROVE LoopIInv'
  OBVIOUS
<1>1. closings = <<>> /\ closings' = Append(closings, closeOutcome) /\ closeOutcome \in Statuses
  BY DEF OpensLate, LoopIInv, LoopTypeOK, ClosingInv
<1>2. closings' = <<closeOutcome>> /\ closings' \in Seq(Statuses)
  BY <1>1, ClosedOnce
<1>3. QED
  BY <1>2 DEF OpensLate, loop, LoopIInv, LoopTypeOK, ClosingInv

(* What the five actions that only end the run share.                      *)
LEMMA EndedInv ==
    ASSUME LoopIInv, at \in {"opening", "asking", "calling"},
           NEW held \in BOOLEAN,
           \E last \in Outcomes : EndsWith(held, last, endingOf(last)),
           held = session,
           opening' \in {"pending", "answered", "rejected"},
           opening' = "pending" => at = "opening" /\ opening = "pending",
           session => opening' = "answered",
           step' = step, session' = session, askNoted' \in BOOLEAN,
           hashNoted' = hashNoted, draining' = draining, aborted' = aborted
    PROVE  LoopIInv'
<1>1. PICK last \in Outcomes : EndsWith(held, last, endingOf(last))
  OBVIOUS
<1>2. session \in BOOLEAN
  BY DEF LoopIInv, LoopTypeOK
<1>3. /\ at' \in {"closing", "done"} /\ outcome' = last /\ outcome' \in Outcomes
      /\ closeOutcome' = endingOf(last) /\ closeOutcome' \in Statuses
      /\ closings' \in Seq(Statuses) /\ closings' \in {<<>>, <<closeOutcome'>>}
      /\ at' = "closing" => closings' = <<closeOutcome'>>
      /\ ~held => closings' = <<>>
      /\ at' = "closing" <=> held
  BY <1>1, <1>2, EndsWell DEF EndsWith
<1>4. opening' = "pending" => at' = "done" /\ closings' = <<>>
  BY <1>2, <1>3 DEF LoopIInv, ClosingInv
<1>5. endingOf(outcome') = endingOf(last)
  BY <1>3
<1>6. LoopTypeOK'
  BY <1>3 DEF LoopIInv, LoopTypeOK
<1>7. ClosingInv'
  BY <1>3, <1>4, <1>5 DEF ClosingInv, endingOf
<1>8. QED
  BY <1>6, <1>7 DEF LoopIInv

LEMMA OpenRejectsInv == LoopIInv /\ OpenRejects => LoopIInv'
<1> SUFFICES ASSUME LoopIInv, OpenRejects PROVE LoopIInv'
  OBVIOUS
<1>1. opening = "pending" /\ opening' = "rejected" /\ at \in {"opening", "done"} /\ ~session
  BY DEF OpenRejects, LoopIInv, LoopTypeOK, ClosingInv
<1>2. CASE at = "opening"
  <2>1. Catches(FALSE)
    BY <1>2 DEF OpenRejects
  <2>2. \E last \in Outcomes : EndsWith(FALSE, last, endingOf(last))
    BY <1>2, <2>1, CatchesWell
  <2>3. askNoted' \in BOOLEAN
    BY DEF OpenRejects, LoopIInv, LoopTypeOK
  <2>4. FALSE = session
    BY <1>1 DEF LoopIInv, LoopTypeOK
  <2>5. QED
    BY <1>1, <1>2, <2>2, <2>3, <2>4, EndedInv DEF OpenRejects
<1>3. CASE at = "done"
  BY <1>1, <1>3 DEF OpenRejects, LoopIInv, LoopTypeOK, ClosingInv
<1>4. QED
  BY <1>1, <1>2, <1>3

LEMMA AbortWakesInv == LoopIInv /\ AbortWakes => LoopIInv'
<1> SUFFICES ASSUME LoopIInv, AbortWakes PROVE LoopIInv'
  OBVIOUS
<1>1. at \in {"opening", "asking"} /\ session \in BOOLEAN /\ Catches(session)
  BY DEF AbortWakes, LoopIInv, LoopTypeOK
<1>2. \E last \in Outcomes : EndsWith(session, last, endingOf(last))
  BY <1>1, CatchesWell
<1>3. /\ opening' = opening /\ opening \in {"pending", "answered", "rejected"}
      /\ opening = "pending" => at = "opening"
      /\ session => opening' = "answered"
      /\ askNoted' \in BOOLEAN
  BY <1>1 DEF AbortWakes, LoopIInv, LoopTypeOK, ClosingInv
<1>4. QED
  BY <1>1, <1>2, <1>3, EndedInv DEF AbortWakes

(* The loop has a session whenever it asks or calls.                       *)
LEMMA HeldWhileTurning ==
    ASSUME LoopIInv, at \in {"asking", "calling"}
    PROVE  /\ session = TRUE /\ opening = "answered"
           /\ opening \in {"pending", "answered", "rejected"}
           /\ askNoted \in BOOLEAN
BY DEF LoopIInv, LoopTypeOK, ClosingInv

LEMMA DecidesInv ==
    ASSUME LoopIInv, NEW c, NEW call, Decides(c, call)
    PROVE  LoopIInv'
<1>1. /\ at = "asking"
      /\ UNCHANGED <<step, hashNoted, opening, session, draining, aborted>>
  BY DEF Decides
<1>2. session = TRUE /\ opening = "answered" /\ askNoted \in BOOLEAN
  BY <1>1, HeldWhileTurning
<1>3. CASE /\ ~refused(c) /\ c.type = "tool_call" /\ at' = "calling"
           /\ UNCHANGED <<askNoted, closeOutcome, closings, outcome>>
  BY <1>1, <1>3 DEF LoopIInv, LoopTypeOK, ClosingInv
<1>4. CASE /\ EndsWith(TRUE, "fail", "failed") /\ UNCHANGED askNoted
  <2>1. "fail" \in Outcomes /\ endingOf("fail") = "failed"
    BY DEF Outcomes, endingOf
  <2>2. QED
    BY <1>1, <1>2, <1>4, <2>1, EndedInv
<1>5. CASE /\ askNoted' = TRUE /\ EndsWith(TRUE, "escalate", "escalated")
  <2>1. "escalate" \in Outcomes /\ endingOf("escalate") = "escalated"
    BY DEF Outcomes, endingOf
  <2>2. QED
    BY <1>1, <1>2, <1>5, <2>1, EndedInv
<1>6. CASE /\ c.type \in {"complete", "fail"} /\ UNCHANGED askNoted
           /\ EndsWith(TRUE, c.type, IF c.type = "fail" THEN "failed" ELSE "succeeded")
  <2>1. c.type \in Outcomes
    BY <1>6 DEF Outcomes
  <2>2. endingOf(c.type) = IF c.type = "fail" THEN "failed" ELSE "succeeded"
    BY <1>6 DEF endingOf
  <2>3. \E last \in Outcomes : EndsWith(TRUE, last, endingOf(last))
    BY <1>6, <2>1, <2>2
  <2>4. QED
    BY <1>1, <1>2, <1>6, <2>3, EndedInv
<1>7. QED
  BY <1>3, <1>4, <1>5, <1>6 DEF Decides

LEMMA NextRejectsInv == LoopIInv /\ NextRejects => LoopIInv'
<1> SUFFICES ASSUME LoopIInv, NextRejects PROVE LoopIInv'
  OBVIOUS
<1>1. at = "asking" /\ Catches(TRUE)
  BY DEF NextRejects
<1>2. \E last \in Outcomes : EndsWith(TRUE, last, endingOf(last))
  BY <1>1, CatchesWell
<1>3. QED
  BY <1>1, <1>2, HeldWhileTurning, EndedInv DEF NextRejects

LEMMA HostRejectsInv == LoopIInv /\ HostRejects => LoopIInv'
<1> SUFFICES ASSUME LoopIInv, HostRejects PROVE LoopIInv'
  OBVIOUS
<1>1. at = "calling" /\ Catches(TRUE)
  BY DEF HostRejects
<1>2. \E last \in Outcomes : EndsWith(TRUE, last, endingOf(last))
  BY <1>1, CatchesWell
<1>3. QED
  BY <1>1, <1>2, HeldWhileTurning, EndedInv DEF HostRejects

LEMMA HostAnswersInv == LoopIInv /\ HostAnswers => LoopIInv'
<1> SUFFICES ASSUME LoopIInv, HostAnswers PROVE LoopIInv'
  OBVIOUS
<1>1. /\ at = "calling" /\ Continues(step + 1)
      /\ UNCHANGED <<hashNoted, askNoted, opening, session, sent, draining, aborted>>
  BY DEF HostAnswers
<1>2. step + 1 \in Nat
  BY StandardRuntimeAssumption DEF LoopIInv, LoopTypeOK
<1>3. CASE \E last \in Outcomes : EndsWith(TRUE, last, endingOf(last)) /\ step' = step
  <2>1. \E last \in Outcomes : EndsWith(TRUE, last, endingOf(last))
    BY <1>3
  <2>2. step' = step
    BY <1>3
  <2>3. QED
    BY <1>1, <2>1, <2>2, HeldWhileTurning, EndedInv
<1>4. CASE /\ at' = "asking" /\ step' = step + 1 /\ step + 1 \in 0..(MaxSteps - 1)
           /\ UNCHANGED <<closeOutcome, closings, outcome>>
  BY <1>1, <1>4 DEF LoopIInv, LoopTypeOK, ClosingInv
<1>5. QED
  BY <1>1, <1>2, <1>3, <1>4, ContinuesWell

(* CloseSettles, Drains and Aborts touch no ending.                        *)
LEMMA SettlesInv == LoopIInv /\ (CloseSettles \/ Drains \/ Aborts) => LoopIInv'
<1>1. ASSUME LoopIInv, CloseSettles PROVE LoopIInv'
  BY <1>1 DEF CloseSettles, LoopIInv, LoopTypeOK, ClosingInv
<1>2. ASSUME LoopIInv, Drains PROVE LoopIInv'
  BY <1>2 DEF Drains, loop, LoopIInv, LoopTypeOK, ClosingInv
<1>3. ASSUME LoopIInv, Aborts PROVE LoopIInv'
  BY <1>3 DEF Aborts, loop, LoopIInv, LoopTypeOK, ClosingInv
<1>4. QED
  BY <1>1, <1>2, <1>3

LEMMA LoopStutters == LoopIInv /\ UNCHANGED loopVars => LoopIInv'
BY DEF loopVars, loop, LoopIInv, LoopTypeOK, ClosingInv

(* A step of the loop, whatever its seat decides.                          *)
AnyLoopStep ==
    \/ Opens \/ OpensLate \/ OpenRejects \/ AbortWakes \/ NextRejects
    \/ HostAnswers \/ HostRejects \/ CloseSettles \/ Drains \/ Aborts
    \/ \E c, call : Decides(c, call)

LEMMA AnyLoopStepInv == LoopIInv /\ [AnyLoopStep]_loopVars => LoopIInv'
<1> SUFFICES ASSUME LoopIInv, [AnyLoopStep]_loopVars PROVE LoopIInv'
  OBVIOUS
<1>1. CASE Opens \/ OpensLate \/ OpenRejects \/ AbortWakes \/ NextRejects
  BY <1>1, OpensInv, OpensLateInv, OpenRejectsInv, AbortWakesInv, NextRejectsInv
<1>2. CASE HostAnswers \/ HostRejects \/ CloseSettles \/ Drains \/ Aborts
  BY <1>2, HostAnswersInv, HostRejectsInv, SettlesInv
<1>3. CASE \E c, call : Decides(c, call)
  <2>1. PICK c, call : Decides(c, call)
    BY <1>3
  <2>2. QED
    BY <2>1, DecidesInv
<1>4. CASE UNCHANGED loopVars
  BY <1>4, LoopStutters
<1>5. QED
  BY <1>1, <1>2, <1>3, <1>4 DEF AnyLoopStep

LEMMA ClosesRight == LoopIInv => ClosedWithItsEnding
<1> SUFFICES ASSUME LoopIInv, closings # <<>>
             PROVE  Len(closings) = 1 /\ outcome # None /\ closings[1] = endingOf(outcome)
  BY ClosedOnce DEF LoopIInv, ClosingInv, ClosedWithItsEnding
<1>1. closings = <<closeOutcome>> /\ closeOutcome \in Statuses /\ opening # "pending"
  BY DEF LoopIInv, LoopTypeOK, ClosingInv
<1>2. at \in {"closing", "done"}
  BY DEF LoopIInv, LoopTypeOK, ClosingInv
<1>3. outcome \in Outcomes /\ closeOutcome = endingOf(outcome)
  BY <1>2 DEF LoopIInv, ClosingInv
<1>4. None \notin Outcomes
  BY StandardRuntimeAssumption DEF Outcomes
<1>5. QED
  BY <1>1, <1>3, <1>4, ClosedOnce

(* However the driver behaves and whenever the turn is stopped, its        *)
(* session is closed at most once and with the turn's ending.              *)
THEOREM LoopCloses == LoopSpec => [](LoopTypeOK /\ ClosedWithItsEnding)
<1>1. LoopNext => AnyLoopStep
  BY DEF LoopNext, Driver, Host, AnyLoopStep
<1>2. LoopIInv /\ [LoopNext]_loopVars => LoopIInv'
  BY <1>1, AnyLoopStepInv
<1>3. LoopIInv => LoopTypeOK /\ ClosedWithItsEnding
  BY ClosesRight DEF LoopIInv
<1>4. QED
  BY <1>2, <1>3, LoopInitInv, PTL DEF LoopSpec

-----------------------------------------------------------------------------
(* Whoever sits there takes steps of the loop, or none that it sees.       *)

LEMMA DeliversIsALoopStep ==
    ASSUME NEW type, NEW declared, NEW call, Delivers(type, declared, call)
    PROVE  [AnyLoopStep]_loopVars
BY DEF Delivers, AnyLoopStep

LEMMA ThrowsIsALoopStep == Throws => [AnyLoopStep]_loopVars
BY DEF Throws, AnyLoopStep

LEMMA ReleasesIsALoopStep ==
    ASSUME NEW item, Releases(item)
    PROVE  [AnyLoopStep]_loopVars
<1>1. PICK declared \in DeclaredSteps \union {None} : Delivers("tool_call", declared, item.id)
  BY DEF Releases
<1>2. QED
  BY <1>1, DeliversIsALoopStep

LEMMA ProceedsIsALoopStep ==
    ASSUME NEW q, NEW messages, Proceeds(q, messages)
    PROVE  [AnyLoopStep]_loopVars
<1>1. \/ Delivers("fail", None, None)
      \/ Delivers("escalate", None, None)
      \/ Releases(q[unreadableAhead(q) + 1])
      \/ UNCHANGED loopVars
  BY DEF Proceeds
<1>2. QED
  BY <1>1, DeliversIsALoopStep, ReleasesIsALoopStep

LEMMA ModelIsALoopStep == Model => [AnyLoopStep]_loopVars
<1> SUFFICES ASSUME Model PROVE [AnyLoopStep]_loopVars
  OBVIOUS
<1>1. CASE ModelAsked
  <2>1. Proceeds(queue, heard)
    BY <1>1 DEF ModelAsked
  <2>2. PICK q, messages : Proceeds(q, messages)
    BY <2>1
  <2>3. QED
    BY <2>2, ProceedsIsALoopStep
<1>2. CASE \E b \in Breaths, cut \in BOOLEAN : Replies(b, cut)
  <2>1. PICK b \in Breaths, cut \in BOOLEAN : Replies(b, cut)
    BY <1>2
  <2>2. \/ Delivers("fail", None, None)
        \/ Delivers("complete", None, None)
        \/ \E q, messages : Proceeds(q, messages)
    BY <2>1 DEF Replies
  <2>3. QED
    BY <2>2, DeliversIsALoopStep, ProceedsIsALoopStep
<1>3. CASE \E why \in Retryable \union {"4xx"} : FetchFails(why)
  BY <1>3, DeliversIsALoopStep, ThrowsIsALoopStep DEF FetchFails
<1>4. CASE DelayEnds
  BY <1>4, ThrowsIsALoopStep DEF DelayEnds
<1>5. QED
  BY <1>1, <1>2, <1>3, <1>4 DEF Model

LEMMA DrainsPendingIsALoopStep ==
    ASSUME NEW q, DrainsPending(q)
    PROVE  [AnyLoopStep]_loopVars
<1>1. \/ Delivers("fail", None, None)
      \/ Delivers("complete", None, None)
      \/ Delivers("escalate", None, None)
      \/ Releases(q[messagesAhead(q) + 1])
      \/ UNCHANGED loopVars
  BY DEF DrainsPending
<1>2. QED
  BY <1>1, DeliversIsALoopStep, ReleasesIsALoopStep

LEMMA HarnessIsALoopStep == Harness => [AnyLoopStep]_loopVars
<1> SUFFICES ASSUME Harness PROVE [AnyLoopStep]_loopVars
  OBVIOUS
<1>1. CASE ChannelAsked
  <2>1. (\E q : DrainsPending(q)) \/ UNCHANGED loopVars
    BY <1>1 DEF ChannelAsked
  <2>2. QED
    BY <2>1, DrainsPendingIsALoopStep
<1>2. CASE \E written \in BOOLEAN : WriteSettles(written)
  <2>1. (\E q : DrainsPending(q)) \/ Throws
    BY <1>2 DEF WriteSettles
  <2>2. QED
    BY <2>1, DrainsPendingIsALoopStep, ThrowsIsALoopStep
<1>3. CASE ReadsFrame
  <2>1. (\E q : DrainsPending(q)) \/ Delivers("fail", None, None)
    BY <1>3 DEF ReadsFrame
  <2>2. QED
    BY <2>1, DrainsPendingIsALoopStep, DeliversIsALoopStep
<1>4. CASE ReadsEnd
  BY <1>4, DeliversIsALoopStep DEF ReadsEnd
<1>5. CASE ReadAborted
  BY <1>5, ThrowsIsALoopStep DEF ReadAborted
<1>6. QED
  BY <1>1, <1>2, <1>3, <1>4, <1>5 DEF Harness

LEMMA ProcessLeavesTheLoop == Process => UNCHANGED loopVars
BY DEF Process, Spawns, ProcessEnds, OutputEnds, Writes, WritesLast

LEMMA TurnTakesLoopSteps == [Next]_vars => [AnyLoopStep]_loopVars
<1> SUFFICES ASSUME [Next]_vars PROVE [AnyLoopStep]_loopVars
  OBVIOUS
<1>1. CASE LoopStep
  BY <1>1 DEF LoopStep, AnyLoopStep
<1>2. CASE HostDriver
  BY <1>2 DEF HostDriver, AnyLoopStep
<1>3. CASE Model \/ Harness
  BY <1>3, ModelIsALoopStep, HarnessIsALoopStep
<1>4. CASE Process
  BY <1>4, ProcessLeavesTheLoop
<1>5. CASE UNCHANGED vars
  BY <1>5 DEF vars
<1>6. QED
  BY <1>1, <1>2, <1>3, <1>4, <1>5 DEF Next

(* The same of a host's driver, a model and a vendor's harness, each with  *)
(* its own process, retries and queue.                                     *)
THEOREM TurnCloses == Spec => [](LoopTypeOK /\ ClosedWithItsEnding)
<1>1. Init => LoopIInv
  BY LoopInitInv DEF Init
<1>2. LoopIInv /\ [Next]_vars => LoopIInv'
  BY TurnTakesLoopSteps, AnyLoopStepInv
<1>3. LoopIInv => LoopTypeOK /\ ClosedWithItsEnding
  BY ClosesRight DEF LoopIInv
<1>4. QED
  BY <1>1, <1>2, <1>3, PTL DEF Spec

-----------------------------------------------------------------------------
(* From a draining turn the loop asks nothing it was not asking already.   *)
LEMMA DrainedIsNotAsked == [AnyLoopStep]_loopVars => (draining /\ at # "asking" => at' # "asking")
<1> SUFFICES ASSUME [AnyLoopStep]_loopVars, draining, at # "asking", at' = "asking"
             PROVE  FALSE
  OBVIOUS
<1>1. CASE Opens \/ HostAnswers
  BY <1>1 DEF Opens, HostAnswers, Continues, EndsWith
<1>2. CASE OpenRejects \/ AbortWakes \/ NextRejects \/ HostRejects
  BY <1>2 DEF OpenRejects, AbortWakes, NextRejects, HostRejects, Catches, EndsWith
<1>3. CASE OpensLate \/ CloseSettles \/ Drains \/ Aborts
  BY <1>3 DEF OpensLate, CloseSettles, Drains, Aborts, loop
<1>4. CASE \E c, call : Decides(c, call)
  BY <1>4 DEF Decides
<1>5. CASE UNCHANGED loopVars
  BY <1>5 DEF loopVars, loop
<1>6. QED
  BY <1>1, <1>2, <1>3, <1>4, <1>5 DEF AnyLoopStep

(* Whoever sits there, a seat whose turn drains is asked nothing more.     *)
THEOREM DrainingTurnAsksNoMore == Spec => DrainingSeatIsNotAsked
<1>1. [Next]_vars => [draining /\ at # "asking" => at' # "asking"]_loopVars
  BY TurnTakesLoopSteps, DrainedIsNotAsked
<1>2. QED
  BY <1>1, PTL DEF Spec, DrainingSeatIsNotAsked

-----------------------------------------------------------------------------
(* The harness's process.                                                  *)

(* Only a harness has one, and none runs on past its turn or its session.  *)
ProcessInv ==
    /\ seat # "harness" => child = "none"
    /\ HarnessOutlivesNoTurn

(* Whatever the loop does, an end of the turn or the session stops it.     *)
LEMMA FollowsInv ==
    ASSUME LoopIInv, ProcessInv, Follows, seat' = seat
    PROVE  ProcessInv'
<1>1. aborted \in BOOLEAN
  BY DEF LoopIInv, LoopTypeOK
<1>2. ASSUME aborted' \/ closings' # <<>> PROVE child' # "up"
  BY <1>1, <1>2 DEF Follows, ProcessInv, HarnessOutlivesNoTurn
<1>3. ASSUME seat' # "harness" PROVE child' = "none"
  BY <1>3 DEF Follows, ProcessInv
<1>4. QED
  BY <1>2, <1>3 DEF ProcessInv, HarnessOutlivesNoTurn

(* The constructor looks at the signal, and no session is open yet.        *)
LEMMA ProcessStepInv ==
    ASSUME LoopIInv, ProcessInv, Process
    PROVE  ProcessInv'
<1>1. seat = "harness" /\ UNCHANGED <<seat, loopVars>>
  BY ProcessLeavesTheLoop DEF Process
<1>2. UNCHANGED <<closings, aborted>>
  BY <1>1 DEF loopVars
<1>3. CASE Spawns
  <2>1. ~aborted /\ closings = <<>>
    BY <1>3 DEF Spawns, spawns, LoopIInv, ClosingInv
  <2>2. QED
    BY <1>1, <1>2, <2>1 DEF ProcessInv, HarnessOutlivesNoTurn
<1>4. CASE ProcessEnds
  BY <1>1, <1>4 DEF ProcessEnds, ProcessInv, HarnessOutlivesNoTurn
<1>5. CASE UNCHANGED child
  BY <1>1, <1>2, <1>5 DEF ProcessInv, HarnessOutlivesNoTurn
<1>6. QED
  BY <1>3, <1>4, <1>5 DEF Process, OutputEnds, Writes, WritesLast

LEMMA NextProcessInv ==
    ASSUME LoopIInv, ProcessInv, [Next]_vars
    PROVE  ProcessInv'
<1>1. CASE LoopStep
  BY <1>1, FollowsInv DEF LoopStep
<1>2. CASE HostDriver \/ Model
  BY <1>2 DEF HostDriver, Model, channelVars, ProcessInv, HarnessOutlivesNoTurn
<1>3. CASE Process
  BY <1>3, ProcessStepInv
<1>4. CASE Harness
  BY <1>4, FollowsInv DEF Harness
<1>5. CASE UNCHANGED vars
  BY <1>5 DEF vars, loopVars, channelVars, ProcessInv, HarnessOutlivesNoTurn
<1>6. QED
  BY <1>1, <1>2, <1>3, <1>4, <1>5 DEF Next

(* However the turn is stopped, its open given up on or its session closed,*)
(* no harness process is left running by it.                               *)
THEOREM NoHarnessOutlivesItsTurn == Spec => []HarnessOutlivesNoTurn
<1>1. Init => LoopIInv /\ ProcessInv
  BY LoopInitInv DEF Init, ChannelInit, ProcessInv, HarnessOutlivesNoTurn
<1>2. LoopIInv /\ ProcessInv /\ [Next]_vars => LoopIInv' /\ ProcessInv'
  BY TurnTakesLoopSteps, AnyLoopStepInv, NextProcessInv
<1>3. ProcessInv => HarnessOutlivesNoTurn
  BY DEF ProcessInv
<1>4. QED
  BY <1>1, <1>2, <1>3, PTL DEF Spec

-----------------------------------------------------------------------------
(* Sequences and the places in them.                                       *)

(* Every set of numbers that is not empty has a least one.                 *)
LEMMA LeastNumber ==
    ASSUME NEW T \in SUBSET Nat, T # {}
    PROVE  \E x \in T : \A y \in T : x <= y
<1> DEFINE R == OpToRel(<, Nat)
<1>1. IsWellFoundedOn(R, Nat)
  BY NatLessThanWellFounded
<1> HIDE DEF R
<1>2. PICK x \in T : \A y \in T : <<y, x>> \notin R
  BY <1>1, WFMin
<1>3. ASSUME NEW y \in T PROVE x <= y
  <2>1. <<y, x>> \notin R
    BY <1>2
  <2>2. ~ (y < x)
    BY <2>1 DEF R, OpToRel
  <2>3. QED
    BY <2>2
<1>4. QED
  BY <1>3

(* What joining two sequences gives.                                       *)
LEMMA Joined ==
    ASSUME NEW S, NEW s \in Seq(S), NEW t \in Seq(S)
    PROVE  /\ s \o t \in Seq(S)
           /\ Len(s \o t) = Len(s) + Len(t)
           /\ DOMAIN (s \o t) = 1..(Len(s) + Len(t))
           /\ DOMAIN s = 1..Len(s) /\ DOMAIN t = 1..Len(t)
           /\ \A i \in 1..Len(s) : (s \o t)[i] = s[i]
           /\ \A i \in 1..Len(t) : (s \o t)[Len(s) + i] = t[i]
           /\ \A i \in (Len(s) + 1)..(Len(s) + Len(t)) : (s \o t)[i] = t[i - Len(s)]
OBVIOUS

(* The same of a sequence that is given a name.                            *)
LEMMA TheJoin ==
    ASSUME NEW S, NEW u \in Seq(S), NEW v \in Seq(S), NEW t, t = u \o v
    PROVE  /\ t \in Seq(S) /\ Len(t) = Len(u) + Len(v)
           /\ DOMAIN t = 1..(Len(u) + Len(v))
           /\ \A k \in 1..Len(u) : t[k] = u[k]
           /\ \A i \in 1..Len(v) : t[Len(u) + i] = v[i]
           /\ \A k \in (Len(u) + 1)..(Len(u) + Len(v)) : t[k] = v[k - Len(u)]
<1>1. t = u \o v
  OBVIOUS
<1>2. QED
  BY <1>1, Joined

(* What is left of q when its first k, and the one after them, are gone.   *)
LEMMA LeftBehind ==
    ASSUME NEW S, NEW q \in Seq(S), NEW k \in 0..(Len(q) - 1)
    PROVE  LET r == SubSeq(q, k + 2, Len(q)) IN
           /\ r \in Seq(S) /\ Len(r) = Len(q) - k - 1
           /\ DOMAIN r = 1..(Len(q) - k - 1)
           /\ \A i \in DOMAIN r : r[i] = q[k + 1 + i]
OBVIOUS

(* The first k of a sequence.                                              *)
LEMMA TheFirst ==
    ASSUME NEW S, NEW q \in Seq(S), NEW k \in 0..Len(q)
    PROVE  LET r == SubSeq(q, 1, k) IN
           /\ r \in Seq(S) /\ Len(r) = k /\ DOMAIN r = 1..k
           /\ \A i \in 1..k : r[i] = q[i]
OBVIOUS

(* The head of a sequence, and its tail.                                   *)
LEMMA TheRest ==
    ASSUME NEW S, NEW q \in Seq(S), q # <<>>
    PROVE  /\ Tail(q) \in Seq(S) /\ Len(Tail(q)) = Len(q) - 1
           /\ DOMAIN Tail(q) = 1..(Len(q) - 1)
           /\ \A i \in 1..(Len(q) - 1) : Tail(q)[i] = q[i + 1]
           /\ Len(q) \in Nat \ {0} /\ DOMAIN q = 1..Len(q)
           /\ Head(q) = q[1] /\ 1 \in DOMAIN q /\ Head(q) \in S
OBVIOUS

(* A sequence with one more at its end.                                    *)
LEMMA OneMore ==
    ASSUME NEW S, NEW q \in Seq(S), NEW x \in S
    PROVE  /\ Append(q, x) \in Seq(S) /\ Len(Append(q, x)) = Len(q) + 1
           /\ DOMAIN Append(q, x) = 1..(Len(q) + 1) /\ DOMAIN q = 1..Len(q)
           /\ \A i \in 1..Len(q) : Append(q, x)[i] = q[i]
           /\ Append(q, x)[Len(q) + 1] = x
           /\ Append(q, x) # <<>>
OBVIOUS

(* A sequence of one.                                                      *)
LEMMA OneElement ==
    ASSUME NEW S, NEW x \in S
    PROVE  /\ <<x>> \in Seq(S) /\ Len(<<x>>) = 1 /\ DOMAIN <<x>> = {1} /\ <<x>>[1] = x
           /\ DOMAIN <<x>> = 1..1
OBVIOUS

(* A finite set of numbers can be put in order.                            *)
EnumeratedUpTo(n) ==
    \A P \in SUBSET (1..n) :
      \E p \in [1..Cardinality(P) -> P] : \A i, j \in DOMAIN p : i < j => p[i] < p[j]

(* A set of places in a sequence is finite.                                *)
LEMMA Bounded ==
    ASSUME NEW n \in Nat, NEW P \in SUBSET (1..n)
    PROVE  IsFiniteSet(P) /\ Cardinality(P) \in Nat
<1>1. IsFiniteSet(1..n)
  BY FS_Interval
<1>2. IsFiniteSet(P)
  BY <1>1, FS_Subset
<1>3. QED
  BY <1>2, FS_CardinalityType

(* Every set of places has an increasing enumeration: the least number n   *)
(* for which a set within 1..n had none would not be the least, since the  *)
(* set without its last place has one.                                     *)
LEMMA CanBeOrdered ==
    ASSUME NEW n \in Nat
    PROVE  EnumeratedUpTo(n)
<1> DEFINE T == {m \in Nat : ~EnumeratedUpTo(m)}
<1> SUFFICES ASSUME T # {} PROVE FALSE
  OBVIOUS
<1>1. PICK m \in T : \A y \in T : m <= y
  <2>1. T \in SUBSET Nat
    OBVIOUS
  <2> HIDE DEF T
  <2>2. QED
    BY <2>1, LeastNumber
<1>2. PICK P \in SUBSET (1..m) :
        ~ \E p \in [1..Cardinality(P) -> P] : \A i, j \in DOMAIN p : i < j => p[i] < p[j]
  BY <1>1 DEF EnumeratedUpTo
<1>3. CASE P = {}
  <2>1. Cardinality(P) = 0
    BY <1>3, FS_EmptySet
  <2> DEFINE p == [i \in 1..Cardinality(P) |-> i]
  <2>2. p \in [1..Cardinality(P) -> P] /\ \A i, j \in DOMAIN p : i < j => p[i] < p[j]
    BY <2>1
  <2>3. QED
    BY <2>2, <1>2
<1>4. CASE P # {}
  <2>1. m # 0 /\ m \in Nat /\ m - 1 \in Nat
    <3>1. PICK i \in P : i \in 1..m
      BY <1>4
    <3>2. m \in Nat
      OBVIOUS
    <3>3. QED
      BY <3>1, <3>2
  <2>2. m - 1 \notin T
    BY <1>1, <2>1
  <2>3. EnumeratedUpTo(m - 1)
    BY <2>1, <2>2
  <2>4. CASE m \notin P
    <3>1. P \in SUBSET (1..(m - 1))
      BY <2>1, <2>4
    <3>2. QED
      BY <3>1, <2>3, <1>2 DEF EnumeratedUpTo
  <2>5. CASE m \in P
    <3> DEFINE Q == P \ {m}
               c == Cardinality(Q)
    <3>1. Q \in SUBSET (1..(m - 1))
      BY <2>1
    <3>2. IsFiniteSet(P) /\ c \in Nat
      BY <2>1, <3>1, Bounded
    <3>3. Cardinality(P) = c + 1
      <4>1. c = Cardinality(P) - 1 /\ Cardinality(P) \in Nat
        BY <2>5, <3>2, FS_RemoveElement, FS_CardinalityType
      <4>2. QED
        BY <4>1
    <3> HIDE DEF c
    <3>4. PICK p \in [1..c -> Q] : \A i, j \in DOMAIN p : i < j => p[i] < p[j]
      BY <3>1, <2>3 DEF EnumeratedUpTo, c
    <3> DEFINE r == [i \in 1..(c + 1) |-> IF i = c + 1 THEN m ELSE p[i]]
    <3>5. r \in [1..(c + 1) -> P]
      BY <3>2, <2>5
    <3>6. ASSUME NEW i \in 1..(c + 1), NEW j \in 1..(c + 1), i < j PROVE r[i] < r[j]
      <4>0. i \in 1..c
        BY <3>2, <3>6
      <4>0a. i # c + 1
        BY <4>0, <3>2
      <4>0b. p[i] \in Q
        BY <4>0
      <4>1. i \in 1..c /\ r[i] = p[i] /\ p[i] \in 1..(m - 1)
        BY <4>0, <4>0a, <4>0b, <3>1
      <4>2. CASE j = c + 1
        BY <4>1, <4>2, <2>1
      <4>3. CASE j # c + 1
        BY <4>1, <4>3, <3>2, <3>4, <3>6
      <4>4. QED
        BY <4>2, <4>3
    <3>7. QED
      BY <3>5, <3>6, <3>3, <1>2
  <2>6. QED
    BY <2>4, <2>5
<1>5. QED
  BY <1>3, <1>4

(* o is the items of s at the places, each of them, in order.              *)
Picks(o, s, P) ==
    \E p \in [DOMAIN o -> P] :
        /\ \A i \in DOMAIN o : o[i] = s[p[i]]
        /\ \A i, j \in DOMAIN o : i < j => p[i] < p[j]
        /\ \A k \in P : \E i \in DOMAIN o : p[i] = k

(* only picks them.                                                        *)
LEMMA OnlyThose ==
    ASSUME NEW S, NEW s \in Seq(S), NEW P \in SUBSET (DOMAIN s)
    PROVE  /\ only(s, P) \in Seq(S) /\ DOMAIN only(s, P) = 1..Len(only(s, P))
           /\ Picks(only(s, P), s, P)
<1> DEFINE c == Cardinality(P)
           p == inOrder(P)
<1>1. P \in SUBSET (1..Len(s)) /\ Len(s) \in Nat
  OBVIOUS
<1>2. IsFiniteSet(P) /\ c \in Nat
  BY <1>1, Bounded
<1>3. p \in [1..c -> P] /\ \A i, j \in 1..c : i < j => p[i] < p[j]
  <2>1. \E x \in [1..c -> P] : \A i, j \in DOMAIN x : i < j => x[i] < x[j]
    BY <1>1, CanBeOrdered DEF EnumeratedUpTo
  <2>2. p \in [1..c -> P] /\ \A i, j \in DOMAIN p : i < j => p[i] < p[j]
    BY <2>1 DEF inOrder
  <2>3. QED
    BY <2>2
<1>4. only(s, P) = [i \in 1..c |-> s[p[i]]]
  BY DEF only
<1> HIDE DEF p, c
<1>5. \A i \in 1..c : s[p[i]] \in S
  BY <1>3
<1>6. only(s, P) \in Seq(S) /\ Len(only(s, P)) = c /\ DOMAIN only(s, P) = 1..c
  BY <1>2, <1>4, <1>5
<1>7. \A i \in 1..c : only(s, P)[i] = s[p[i]]
  BY <1>4
<1>8. \A k \in P : \E i \in 1..c : p[i] = k
  <2>1. p \in Injection(1..c, P)
    <3>1. ASSUME NEW i \in 1..c, NEW j \in 1..c, p[i] = p[j] PROVE i = j
      <4>1. p[i] \in Int /\ p[j] \in Int
        BY <1>3, <1>1
      <4>2. QED
        BY <4>1, <3>1, <1>3, <1>2
    <3>2. QED
      BY <3>1, <1>3 DEF Injection, IsInjective
  <2>2. Cardinality(1..c) = c
    BY <1>2, FS_Interval
  <2>3. p \in Surjection(1..c, P)
    BY <2>1, <2>2, <1>2, FS_Injection DEF c
  <2>4. QED
    BY <2>3 DEF Surjection
<1> DEFINE o == only(s, P)
<1>9. o \in Seq(S) /\ DOMAIN o = 1..Len(o) /\ DOMAIN o = 1..c
  BY <1>6
<1>10. \A i \in DOMAIN o : o[i] = s[p[i]]
  BY <1>6, <1>7
<1> HIDE DEF o
<1>11. /\ p \in [DOMAIN o -> P]
       /\ \A i, j \in DOMAIN o : i < j => p[i] < p[j]
       /\ \A k \in P : \E i \in DOMAIN o : p[i] = k
  BY <1>3, <1>8, <1>9
<1>12. Picks(o, s, P)
  BY <1>10, <1>11, Zenon DEF Picks
<1>13. QED
  BY <1>9, <1>12 DEF o

-----------------------------------------------------------------------------
(* What is queued, sent and on the wire.                                   *)

Spoken == [id : Nat, type : {"call", "message"}, ask : BOOLEAN, readable : BOOLEAN]

Pieces ==
    [id : Nat, type : {"call", "message", "failed", "complete"}, ask : BOOLEAN,
     readable : BOOLEAN]

Sends == [call : Nat \union {None}, step : Nat]

Messages ==
    [role : {"assistant"}, calls : Seq(Nat)]
      \union [role : {"tool"}, id : Nat \union {None}, by : {"host", "seat"}]

QueueTypeOK ==
    /\ said \in Seq(Spoken) /\ \A k \in DOMAIN said : said[k].id = k
    /\ sent \in Seq(Sends)
    /\ queue \in Seq(Pieces)
    /\ buffered \in Seq(Seq(Pieces))

turning == at \in {"opening", "asking", "calling"}

callIds(q) == {q[i].id : i \in {j \in DOMAIN q : q[j].type = "call"}}

allIds(fs) == UNION {callIds(fs[f]) : f \in DOMAIN fs}

Below(S, T) == \A a \in S, b \in T : a < b

Sorted(q) ==
    \A i, j \in DOMAIN q :
      i < j /\ q[i].type = "call" /\ q[j].type = "call" => q[i].id < q[j].id

AllSorted(fs) ==
    /\ \A f \in DOMAIN fs : Sorted(fs[f])
    /\ \A f, g \in DOMAIN fs : f < g => Below(callIds(fs[f]), callIds(fs[g]))

sentIds == {sent[j].call : j \in DOMAIN sent}

(* Of the ids in calls, st sends the least ones, in order.                 *)
InOrder(calls, st) ==
    \A i \in DOMAIN st : st[i].call # None =>
        /\ st[i].call \in calls
        /\ {id \in calls : id < st[i].call} = {st[j].call : j \in 1..(i - 1)}

(* The calls that q and, behind it, the frames fs still hold, and the ones *)
(* sent.                                                                   *)
Waiting(q, fs) ==
    /\ Sorted(q) /\ AllSorted(fs) /\ Below(callIds(q), allIds(fs))
    /\ callIds(q) \union allIds(fs) \subseteq callsSaid
    /\ turning =>
         /\ callsSaid \subseteq sentIds \union callIds(q) \union allIds(fs)
         /\ Below(sentIds, callIds(q) \union allIds(fs))

HarnessInv ==
    /\ waitsFor # "nothing" => at \notin {"opening", "calling"}
    /\ sentIds \subseteq callsSaid
    /\ Waiting(queue, buffered)
    /\ CallsReachTheHostInOrder

(* q is what s ends with.                                                  *)
LastOf(q, s) ==
    /\ Len(q) <= Len(s)
    /\ \A i \in DOMAIN q : q[i] = s[Len(s) - Len(q) + i]

Numbered(s) == \A k \in DOMAIN s : s[k].id = k

head == Len(said) - Len(queue)

open == turning \/ thinking # "idle"

outstanding == at = "calling" \/ (at = "asking" /\ thinking = "idle" /\ step # 0)

owed == Len(queue) + (IF outstanding THEN 1 ELSE 0)

(* The reply at i on the wire w has its answers, save to the last n calls  *)
(* of s.                                                                   *)
ReplyFits(s, w, n, i) ==
    LET calls == w[i].calls
        end == i + Len(calls) IN
    /\ \A k \in DOMAIN calls :
         /\ calls[k] \in DOMAIN s
         /\ i + k <= Len(w) =>
              w[i + k] = [role |-> "tool", id |-> calls[k],
                          by |-> IF s[calls[k]].readable THEN "host" ELSE "seat"]
    /\ end + 1 <= Len(w) => isAssistant(w[end + 1])
    /\ \/ end < Len(w)
       \/ /\ end = Len(w) + n
          /\ \A k \in DOMAIN calls : calls[k] = Len(s) - n + (i + k - Len(w))

WireFits(s, w, n) == \A i \in DOMAIN w : isAssistant(w[i]) => ReplyFits(s, w, n, i)

ModelInv ==
    /\ \A k \in DOMAIN said : said[k].type = "call"
    /\ thinking # "idle" => queue = <<>> /\ at \notin {"opening", "calling"}
    /\ sentIds \subseteq callsSaid
    /\ CallsReachTheHostInOrder
    /\ open =>
         /\ LastOf(queue, said)
         /\ {id \in callsSaid : id <= head} = sentIds
         /\ outstanding => sent # <<>> /\ sent[Len(sent)].call = head
         /\ wire \in Seq(Messages) /\ WireFits(said, wire, owed)

HostInv == \A j \in DOMAIN sent : sent[j].call = None

(* A piece says complete only on the harness's word.                       *)
Honest(q) ==
    \A i \in DOMAIN q : q[i].type = "complete" => claim \in saysItIsOver(vendor)

WordInv ==
    /\ Honest(queue) /\ \A f \in DOMAIN buffered : Honest(buffered[f])
    /\ outcome = "complete" => claim \in saysItIsOver(vendor)

-----------------------------------------------------------------------------
(* What an answer does to the loop: it ends the turn, sends a call, or     *)
(* finds the loop gone.                                                    *)
Leaves == at # "asking" /\ UNCHANGED loopVars

Ends == at = "asking" /\ at' = "closing" /\ sent' = sent /\ outcome' # "complete"

Completes ==
    at = "asking" /\ at' = "closing" /\ sent' = sent /\ outcome' \in {"complete", "fail"}

SendsCall(call) ==
    /\ at = "asking" /\ at' = "calling" /\ outcome' = outcome
    /\ \E n \in Nat : sent' = Append(sent, [call |-> call, step |-> n])

(* The catch, with a session held, ends the turn.                          *)
LEMMA CatchesEnds ==
    ASSUME at = "asking", NEW held, held = TRUE, Catches(held), sent' = sent
    PROVE  Ends
BY DEF Catches, EndsWith, Ends

(* A seat that throws ends the turn or finds it over.                      *)
LEMMA ThrowsEnds == Throws => Leaves \/ Ends
<1> SUFFICES ASSUME Throws PROVE Leaves \/ Ends
  OBVIOUS
<1>1. CASE at = "asking"
  <2>1. Catches(TRUE) /\ sent' = sent
    BY <1>1 DEF Throws, NextRejects
  <2>2. QED
    BY <1>1, <2>1, CatchesEnds
<1>2. CASE at # "asking"
  BY <1>2 DEF Throws, Leaves
<1>3. QED
  BY <1>1, <1>2

(* So does one that answers with an ending; and only complete completes.   *)
LEMMA DeliversEnds ==
    ASSUME NEW type \in {"fail", "escalate", "complete"}, Delivers(type, None, None)
    PROVE  /\ Leaves \/ Ends \/ Completes
           /\ type # "complete" => Leaves \/ Ends
<1>1. CASE at = "asking"
  <2> DEFINE c == candidate(type, None)
  <2>1. Decides(c, None)
    BY <1>1 DEF Delivers
  <2>2. c.type = type
    BY DEF candidate
  <2> HIDE DEF c
  <2>3. CASE EndsWith(TRUE, "fail", "failed") /\ sent' = sent
    BY <1>1, <2>3 DEF EndsWith, Ends
  <2>4. CASE type = "escalate" /\ EndsWith(TRUE, "escalate", "escalated") /\ sent' = sent
    BY <1>1, <2>4 DEF EndsWith, Ends
  <2>5. CASE /\ type \in {"complete", "fail"} /\ sent' = sent
             /\ EndsWith(TRUE, type, IF type = "fail" THEN "failed" ELSE "succeeded")
    BY <1>1, <2>5 DEF EndsWith, Ends, Completes
  <2>6. QED
    BY <2>1, <2>2, <2>3, <2>4, <2>5 DEF Decides
<1>2. CASE at # "asking"
  BY <1>2 DEF Delivers, Leaves
<1>3. QED
  BY <1>1, <1>2

(* A call that is handed over is sent, or refused for its step, which ends *)
(* the turn, or comes too late.                                            *)
LEMMA ReleasesSends ==
    ASSUME LoopIInv, NEW item, Releases(item)
    PROVE  Leaves \/ Ends \/ SendsCall(item.id)
<1>1. PICK declared \in DeclaredSteps \union {None} : Delivers("tool_call", declared, item.id)
  BY DEF Releases
<1>2. CASE at = "asking"
  <2> DEFINE c == candidate("tool_call", declared)
  <2>1. Decides(c, item.id)
    BY <1>1, <1>2 DEF Delivers
  <2>2. c.type = "tool_call" /\ c.step = declared
    BY DEF candidate
  <2> HIDE DEF c
  <2>3. stepOf(c) \in Nat
    <3>1. step \in Nat
      BY StandardRuntimeAssumption DEF LoopIInv, LoopTypeOK
    <3>2. QED
      BY <2>2, <3>1, SeatAssumption DEF stepOf
  <2>4. CASE EndsWith(TRUE, "fail", "failed") /\ sent' = sent
    BY <1>2, <2>4 DEF EndsWith, Ends
  <2>5. CASE /\ at' = "calling" /\ outcome' = outcome
             /\ sent' = Append(sent, [call |-> item.id, step |-> stepOf(c)])
    BY <1>2, <2>3, <2>5 DEF SendsCall
  <2>6. QED
    BY <2>1, <2>2, <2>4, <2>5 DEF Decides
<1>3. CASE at # "asking"
  BY <1>1, <1>3 DEF Delivers, Leaves
<1>4. QED
  BY <1>2, <1>3

(* The loop's own steps send nothing, complete nothing, and do not come    *)
(* back from an ending.                                                    *)
LEMMA LoopStepKeeps ==
    ASSUME LoopIInv, LoopStep
    PROVE  /\ sent' = sent
           /\ outcome' = "complete" => outcome = "complete"
           /\ turning' => turning
           /\ at' = "opening" => at = "opening"
           /\ at' = "calling" => at = "calling"
           /\ at' = "asking" => \/ at = "asking" /\ step' = step
                                \/ at = "opening" /\ step' = 0
                                \/ at = "calling" /\ step' = step + 1
<1>1. CASE Opens
  BY <1>1 DEF Opens, Continues, EndsWith, turning
<1>2. CASE HostAnswers
  BY <1>2 DEF HostAnswers, Continues, EndsWith, turning
<1>3. CASE OpenRejects
  BY <1>3 DEF OpenRejects, Catches, EndsWith, turning, LoopIInv, ClosingInv
<1>4. CASE AbortWakes
  BY <1>4 DEF AbortWakes, Catches, EndsWith, turning
<1>5. CASE HostRejects
  BY <1>5 DEF HostRejects, Catches, EndsWith, turning
<1>6. CASE CloseSettles
  BY <1>6 DEF CloseSettles, turning
<1>7. CASE OpensLate \/ Drains \/ Aborts
  BY <1>7 DEF OpensLate, Drains, Aborts, loop, turning
<1>8. QED
  BY <1>1, <1>2, <1>3, <1>4, <1>5, <1>6, <1>7 DEF LoopStep

(* A loop that is gone is left as it is.                                   *)
LEMMA LeavesKeeps == Leaves => UNCHANGED <<at, sent, outcome, step>> /\ at # "asking"
BY DEF Leaves, loopVars, loop

-----------------------------------------------------------------------------
(* Queues and frames.                                                      *)

(* The places before the first of those in I.                              *)
LEMMA BeforeTheFirst ==
    ASSUME NEW n \in Nat, NEW I \in SUBSET (1..n), NEW found, NEW k,
           found = (IF I # {} THEN Min(I) ELSE 0),
           k = (IF found = 0 THEN n ELSE found - 1)
    PROVE  /\ k \in 0..n
           /\ \A i \in 1..k : i \notin I
           /\ k # n => k + 1 \in I
<1>1. CASE I = {}
  BY <1>1
<1>2. CASE I # {}
  <2>1. I \in SUBSET Nat
    OBVIOUS
  <2>2. \E x \in I : \A y \in I : x <= y
    BY <1>2, <2>1, LeastNumber
  <2>3. found \in I /\ \A y \in I : found <= y
    BY <1>2, <2>2 DEF Min
  <2>4. k = found - 1 /\ found \in 1..n
    BY <2>3
  <2>5. QED
    BY <2>3, <2>4
<1>3. QED
  BY <1>1, <1>2

(* Where #drainPending finds the first thing that is not prose.            *)
LEMMA MessagesAhead ==
    ASSUME NEW q \in Seq(Pieces), NEW k, k = messagesAhead(q)
    PROVE  /\ k \in 0..Len(q)
           /\ \A i \in 1..k : q[i].type = "message"
           /\ k # Len(q) => k + 1 \in DOMAIN q /\ q[k + 1].type # "message"
<1> DEFINE I == {i \in 1..Len(q) : q[i].type # "message"}
           found == SelectInSeq(q, LAMBDA item : item.type # "message")
<1>1. found = (IF I # {} THEN Min(I) ELSE 0)
  BY DEF SelectInSeq
<1>2. k = (IF found = 0 THEN Len(q) ELSE found - 1)
  BY DEF messagesAhead
<1>3. Len(q) \in Nat /\ I \in SUBSET (1..Len(q)) /\ DOMAIN q = 1..Len(q)
  OBVIOUS
<1> HIDE DEF found
<1>4. k \in 0..Len(q) /\ (\A i \in 1..k : i \notin I) /\ (k # Len(q) => k + 1 \in I)
  <2> HIDE DEF I
  <2>1. QED
    BY <1>1, <1>2, <1>3, BeforeTheFirst
<1>5. \A i \in 1..k : i \in 1..Len(q)
  BY <1>3, <1>4
<1>6. QED
  BY <1>3, <1>4, <1>5

(* Where #release finds the first call it does not refuse.                 *)
LEMMA UnreadableAhead ==
    ASSUME NEW q \in Seq(Pieces), NEW k, k = unreadableAhead(q)
    PROVE  /\ k \in 0..Len(q)
           /\ \A i \in 1..k : ~asks(q[i]) /\ ~q[i].readable
           /\ k # Len(q) => k + 1 \in DOMAIN q /\ (asks(q[k + 1]) \/ q[k + 1].readable)
<1> DEFINE I == {i \in 1..Len(q) : ~unreadable(q[i])}
           found == SelectInSeq(q, LAMBDA item : ~unreadable(item))
<1>1. found = (IF I # {} THEN Min(I) ELSE 0)
  BY DEF SelectInSeq
<1>2. k = (IF found = 0 THEN Len(q) ELSE found - 1)
  BY DEF unreadableAhead
<1>3. Len(q) \in Nat /\ I \in SUBSET (1..Len(q)) /\ DOMAIN q = 1..Len(q)
  OBVIOUS
<1> HIDE DEF found
<1>4. k \in 0..Len(q) /\ (\A i \in 1..k : i \notin I) /\ (k # Len(q) => k + 1 \in I)
  <2> HIDE DEF I
  <2>1. QED
    BY <1>1, <1>2, <1>3, BeforeTheFirst
<1>5. \A i \in 1..k : i \in 1..Len(q) /\ unreadable(q[i])
  BY <1>3, <1>4
<1>6. k # Len(q) => k + 1 \in DOMAIN q /\ ~unreadable(q[k + 1])
  BY <1>3, <1>4
<1>7. QED
  BY <1>4, <1>5, <1>6 DEF unreadable

-----------------------------------------------------------------------------
(* The calls in a queue and in frames: theirs is the order of their ids.   *)

(* What identifies a call is a number.                                     *)
LEMMA IdsAreNumbers ==
    ASSUME NEW q \in Seq(Pieces)
    PROVE  callIds(q) \in SUBSET Nat
<1>1. \A x \in Pieces : x.id \in Nat
  BY DEF Pieces
<1>2. \A i \in DOMAIN q : q[i] \in Pieces
  OBVIOUS
<1>3. QED
  BY <1>1, <1>2 DEF callIds

(* Likewise for those of all frames.                                       *)
LEMMA AllIdsAreNumbers ==
    ASSUME NEW fs \in Seq(Seq(Pieces))
    PROVE  allIds(fs) \in SUBSET Nat
<1>1. \A f \in DOMAIN fs : callIds(fs[f]) \in SUBSET Nat
  BY IdsAreNumbers
<1>2. QED
  BY <1>1 DEF allIds

(* The calls of what one frame left and of what the next one brings.       *)
LEMMA JoinedIds ==
    ASSUME NEW q \in Seq(Pieces), NEW r \in Seq(Pieces)
    PROVE  /\ callIds(q \o r) = callIds(q) \union callIds(r)
           /\ Sorted(q) /\ Sorted(r) /\ Below(callIds(q), callIds(r)) => Sorted(q \o r)
<1> DEFINE t == q \o r
<1>1. /\ DOMAIN t = 1..(Len(q) + Len(r)) /\ Len(q) \in Nat /\ Len(r) \in Nat
      /\ DOMAIN q = 1..Len(q) /\ DOMAIN r = 1..Len(r)
      /\ \A i \in 1..Len(q) : t[i] = q[i]
      /\ \A i \in 1..Len(r) : t[Len(q) + i] = r[i]
      /\ \A i \in (Len(q) + 1)..(Len(q) + Len(r)) : t[i] = r[i - Len(q)]
  BY Joined
<1> HIDE DEF t
<1>2. \A i \in 1..Len(q) : i \in DOMAIN t
  BY <1>1
<1>3. \A i \in 1..Len(r) : Len(q) + i \in DOMAIN t
  BY <1>1
<1>4. \A i \in DOMAIN t : \/ i \in 1..Len(q) /\ t[i] = q[i]
                          \/ i > Len(q) /\ i - Len(q) \in 1..Len(r) /\ t[i] = r[i - Len(q)]
  BY <1>1
<1>5. callIds(t) = callIds(q) \union callIds(r)
  <2>1. ASSUME NEW x \in callIds(q) PROVE x \in callIds(t)
    BY <2>1, <1>1, <1>2 DEF callIds
  <2>2. ASSUME NEW x \in callIds(r) PROVE x \in callIds(t)
    <3>1. PICK i \in 1..Len(r) : r[i].type = "call" /\ x = r[i].id
      BY <2>2, <1>1 DEF callIds
    <3>2. Len(q) + i \in DOMAIN t /\ t[Len(q) + i] = r[i]
      BY <1>1, <1>3
    <3>3. QED
      BY <3>1, <3>2 DEF callIds
  <2>3. ASSUME NEW x \in callIds(t) PROVE x \in callIds(q) \union callIds(r)
    <3>1. PICK i \in DOMAIN t : t[i].type = "call" /\ x = t[i].id
      BY <2>3 DEF callIds
    <3>2. CASE i \in 1..Len(q) /\ t[i] = q[i]
      BY <3>1, <3>2, <1>1 DEF callIds
    <3>3. CASE i - Len(q) \in 1..Len(r) /\ t[i] = r[i - Len(q)]
      BY <3>1, <3>3, <1>1 DEF callIds
    <3>4. QED
      BY <3>2, <3>3, <1>4
  <2>4. QED
    BY <2>1, <2>2, <2>3
<1>6. ASSUME Sorted(q), Sorted(r), Below(callIds(q), callIds(r)) PROVE Sorted(t)
  <2> SUFFICES ASSUME NEW i \in DOMAIN t, NEW j \in DOMAIN t, i < j,
                      t[i].type = "call", t[j].type = "call"
               PROVE  t[i].id < t[j].id
    BY DEF Sorted
  <2>1. CASE i \in 1..Len(q) /\ t[i] = q[i] /\ j \in 1..Len(q) /\ t[j] = q[j]
    BY <2>1, <1>1, <1>6 DEF Sorted
  <2>2. CASE /\ i \in 1..Len(q) /\ t[i] = q[i]
             /\ j - Len(q) \in 1..Len(r) /\ t[j] = r[j - Len(q)]
    <3>1. t[i].id \in callIds(q) /\ t[j].id \in callIds(r)
      BY <2>2, <1>1 DEF callIds
    <3>2. QED
      BY <3>1, <1>6 DEF Below
  <2>3. CASE /\ i > Len(q) /\ i - Len(q) \in 1..Len(r) /\ t[i] = r[i - Len(q)]
             /\ j > Len(q) /\ j - Len(q) \in 1..Len(r) /\ t[j] = r[j - Len(q)]
    <3>1. i - Len(q) < j - Len(q)
      BY <1>1
    <3>2. QED
      BY <2>3, <3>1, <1>1, <1>6 DEF Sorted
  <2>4. ~(i > Len(q) /\ j \in 1..Len(q))
    BY <1>1
  <2>5. QED
    BY <2>1, <2>2, <2>3, <2>4, <1>4
<1>7. QED
  BY <1>5, <1>6 DEF t

(* The first call of q, and what is behind it.                             *)
LEMMA TakenIds ==
    ASSUME NEW q \in Seq(Pieces), Sorted(q), NEW k, k = messagesAhead(q), k # Len(q)
    PROVE  LET r == SubSeq(q, k + 2, Len(q)) IN
           /\ k + 1 \in DOMAIN q /\ r \in Seq(Pieces)
           /\ Sorted(r) /\ callIds(r) \subseteq callIds(q)
           /\ \A i \in DOMAIN r : \E j \in DOMAIN q : r[i] = q[j]
           /\ q[k + 1].type = "call" =>
                /\ callIds(q) = {q[k + 1].id} \union callIds(r)
                /\ Below({q[k + 1].id}, callIds(r))
<1> DEFINE r == SubSeq(q, k + 2, Len(q))
<1>1. /\ k \in 0..(Len(q) - 1) /\ k + 1 \in DOMAIN q
      /\ \A i \in 1..k : q[i].type = "message"
      /\ Len(q) \in Nat /\ DOMAIN q = 1..Len(q)
  BY MessagesAhead
<1>2. /\ r \in Seq(Pieces) /\ DOMAIN r = 1..(Len(q) - k - 1)
      /\ \A i \in DOMAIN r : r[i] = q[k + 1 + i]
  <2>1. q \in Seq(Pieces) /\ k \in 0..(Len(q) - 1)
    BY <1>1
  <2>2. LET x == SubSeq(q, k + 2, Len(q)) IN
        /\ x \in Seq(Pieces) /\ Len(x) = Len(q) - k - 1
        /\ DOMAIN x = 1..(Len(q) - k - 1)
        /\ \A i \in DOMAIN x : x[i] = q[k + 1 + i]
    BY ONLY <2>1, LeftBehind
  <2>3. QED
    BY <2>2
<1> HIDE DEF r
<1>3. \A i \in DOMAIN r : k + 1 + i \in DOMAIN q /\ i \in Nat /\ i > 0
  BY <1>1, <1>2
<1>4. Sorted(r)
  <2> SUFFICES ASSUME NEW i \in DOMAIN r, NEW j \in DOMAIN r, i < j,
                      r[i].type = "call", r[j].type = "call"
               PROVE  r[i].id < r[j].id
    BY DEF Sorted
  <2>1. k + 1 + i < k + 1 + j
    BY <1>1, <1>3
  <2>2. QED
    BY <2>1, <1>2, <1>3 DEF Sorted
<1>5. callIds(r) \subseteq callIds(q)
  BY <1>2, <1>3 DEF callIds
<1>6. ASSUME q[k + 1].type = "call"
      PROVE  /\ callIds(q) = {q[k + 1].id} \union callIds(r)
             /\ Below({q[k + 1].id}, callIds(r))
  <2>1. q[k + 1].id \in callIds(q)
    BY <1>1, <1>6 DEF callIds
  <2>2. ASSUME NEW x \in callIds(q) PROVE x \in {q[k + 1].id} \union callIds(r)
    <3>1. PICK i \in DOMAIN q : q[i].type = "call" /\ x = q[i].id
      BY <2>2 DEF callIds
    <3>2. i > k
      BY <3>1, <1>1
    <3>3. CASE i = k + 1
      BY <3>1, <3>3
    <3>4. CASE i # k + 1
      <4>1. i - k - 1 \in DOMAIN r
        BY <3>2, <3>4, <1>1, <1>2
      <4>2. k + 1 + (i - k - 1) = i
        BY <1>1
      <4>3. r[i - k - 1] = q[i]
        BY <4>1, <4>2, <1>2
      <4>4. QED
        BY <3>1, <4>1, <4>3 DEF callIds
    <3>5. QED
      BY <3>3, <3>4
  <2>3. ASSUME NEW x \in callIds(r) PROVE q[k + 1].id < x
    <3>1. PICK i \in DOMAIN r : r[i].type = "call" /\ x = r[i].id
      BY <2>3 DEF callIds
    <3>2. k + 1 < k + 1 + i /\ k + 1 + i \in DOMAIN q
      BY <1>1, <1>3
    <3>3. QED
      BY <3>1, <3>2, <1>1, <1>2, <1>6 DEF Sorted
  <2>4. QED
    BY <2>1, <2>2, <2>3, <1>5 DEF Below
<1>7. QED
  BY <1>1, <1>2, <1>3, <1>4, <1>5, <1>6 DEF r

(* Prose makes no call.                                                    *)
LEMMA NoCallsInMessages ==
    ASSUME NEW q \in Seq(Pieces), messagesAhead(q) = Len(q)
    PROVE  callIds(q) = {}
<1>1. \A i \in 1..Len(q) : q[i].type = "message"
  BY MessagesAhead
<1>2. DOMAIN q = 1..Len(q)
  OBVIOUS
<1>3. QED
  BY <1>1, <1>2 DEF callIds

(* The first frame, and the others.                                        *)
LEMMA FirstFrameIds ==
    ASSUME NEW fs \in Seq(Seq(Pieces)), fs # <<>>, AllSorted(fs)
    PROVE  /\ Tail(fs) \in Seq(Seq(Pieces)) /\ Head(fs) \in Seq(Pieces)
           /\ AllSorted(Tail(fs)) /\ Sorted(Head(fs))
           /\ allIds(fs) = callIds(Head(fs)) \union allIds(Tail(fs))
           /\ Below(callIds(Head(fs)), allIds(Tail(fs)))
           /\ Head(fs) = fs[1] /\ 1 \in DOMAIN fs
           /\ \A f \in DOMAIN Tail(fs) : \E g \in DOMAIN fs : Tail(fs)[f] = fs[g]
<1> DEFINE r == Tail(fs)
<1>1. /\ r \in Seq(Seq(Pieces)) /\ DOMAIN r = 1..(Len(fs) - 1)
      /\ \A i \in 1..(Len(fs) - 1) : r[i] = fs[i + 1]
      /\ Len(fs) \in Nat \ {0} /\ DOMAIN fs = 1..Len(fs)
      /\ Head(fs) = fs[1] /\ 1 \in DOMAIN fs /\ Head(fs) \in Seq(Pieces)
  BY TheRest
<1> HIDE DEF r
<1>2. \A i \in DOMAIN r : i + 1 \in DOMAIN fs /\ r[i] = fs[i + 1] /\ i \in Nat /\ 1 < i + 1
  BY <1>1
<1>3. \A g \in DOMAIN fs : g = 1 \/ (g - 1 \in DOMAIN r /\ r[g - 1] = fs[g])
  <2> SUFFICES ASSUME NEW g \in DOMAIN fs, g # 1 PROVE g - 1 \in DOMAIN r /\ r[g - 1] = fs[g]
    OBVIOUS
  <2>1. g - 1 \in 1..(Len(fs) - 1) /\ (g - 1) + 1 = g
    BY <1>1
  <2>2. QED
    BY <2>1, <1>1
<1>4. Sorted(Head(fs))
  BY <1>1 DEF AllSorted
<1>5. AllSorted(r)
  <2>1. \A f \in DOMAIN r : Sorted(r[f])
    BY <1>2 DEF AllSorted
  <2>2. ASSUME NEW f \in DOMAIN r, NEW g \in DOMAIN r, f < g
        PROVE  Below(callIds(r[f]), callIds(r[g]))
    <3>1. f + 1 < g + 1
      BY <2>2, <1>2
    <3>2. QED
      BY <3>1, <1>2 DEF AllSorted
  <2>3. QED
    BY <2>1, <2>2 DEF AllSorted
<1>6. allIds(fs) = callIds(Head(fs)) \union allIds(r)
  <2>1. ASSUME NEW x \in allIds(fs) PROVE x \in callIds(Head(fs)) \union allIds(r)
    <3>1. PICK g \in DOMAIN fs : x \in callIds(fs[g])
      BY <2>1 DEF allIds
    <3>2. QED
      <4>1. CASE g = 1
        BY <4>1, <3>1, <1>1
      <4>2. CASE g # 1
        <5>1. PICK f \in DOMAIN r : fs[g] = r[f]
          BY <4>2, <1>3
        <5>2. QED
          BY <5>1, <3>1 DEF allIds
      <4>3. QED
        BY <4>1, <4>2
  <2>2. callIds(Head(fs)) \subseteq allIds(fs)
    BY <1>1 DEF allIds
  <2>3. allIds(r) \subseteq allIds(fs)
    BY <1>2 DEF allIds
  <2>4. QED
    BY <2>1, <2>2, <2>3
<1>7. Below(callIds(Head(fs)), allIds(r))
  <2> SUFFICES ASSUME NEW x \in callIds(Head(fs)), NEW y \in allIds(r) PROVE x < y
    BY DEF Below
  <2>1. PICK f \in DOMAIN r : y \in callIds(r[f])
    BY DEF allIds
  <2>2. Below(callIds(fs[1]), callIds(fs[f + 1]))
    BY <1>1, <1>2 DEF AllSorted
  <2>3. QED
    BY <2>1, <2>2, <1>1, <1>2 DEF Below
<1>8. QED
  BY <1>1, <1>2, <1>4, <1>5, <1>6, <1>7 DEF r

(* Frames behind frames.                                                   *)
LEMMA MoreFrameIds ==
    ASSUME NEW fs \in Seq(Seq(Pieces)), NEW gs \in Seq(Seq(Pieces)),
           AllSorted(fs), AllSorted(gs), Below(allIds(fs), allIds(gs))
    PROVE  /\ AllSorted(fs \o gs)
           /\ allIds(fs \o gs) = allIds(fs) \union allIds(gs)
<1> DEFINE t == fs \o gs
<1>1. /\ DOMAIN t = 1..(Len(fs) + Len(gs)) /\ Len(fs) \in Nat /\ Len(gs) \in Nat
      /\ DOMAIN fs = 1..Len(fs) /\ DOMAIN gs = 1..Len(gs)
      /\ \A i \in 1..Len(fs) : t[i] = fs[i]
      /\ \A i \in 1..Len(gs) : t[Len(fs) + i] = gs[i]
      /\ \A i \in (Len(fs) + 1)..(Len(fs) + Len(gs)) : t[i] = gs[i - Len(fs)]
  BY Joined
<1> HIDE DEF t
<1>2. \A i \in 1..Len(fs) : i \in DOMAIN t
  BY <1>1
<1>3. \A i \in 1..Len(gs) : Len(fs) + i \in DOMAIN t
  BY <1>1
<1>4. \A i \in DOMAIN t : \/ i \in DOMAIN fs /\ t[i] = fs[i]
                          \/ i > Len(fs) /\ i - Len(fs) \in DOMAIN gs /\ t[i] = gs[i - Len(fs)]
  BY <1>1
<1>5. allIds(t) = allIds(fs) \union allIds(gs)
  <2>1. ASSUME NEW x \in allIds(fs) PROVE x \in allIds(t)
    BY <1>1, <1>2 DEF allIds
  <2>2. ASSUME NEW x \in allIds(gs) PROVE x \in allIds(t)
    <3>1. PICK i \in 1..Len(gs) : x \in callIds(gs[i])
      BY <1>1 DEF allIds
    <3>2. Len(fs) + i \in DOMAIN t /\ t[Len(fs) + i] = gs[i]
      BY <1>1, <1>3
    <3>3. QED
      BY <3>1, <3>2 DEF allIds
  <2>3. ASSUME NEW x \in allIds(t) PROVE x \in allIds(fs) \union allIds(gs)
    BY <1>4 DEF allIds
  <2>4. QED
    BY <2>1, <2>2, <2>3
<1>6. \A i \in DOMAIN t : Sorted(t[i])
  BY <1>4 DEF AllSorted
<1>7. ASSUME NEW i \in DOMAIN t, NEW j \in DOMAIN t, i < j
      PROVE  Below(callIds(t[i]), callIds(t[j]))
  <2>1. CASE i \in DOMAIN fs /\ t[i] = fs[i] /\ j \in DOMAIN fs /\ t[j] = fs[j]
    BY <1>7, <2>1 DEF AllSorted
  <2>2. CASE /\ i \in DOMAIN fs /\ t[i] = fs[i]
             /\ j - Len(fs) \in DOMAIN gs /\ t[j] = gs[j - Len(fs)]
    <3>1. callIds(t[i]) \subseteq allIds(fs) /\ callIds(t[j]) \subseteq allIds(gs)
      BY <2>2 DEF allIds
    <3>2. QED
      BY <3>1 DEF Below
  <2>3. CASE /\ i > Len(fs) /\ i - Len(fs) \in DOMAIN gs /\ t[i] = gs[i - Len(fs)]
             /\ j > Len(fs) /\ j - Len(fs) \in DOMAIN gs /\ t[j] = gs[j - Len(fs)]
    <3>1. i - Len(fs) < j - Len(fs)
      BY <1>1, <1>7
    <3>2. QED
      BY <2>3, <3>1 DEF AllSorted
  <2>4. ~(i > Len(fs) /\ j \in DOMAIN fs)
    BY <1>1, <1>7
  <2>5. QED
    BY <2>1, <2>2, <2>3, <2>4, <1>4
<1>8. QED
  BY <1>5, <1>6, <1>7 DEF t, AllSorted

-----------------------------------------------------------------------------
(* What frames mean.                                                       *)

(* A function on 1..n is a sequence of n.                                  *)
LEMMA SequenceOf ==
    ASSUME NEW S, NEW n \in Nat, NEW f, f = [i \in 1..n |-> f[i]],
           \A i \in 1..n : f[i] \in S
    PROVE  f \in Seq(S) /\ Len(f) = n
<1> DEFINE g == [i \in 1..n |-> f[i]]
<1>1. g \in Seq(S) /\ Len(g) = n
  OBVIOUS
<1>2. f = g
  OBVIOUS
<1> HIDE DEF g
<1>3. QED
  BY <1>1, <1>2

(* The calls among s that can be read.                                     *)
readableIds(s) == {s[i].id : i \in {j \in DOMAIN s : s[j].type = "call" /\ s[j].readable}}

(* What is said may be queued as it is.                                    *)
LEMMA SpokenArePieces ==
    ASSUME NEW s \in Seq(Spoken)
    PROVE  s \in Seq(Pieces) /\ DOMAIN s = 1..Len(s) /\ \A i \in DOMAIN s : s[i] \in Spoken
<1>1. Spoken \subseteq Pieces
  BY DEF Spoken, Pieces
<1>2. QED
  BY <1>1

(* The calls among chosen items are theirs, and in order.                  *)
LEMMA OnlyIds ==
    ASSUME NEW s \in Seq(Spoken), \A i, j \in DOMAIN s : i < j => s[i].id < s[j].id,
           NEW P \in SUBSET (DOMAIN s)
    PROVE  /\ only(s, P) \in Seq(Spoken)
           /\ \A i, j \in DOMAIN only(s, P) : i < j => only(s, P)[i].id < only(s, P)[j].id
           /\ \A i \in DOMAIN only(s, P) : \E k \in P : only(s, P)[i] = s[k]
           /\ \A k \in P : \E i \in DOMAIN only(s, P) : only(s, P)[i] = s[k]
<1> DEFINE o == only(s, P)
<1>1. o \in Seq(Spoken)
  BY OnlyThose
<1>2. PICK p \in [DOMAIN o -> P] :
        /\ \A i \in DOMAIN o : o[i] = s[p[i]]
        /\ \A i, j \in DOMAIN o : i < j => p[i] < p[j]
        /\ \A k \in P : \E i \in DOMAIN o : p[i] = k
  <2>1. s \in Seq(Spoken) /\ P \in SUBSET (DOMAIN s)
    OBVIOUS
  <2>2. Picks(o, s, P)
    BY ONLY <2>1, OnlyThose
  <2>3. QED
    BY <2>2, Zenon DEF Picks
<1> HIDE DEF o
<1>3. \A i \in DOMAIN o : p[i] \in P /\ p[i] \in DOMAIN s
  BY <1>2
<1>4. ASSUME NEW i \in DOMAIN o, NEW j \in DOMAIN o, i < j PROVE o[i].id < o[j].id
  BY <1>2, <1>3, <1>4
<1>5. \A i \in DOMAIN o : \E k \in P : o[i] = s[k]
  BY <1>2, <1>3
<1>6. \A k \in P : \E i \in DOMAIN o : o[i] = s[k]
  BY <1>2
<1>7. QED
  BY <1>1, <1>4, <1>5, <1>6 DEF o

(* A frame of its own states a call, if the vendor is read for it.         *)
LEMMA CallFrames ==
    ASSUME NEW v \in Vendors, NEW x \in Spoken, x.type = "call"
    PROVE  LET fr == interpret(v, callFrame(x)) IN
           /\ fr \in Seq(Pieces) /\ Sorted(fr)
           /\ callIds(fr) = IF v \in readsCalls /\ x.readable THEN {x.id} ELSE {}
           /\ \A i \in DOMAIN fr : fr[i].type # "complete"
<1>1. interpret(v, callFrame(x)) = callSteps(v, x)
  BY DEF interpret, callFrame
<1>2. CASE v \notin readsCalls
  <2>1. callSteps(v, x) = <<>>
    BY <1>2 DEF callSteps
  <2>2. <<>> \in Seq(Pieces) /\ DOMAIN <<>> = {}
    OBVIOUS
  <2>3. QED
    BY <1>1, <1>2, <2>1, <2>2 DEF Sorted, callIds
<1>3. CASE v \in readsCalls
  <2> DEFINE y == IF x.readable THEN x ELSE as(x, "failed")
  <2>1. callSteps(v, x) = <<y>>
    BY <1>3 DEF callSteps
  <2>2. y \in Pieces /\ y.type # "complete" /\ (y.type = "call" <=> x.readable) /\ y.id = x.id
    <3>1. x \in Pieces
      BY DEF Spoken, Pieces
    <3>2. CASE x.readable
      BY <3>1, <3>2
    <3>3. CASE ~x.readable
      BY <3>1, <3>3 DEF as, Pieces
    <3>4. QED
      BY <3>2, <3>3
  <2> HIDE DEF y
  <2>3. <<y>> \in Seq(Pieces) /\ DOMAIN <<y>> = {1} /\ <<y>>[1] = y
    BY <2>2, OneElement
  <2> DEFINE z == <<y>>
  <2>4. z \in Seq(Pieces) /\ DOMAIN z = {1} /\ z[1] = y
    BY <2>3
  <2> HIDE DEF z
  <2>5. Sorted(z)
    BY <2>4 DEF Sorted
  <2>6. callIds(z) = IF x.readable THEN {x.id} ELSE {}
    BY <2>2, <2>4 DEF callIds
  <2>7. \A i \in DOMAIN z : z[i].type # "complete"
    BY <2>2, <2>4
  <2>8. interpret(v, callFrame(x)) = z
    BY <1>1, <2>1 DEF z
  <2>9. QED
    BY <1>3, <2>4, <2>5, <2>6, <2>7, <2>8
<1>4. QED
  BY <1>2, <1>3

(* The message states prose, and its calls if the vendor is read for them. *)
LEMMA MessageFrames ==
    ASSUME NEW v \in Vendors, NEW s \in Seq(Spoken),
           \A i, j \in DOMAIN s : i < j => s[i].id < s[j].id
    PROVE  LET fr == interpret(v, message(s)) IN
           /\ fr \in Seq(Pieces) /\ Sorted(fr)
           /\ callIds(fr) = IF v \in readsBlocks THEN readableIds(s) ELSE {}
           /\ \A i \in DOMAIN fr : fr[i].type # "complete"
<1> DEFINE P == {i \in DOMAIN s : s[i].type = "message" \/ (v \in readsBlocks /\ s[i].readable)}
           o == only(s, P)
<1>1. interpret(v, message(s)) = o
  BY DEF interpret, message, blockSteps
<1>2. P \in SUBSET (DOMAIN s)
  OBVIOUS
<1>3. /\ o \in Seq(Spoken)
      /\ \A i, j \in DOMAIN o : i < j => o[i].id < o[j].id
      /\ \A i \in DOMAIN o : \E k \in P : o[i] = s[k]
      /\ \A k \in P : \E i \in DOMAIN o : o[i] = s[k]
  <2> HIDE DEF P
  <2>1. QED
    BY <1>2, OnlyIds
<1> HIDE DEF o
<1>4. o \in Seq(Pieces) /\ \A i \in DOMAIN o : o[i] \in Spoken
  BY <1>3, SpokenArePieces
<1>5. Sorted(o)
  BY <1>3 DEF Sorted
<1>6. callIds(o) = IF v \in readsBlocks THEN readableIds(s) ELSE {}
  <2>1. ASSUME NEW x \in callIds(o) PROVE v \in readsBlocks /\ x \in readableIds(s)
    <3>1. PICK i \in DOMAIN o : o[i].type = "call" /\ x = o[i].id
      BY <2>1 DEF callIds
    <3>2. PICK k \in P : o[i] = s[k]
      BY <1>3
    <3>3. QED
      BY <3>1, <3>2 DEF readableIds
  <2>2. ASSUME v \in readsBlocks, NEW x \in readableIds(s) PROVE x \in callIds(o)
    <3>1. PICK k \in DOMAIN s : s[k].type = "call" /\ s[k].readable /\ x = s[k].id
      BY <2>2 DEF readableIds
    <3>2. PICK i \in DOMAIN o : o[i] = s[k]
      BY <2>2, <3>1, <1>3
    <3>3. QED
      BY <3>1, <3>2 DEF callIds
  <2>3. QED
    BY <2>1, <2>2
<1>7. \A i \in DOMAIN o : o[i].type # "complete"
  BY <1>4 DEF Spoken
<1>8. QED
  BY <1>1, <1>4, <1>5, <1>6, <1>7

(* What an utterance means to its vendor's reader: each call that can be   *)
(* read once, whatever the number of its statements, in order, and nothing *)
(* that completes.                                                         *)
LEMMA Stated ==
    ASSUME NEW v \in Vendors, NEW s \in Seq(Spoken),
           \A i, j \in DOMAIN s : i < j => s[i].id < s[j].id
    PROVE  LET fs == interpreted(v, statement(s)) IN
           /\ fs \in Seq(Seq(Pieces))
           /\ AllSorted(fs) /\ allIds(fs) = readableIds(s)
           /\ \A f \in DOMAIN fs : \A i \in DOMAIN fs[f] : fs[f][i].type # "complete"
<1> DEFINE P == {i \in DOMAIN s : s[i].type = "call"}
           calls == only(s, P)
           told == [i \in DOMAIN calls |-> callFrame(calls[i])]
           st == <<message(s)>> \o told
           fs == interpreted(v, st)
<1>1. statement(s) = st
  BY DEF statement
<1>2. /\ calls \in Seq(Spoken)
      /\ \A i, j \in DOMAIN calls : i < j => calls[i].id < calls[j].id
      /\ \A i \in DOMAIN calls : \E k \in P : calls[i] = s[k]
      /\ \A k \in P : \E i \in DOMAIN calls : calls[i] = s[k]
  <2>1. P \in SUBSET (DOMAIN s)
    OBVIOUS
  <2> HIDE DEF P
  <2>2. QED
    BY <2>1, OnlyIds
<1> HIDE DEF calls
<1> DEFINE n == Len(calls)
<1>3. n \in Nat /\ DOMAIN calls = 1..n /\ \A i \in 1..n : calls[i] \in Spoken /\ calls[i].type = "call"
  BY <1>2, SpokenArePieces
<1> HIDE DEF n
<1> DEFINE S == {message(s)} \union {callFrame(x) : x \in Spoken}
<1>4. told \in Seq(S) /\ Len(told) = n /\ \A i \in 1..n : told[i] = callFrame(calls[i])
  <2>1. \A i \in 1..n : callFrame(calls[i]) \in S
    BY <1>3
  <2> HIDE DEF S
  <2>2. QED
    BY <1>3, <2>1
<1>5. <<message(s)>> \in Seq(S) /\ Len(<<message(s)>>) = 1 /\ <<message(s)>>[1] = message(s)
  <2>1. message(s) \in S
    OBVIOUS
  <2> HIDE DEF S
  <2>2. QED
    BY <2>1, OneElement
<1> HIDE DEF S, told
<1>6. /\ DOMAIN st = 1..(n + 1)
      /\ st[1] = message(s)
      /\ \A i \in 2..(n + 1) : st[i] = callFrame(calls[i - 1])
  <2> DEFINE one == <<message(s)>>
  <2>1. one \in Seq(S) /\ Len(one) = 1 /\ one[1] = message(s)
    BY <1>5
  <2> HIDE DEF one
  <2>2. /\ DOMAIN (one \o told) = 1..(1 + n)
        /\ \A i \in 1..1 : (one \o told)[i] = one[i]
        /\ \A i \in 2..(1 + n) : (one \o told)[i] = told[i - 1]
    <3>1. /\ DOMAIN (one \o told) = 1..(Len(one) + Len(told))
          /\ \A i \in 1..Len(one) : (one \o told)[i] = one[i]
          /\ \A i \in (Len(one) + 1)..(Len(one) + Len(told)) :
               (one \o told)[i] = told[i - Len(one)]
      <4>1. one \in Seq(S)
        BY <2>1
      <4>2. told \in Seq(S)
        BY <1>4
      <4>3. QED
        BY <4>1, <4>2, Joined
    <3>2. QED
      BY <3>1, <1>4, <2>1
  <2>3. \A i \in 2..(n + 1) : i - 1 \in 1..n
    BY <1>3
  <2>4. st = one \o told
    BY DEF one
  <2>5. 1 + n = n + 1 /\ 1 \in 1..1
    BY <1>3
  <2> HIDE DEF st
  <2>6. QED
    BY <2>1, <2>2, <2>3, <2>4, <2>5, <1>4
<1> HIDE DEF st
<1>7. /\ DOMAIN fs = 1..(n + 1)
      /\ fs[1] = interpret(v, message(s))
      /\ \A i \in 2..(n + 1) : fs[i] = interpret(v, callFrame(calls[i - 1]))
  BY <1>3, <1>6 DEF interpreted
<1> HIDE DEF fs
<1>8. \A i \in DOMAIN fs : i = 1 \/ (i \in 2..(n + 1) /\ i - 1 \in 1..n)
  BY <1>3, <1>7
<1>9. /\ fs[1] \in Seq(Pieces) /\ Sorted(fs[1])
      /\ callIds(fs[1]) = IF v \in readsBlocks THEN readableIds(s) ELSE {}
      /\ \A i \in DOMAIN fs[1] : fs[1][i].type # "complete"
  BY <1>7, MessageFrames
<1>10. ASSUME NEW i \in 2..(n + 1)
       PROVE  /\ i - 1 \in 1..n
              /\ fs[i] \in Seq(Pieces) /\ Sorted(fs[i])
              /\ callIds(fs[i]) = IF v \in readsCalls /\ calls[i - 1].readable
                                  THEN {calls[i - 1].id} ELSE {}
              /\ \A j \in DOMAIN fs[i] : fs[i][j].type # "complete"
  <2>1. i - 1 \in 1..n
    BY <1>3
  <2>2. calls[i - 1] \in Spoken /\ calls[i - 1].type = "call"
    BY <2>1, <1>3
  <2>3. QED
    BY <2>1, <2>2, <1>7, CallFrames
<1>11. \A i \in DOMAIN fs : /\ fs[i] \in Seq(Pieces) /\ Sorted(fs[i])
                            /\ \A j \in DOMAIN fs[i] : fs[i][j].type # "complete"
  BY <1>8, <1>9, <1>10
<1>12. fs \in Seq(Seq(Pieces))
  <2>1. n + 1 \in Nat
    BY <1>3
  <2>2. fs = [i \in 1..(n + 1) |-> fs[i]]
    BY <1>6, <1>7 DEF fs, interpreted
  <2>3. \A i \in 1..(n + 1) : fs[i] \in Seq(Pieces)
    BY <1>7, <1>11
  <2>4. QED
    BY <2>1, <2>2, <2>3, SequenceOf
<1>13. ~(v \in readsBlocks /\ v \in readsCalls) /\ (v \in readsBlocks \/ v \in readsCalls)
  BY DEF Vendors, readsBlocks, readsCalls
<1>14. ASSUME NEW i \in DOMAIN fs, NEW j \in DOMAIN fs, i < j
       PROVE  Below(callIds(fs[i]), callIds(fs[j]))
  <2>1. j \in 2..(n + 1) /\ j - 1 \in 1..n
    BY <1>8, <1>14, <1>7, <1>3
  <2>2. CASE i = 1
    BY <2>1, <2>2, <1>9, <1>10, <1>13 DEF Below
  <2>3. CASE i # 1
    <3>1. i \in 2..(n + 1) /\ i - 1 \in 1..n /\ i - 1 < j - 1
      BY <2>1, <2>3, <1>8, <1>14
    <3>2. calls[i - 1].id < calls[j - 1].id
      BY <2>1, <3>1, <1>2, <1>3
    <3>3. QED
      BY <2>1, <3>1, <3>2, <1>10 DEF Below
  <2>4. QED
    BY <2>2, <2>3
<1>15. AllSorted(fs)
  BY <1>11, <1>14 DEF AllSorted
<1>16. allIds(fs) = readableIds(s)
  <2>1. ASSUME NEW x \in allIds(fs) PROVE x \in readableIds(s)
    <3>1. PICK f \in DOMAIN fs : x \in callIds(fs[f])
      BY <2>1 DEF allIds
    <3>2. CASE f = 1
      BY <3>1, <3>2, <1>9
    <3>3. CASE f # 1
      <4>1. f \in 2..(n + 1) /\ f - 1 \in 1..n
        BY <3>3, <1>8
      <4>2. x = calls[f - 1].id /\ calls[f - 1].readable
        BY <3>1, <4>1, <1>10
      <4>3. PICK k \in P : calls[f - 1] = s[k]
        BY <4>1, <1>2, <1>3
      <4>4. QED
        BY <4>2, <4>3 DEF readableIds
    <3>4. QED
      BY <3>2, <3>3
  <2>2. ASSUME NEW x \in readableIds(s) PROVE x \in allIds(fs)
    <3>1. PICK k \in DOMAIN s : s[k].type = "call" /\ s[k].readable /\ x = s[k].id
      BY <2>2 DEF readableIds
    <3>2. CASE v \in readsBlocks
      <4>1. 1 \in DOMAIN fs
        BY <1>3, <1>7
      <4>2. QED
        BY <3>2, <4>1, <1>9 DEF allIds
    <3>3. CASE v \in readsCalls
      <4>1. PICK i \in DOMAIN calls : calls[i] = s[k]
        BY <3>1, <1>2
      <4>2. i + 1 \in 2..(n + 1) /\ (i + 1) - 1 = i
        BY <1>3
      <4>3. callIds(fs[i + 1]) = {calls[i].id}
        BY <3>1, <3>3, <4>1, <4>2, <1>10
      <4>4. i + 1 \in DOMAIN fs
        BY <4>2, <1>3, <1>7
      <4>5. QED
        BY <3>1, <4>1, <4>3, <4>4 DEF allIds
    <3>4. QED
      BY <3>2, <3>3, <1>13
  <2>3. QED
    BY <2>1, <2>2
<1>17. interpreted(v, statement(s)) = fs
  BY <1>1 DEF fs
<1>18. QED
  BY <1>11, <1>12, <1>15, <1>16, <1>17

(* A last word completes only as an ending that names no failure.          *)
LEMMA Worded ==
    ASSUME NEW v \in Vendors, NEW word \in lastWords(v)
    PROVE  LET fs == interpreted(v, <<ending(word)>>) IN
           /\ fs \in Seq(Seq(Pieces)) /\ AllSorted(fs) /\ allIds(fs) = {}
           /\ \A f \in DOMAIN fs : \A i \in DOMAIN fs[f] :
                fs[f][i].type = "complete" => claimOf(v, word) \in saysItIsOver(v)
<1> DEFINE e == endingSteps(v, word)
           fs == interpreted(v, <<ending(word)>>)
           y == [id |-> 0, type |-> endingStep(v, word), ask |-> FALSE, readable |-> TRUE]
<1>1. endingStep(v, word) \in {"failed", "none", "complete"}
  BY DEF endingStep
<1>2. e = IF endingStep(v, word) = "none" THEN <<>> ELSE <<y>>
  BY DEF endingSteps
<1>3. endingStep(v, word) # "none" => y \in Pieces
  BY <1>1 DEF Pieces
<1>4. y.type = endingStep(v, word)
  OBVIOUS
<1> HIDE DEF y
<1>5. y \in Pieces => <<y>> \in Seq(Pieces) /\ DOMAIN <<y>> = {1} /\ <<y>>[1] = y
  BY OneElement
<1>6. <<>> \in Seq(Pieces) /\ DOMAIN <<>> = {}
  OBVIOUS
<1>7. e \in Seq(Pieces) /\ \A i \in DOMAIN e : e[i].type = endingStep(v, word)
  BY <1>2, <1>3, <1>4, <1>5, <1>6
<1>8. Sorted(e) /\ callIds(e) = {}
  BY <1>1, <1>7 DEF Sorted, callIds
<1> HIDE DEF e
<1>9. DOMAIN <<ending(word)>> = 1..1 /\ <<ending(word)>>[1] = ending(word)
  BY OneElement
<1>10. interpret(v, ending(word)) = e
  BY DEF interpret, ending, e
<1>11. fs = [i \in 1..1 |-> e]
  BY <1>9, <1>10 DEF interpreted
<1> HIDE DEF fs
<1>12. DOMAIN fs = {1} /\ fs[1] = e
  BY <1>11
<1>13. fs \in Seq(Seq(Pieces))
  BY <1>7, <1>11
<1>14. AllSorted(fs) /\ allIds(fs) = {}
  BY <1>8, <1>12 DEF AllSorted, allIds
<1>15. ASSUME endingStep(v, word) = "complete"
       PROVE  claimOf(v, word) \in saysItIsOver(v)
  <2>1. word \notin failures[v] /\ word \notin progress[v]
    BY <1>15 DEF endingStep
  <2>2. word \in completions[v] \/ word \in unlisted[v]
    BY <2>1 DEF lastWords
  <2>3. CASE word \in completions[v]
    BY <2>3 DEF claimOf, saysItIsOver
  <2>4. CASE word \in unlisted[v] /\ word \notin completions[v]
    <3>1. claimOf(v, word) = "unlisted"
      BY <2>1, <2>4 DEF claimOf
    <3>2. unlisted[v] # {}
      BY <2>4
    <3>3. QED
      BY <3>1, <3>2 DEF saysItIsOver
  <2>5. QED
    BY <2>2, <2>3, <2>4
<1>16. QED
  BY <1>7, <1>12, <1>13, <1>14, <1>15 DEF fs

-----------------------------------------------------------------------------
(* What is said, and what is sent.                                         *)

(* What an occupant says comes after what it said.                         *)
LEMMA SaysMore ==
    ASSUME QueueTypeOK, NEW b \in Seq(Items), Says(b)
    PROVE  LET s == identified(b) IN
           /\ s \in Seq(Spoken) /\ Len(s) = Len(b) /\ DOMAIN s = DOMAIN b
           /\ \A i \in DOMAIN s : s[i].id = Len(said) + i /\ s[i].type = b[i].type
           /\ \A i, j \in DOMAIN s : i < j => s[i].id < s[j].id
           /\ said' = said \o s /\ said' \in Seq(Spoken)
           /\ Len(said') = Len(said) + Len(b)
           /\ \A k \in DOMAIN said : k \in DOMAIN said' /\ said'[k] = said[k]
           /\ \A i \in DOMAIN s : said'[Len(said) + i] = s[i]
           /\ \A k \in DOMAIN said' : said'[k].id = k
           /\ callsSaid' = callsSaid \union readableIds(s)
           /\ \A x \in readableIds(s) : x \in Nat /\ x > Len(said)
           /\ \A x \in callsSaid : x \in 1..Len(said)
<1> DEFINE s == identified(b)
           n == Len(said)
<1>1. n \in Nat /\ Len(b) \in Nat /\ DOMAIN b = 1..Len(b) /\ DOMAIN said = 1..n
  BY DEF QueueTypeOK
<1>2. \A i \in 1..Len(b) : b[i] \in Items
  OBVIOUS
<1> HIDE DEF n
<1>3. s = [i \in 1..Len(b) |-> [id |-> n + i, type |-> b[i].type, ask |-> b[i].ask,
                                readable |-> b[i].readable]]
  BY <1>1 DEF identified, n
<1>4. \A i \in 1..Len(b) :
        /\ s[i] = [id |-> n + i, type |-> b[i].type, ask |-> b[i].ask,
                   readable |-> b[i].readable]
        /\ s[i] \in Spoken
  BY <1>1, <1>2, <1>3 DEF Items, Spoken
<1>5. s \in Seq(Spoken) /\ Len(s) = Len(b) /\ DOMAIN s = 1..Len(b)
  <2>1. s = [i \in 1..Len(b) |-> s[i]]
    BY <1>3
  <2>2. \A i \in 1..Len(b) : s[i] \in Spoken
    BY <1>4
  <2> HIDE DEF s
  <2>3. s \in Seq(Spoken) /\ Len(s) = Len(b)
    BY <1>1, <2>1, <2>2, SequenceOf
  <2>4. QED
    BY <2>1, <2>3
<1> HIDE DEF s
<1>6. ASSUME NEW i \in 1..Len(b) PROVE s[i].id = n + i /\ s[i].type = b[i].type
  <2>1. s[i] = [id |-> n + i, type |-> b[i].type, ask |-> b[i].ask,
                readable |-> b[i].readable]
    BY <1>4
  <2>2. QED
    BY <2>1
<1>7. \A i, j \in DOMAIN s : i < j => s[i].id < s[j].id
  BY <1>1, <1>5, <1>6
<1>8. said' = said \o s /\ said \in Seq(Spoken) /\ \A k \in DOMAIN said : said[k].id = k
  BY DEF Says, s, QueueTypeOK
<1> DEFINE t == said \o s
<1>9. /\ t \in Seq(Spoken) /\ Len(t) = n + Len(b)
      /\ DOMAIN t = 1..(n + Len(b))
      /\ \A k \in 1..n : t[k] = said[k]
      /\ \A i \in 1..Len(b) : t[n + i] = s[i]
      /\ \A k \in (n + 1)..(n + Len(b)) : t[k] = s[k - n]
  <2>1. said \in Seq(Spoken)
    BY <1>8
  <2>2. s \in Seq(Spoken)
    BY <1>5
  <2> HIDE DEF t
  <2>2a. t = said \o s
    BY DEF t
  <2>3. /\ t \in Seq(Spoken) /\ Len(t) = Len(said) + Len(s)
        /\ DOMAIN t = 1..(Len(said) + Len(s))
        /\ \A k \in 1..Len(said) : t[k] = said[k]
        /\ \A i \in 1..Len(s) : t[Len(said) + i] = s[i]
        /\ \A k \in (Len(said) + 1)..(Len(said) + Len(s)) : t[k] = s[k - Len(said)]
    BY ONLY <2>1, <2>2, <2>2a, TheJoin
  <2>4. Len(s) = Len(b) /\ n = Len(said)
    BY <1>5 DEF n
  <2>5. QED
    BY <2>3, <2>4
<1>10. said' = t
  BY <1>8
<1> HIDE DEF t
<1>11. \A k \in DOMAIN t : k \in 1..n \/ (k > n /\ k - n \in 1..Len(b) /\ t[k] = s[k - n])
  BY <1>1, <1>9
<1>12. \A k \in DOMAIN t : t[k].id = k
  <2>1. ASSUME NEW k \in DOMAIN t, k \in 1..n PROVE t[k].id = k
    BY <2>1, <1>1, <1>8, <1>9
  <2>2. ASSUME NEW k \in DOMAIN t, k > n, k - n \in 1..Len(b), t[k] = s[k - n] PROVE t[k].id = k
    <3>1. n + (k - n) = k
      BY <1>1, <1>9
    <3>2. QED
      BY <2>2, <3>1, <1>6
  <2>3. QED
    BY <2>1, <2>2, <1>11
<1>13. \A k \in 1..n : k \in DOMAIN t
  BY <1>1, <1>9
<1>14. {id \in DOMAIN t : t[id].type = "call" /\ t[id].readable} = callsSaid \union readableIds(s)
  <2>1. ASSUME NEW x \in DOMAIN t, t[x].type = "call", t[x].readable
        PROVE  x \in callsSaid \union readableIds(s)
    <3>1. CASE x \in 1..n
      BY <2>1, <3>1, <1>1, <1>9 DEF callsSaid
    <3>2. CASE x > n /\ x - n \in 1..Len(b) /\ t[x] = s[x - n]
      <4>1. s[x - n].id = x
        BY <3>2, <1>12
      <4>2. QED
        BY <2>1, <3>2, <4>1, <1>5 DEF readableIds
    <3>3. QED
      BY <3>1, <3>2, <1>11
  <2>2. ASSUME NEW x \in callsSaid
        PROVE  x \in DOMAIN t /\ t[x].type = "call" /\ t[x].readable
    BY <1>1, <1>9, <1>13 DEF callsSaid
  <2>3. ASSUME NEW x \in readableIds(s)
        PROVE  x \in DOMAIN t /\ t[x].type = "call" /\ t[x].readable
    <3>1. PICK i \in DOMAIN s : s[i].type = "call" /\ s[i].readable /\ x = s[i].id
      BY DEF readableIds
    <3>2. i \in 1..Len(b) /\ x = n + i
      BY <3>1, <1>5, <1>6
    <3>3. n + i \in DOMAIN t
      BY <3>2, <1>1, <1>9
    <3>4. QED
      BY <3>1, <3>2, <3>3, <1>9
  <2>4. QED
    BY <2>1, <2>2, <2>3
<1>15. callsSaid' = callsSaid \union readableIds(s)
  BY <1>10, <1>14 DEF callsSaid
<1>16. \A x \in readableIds(s) : x \in Nat /\ x > n
  <2> SUFFICES ASSUME NEW x \in readableIds(s) PROVE x \in Nat /\ x > n
    OBVIOUS
  <2>1. PICK i \in DOMAIN s : x = s[i].id
    BY DEF readableIds
  <2>2. i \in 1..Len(b) /\ x = n + i
    BY <2>1, <1>5, <1>6
  <2>3. QED
    BY <2>2, <1>1
<1>17. \A x \in callsSaid : x \in 1..n
  BY <1>1 DEF callsSaid
<1>18. DOMAIN s = DOMAIN b
  BY <1>1, <1>5
<1>19. said' \in Seq(Spoken) /\ Len(said') = n + Len(b) /\ \A k \in DOMAIN said' : said'[k].id = k
  BY <1>9, <1>10, <1>12
<1>20. \A k \in DOMAIN said : k \in DOMAIN said' /\ said'[k] = said[k]
  BY <1>1, <1>9, <1>10, <1>13
<1>21. \A i \in DOMAIN s : said'[n + i] = s[i] /\ s[i].id = n + i /\ s[i].type = b[i].type
  BY <1>5, <1>6, <1>9, <1>10
<1>22. QED
  BY <1>5, <1>7, <1>8, <1>15, <1>16, <1>17, <1>18, <1>19, <1>20, <1>21 DEF s, n

(* A call is a place among what was said.                                  *)
LEMMA CallsSaidAreNumbers ==
    ASSUME QueueTypeOK
    PROVE  /\ callsSaid \in SUBSET (1..Len(said)) /\ Len(said) \in Nat
           /\ callsSaid \in SUBSET Nat /\ None \notin callsSaid
<1>1. DOMAIN said = 1..Len(said) /\ Len(said) \in Nat
  BY DEF QueueTypeOK
<1>2. callsSaid \in SUBSET (1..Len(said)) /\ callsSaid \in SUBSET Nat
  BY <1>1 DEF callsSaid
<1>3. QED
  BY <1>1, <1>2, StandardRuntimeAssumption

(* The property, in the words of the operator.                             *)
LEMMA InOrderSaid == CallsReachTheHostInOrder <=> InOrder(callsSaid, sent)
BY DEF CallsReachTheHostInOrder, InOrder

(* What is said later is not before anything that was sent.                *)
LEMMA InOrderLater ==
    ASSUME QueueTypeOK, sentIds \subseteq callsSaid, InOrder(callsSaid, sent),
           NEW new, \A x \in new : x \in Nat /\ x > Len(said)
    PROVE  InOrder(callsSaid \union new, sent)
<1>1. callsSaid \in SUBSET (1..Len(said)) /\ Len(said) \in Nat
  BY CallsSaidAreNumbers
<1> DEFINE all == callsSaid \union new
<1>2. ASSUME NEW i \in DOMAIN sent, sent[i].call # None
      PROVE  /\ sent[i].call \in all
             /\ {id \in all : id < sent[i].call} = {sent[j].call : j \in 1..(i - 1)}
  <2>1. /\ sent[i].call \in callsSaid
        /\ {id \in callsSaid : id < sent[i].call} = {sent[j].call : j \in 1..(i - 1)}
    BY <1>2 DEF InOrder
  <2>2. \A x \in new : ~(x < sent[i].call)
    <3>1. sent[i].call \in 1..Len(said)
      BY <2>1, <1>1
    <3>2. QED
      BY <3>1, <1>1
  <2>3. {id \in all : id < sent[i].call} = {id \in callsSaid : id < sent[i].call}
    BY <2>2
  <2>4. QED
    BY <2>1, <2>3
<1> HIDE DEF all
<1>3. InOrder(all, sent)
  BY <1>2 DEF InOrder
<1>4. QED
  BY <1>3 DEF all

(* What is said later comes after all that was sent.                       *)
LEMMA SaidLater ==
    ASSUME QueueTypeOK, sentIds \subseteq callsSaid, CallsReachTheHostInOrder, sent' = sent,
           NEW new, callsSaid' = callsSaid \union new,
           \A x \in new : x \in Nat /\ x > Len(said)
    PROVE  CallsReachTheHostInOrder' /\ sentIds' = sentIds /\ sentIds' \subseteq callsSaid'
<1>1. sentIds' = sentIds
  BY DEF sentIds
<1>2. InOrder(callsSaid', sent)
  BY InOrderSaid, InOrderLater
<1>3. CallsReachTheHostInOrder'
  BY <1>2 DEF CallsReachTheHostInOrder, InOrder
<1>4. QED
  BY <1>1, <1>3

(* What was sent is in order while nothing is said or sent.                *)
LEMMA NothingSent ==
    ASSUME sent' = sent, said' = said
    PROVE  /\ sentIds' = sentIds /\ callsSaid' = callsSaid
           /\ CallsReachTheHostInOrder => CallsReachTheHostInOrder'
BY DEF sentIds, callsSaid, CallsReachTheHostInOrder

(* The next call is sent: the least of those that were not.                *)
LEMMA SentInOrder ==
    ASSUME sent \in Seq(Sends), NEW calls \in SUBSET Nat, InOrder(calls, sent),
           NEW id \in calls, {x \in calls : x < id} = sentIds, SendsCall(id)
    PROVE  /\ InOrder(calls, sent')
           /\ sent' \in Seq(Sends) /\ sentIds' = sentIds \union {id}
           /\ sent' # <<>> /\ sent'[Len(sent')].call = id
<1>2. PICK n \in Nat : sent' = Append(sent, [call |-> id, step |-> n])
  BY DEF SendsCall
<1> DEFINE x == [call |-> id, step |-> n]
           m == Len(sent)
<1>3. x \in Sends /\ x.call = id
  BY DEF Sends
<1> HIDE DEF x
<1>4. sent \in Seq(Sends) /\ sent' = Append(sent, x)
  BY <1>2 DEF x
<1> DEFINE t == Append(sent, x)
<1>5. /\ t \in Seq(Sends) /\ Len(t) = m + 1 /\ DOMAIN t = 1..(m + 1) /\ DOMAIN sent = 1..m
      /\ \A i \in 1..m : t[i] = sent[i]
      /\ t[m + 1] = x /\ t # <<>>
  BY <1>3, <1>4, OneMore
<1>5a. m \in Nat
  BY <1>4
<1> HIDE DEF t, m
<1>6. {t[j].call : j \in DOMAIN t} = sentIds \union {id}
  <2>1. \A j \in DOMAIN t : j \in 1..m \/ j = m + 1
    BY <1>5, <1>5a
  <2>2. m + 1 \in DOMAIN t /\ \A j \in 1..m : j \in DOMAIN t
    BY <1>5, <1>5a
  <2>3. QED
    BY <2>1, <2>2, <1>3, <1>5 DEF sentIds
<1>7. ASSUME NEW i \in DOMAIN t, t[i].call # None
      PROVE  /\ t[i].call \in calls
             /\ {y \in calls : y < t[i].call} = {t[j].call : j \in 1..(i - 1)}
  <2>1. CASE i \in 1..m
    <3>1. /\ sent[i].call \in calls
          /\ {y \in calls : y < sent[i].call} = {sent[j].call : j \in 1..(i - 1)}
      BY <1>5, <1>7, <2>1 DEF InOrder
    <3>2. \A j \in 1..(i - 1) : j \in 1..m /\ t[j] = sent[j]
      BY <1>5, <1>5a, <2>1
    <3>3. QED
      BY <3>1, <3>2, <2>1, <1>5
  <2>2. CASE i = m + 1
    <3>1. i - 1 = m
      BY <1>5a, <2>2
    <3>2. {t[j].call : j \in 1..m} = sentIds
      BY <1>5 DEF sentIds
    <3>3. QED
      BY <2>2, <3>1, <3>2, <1>3, <1>5
  <2>3. QED
    BY <2>1, <2>2, <1>5, <1>5a
<1>8. sent' = t
  BY <1>4 DEF t
<1>9. InOrder(calls, sent')
  BY <1>7, <1>8 DEF InOrder
<1>10. sentIds' = sentIds \union {id}
  BY <1>6, <1>8 DEF sentIds
<1>11. QED
  BY <1>3, <1>5, <1>8, <1>9, <1>10

-----------------------------------------------------------------------------
(* The harness in the seat.                                                *)

(* An empty queue holds no call.                                           *)
LEMMA NothingQueued ==
    /\ <<>> \in Seq(Pieces) /\ DOMAIN <<>> = {}
    /\ callIds(<<>>) = {} /\ Sorted(<<>>)
<1>1. <<>> \in Seq(Pieces) /\ DOMAIN <<>> = {}
  OBVIOUS
<1>2. QED
  BY <1>1 DEF callIds, Sorted

(* What waits still waits in order when some of it is taken and the turn   *)
(* ends, or when none of it is.                                            *)
LEMMA StillWaiting ==
    ASSUME NEW q, NEW fs, Waiting(q, fs), sent' = sent, said' = said, buffered' = fs,
           Sorted(queue'), callIds(queue') \subseteq callIds(q),
           turning' => turning /\ callIds(queue') = callIds(q)
    PROVE  Waiting(queue, buffered)'
<1>1. sentIds' = sentIds /\ callsSaid' = callsSaid
  BY NothingSent
<1>2. Sorted(queue') /\ AllSorted(buffered') /\ Below(callIds(queue'), allIds(buffered'))
  BY DEF Waiting, Below
<1>3. callIds(queue') \union allIds(buffered') \subseteq callsSaid'
  BY <1>1 DEF Waiting
<1>4. ASSUME turning'
      PROVE  /\ callsSaid' \subseteq sentIds' \union callIds(queue') \union allIds(buffered')
             /\ Below(sentIds', callIds(queue') \union allIds(buffered'))
  BY <1>1, <1>4 DEF Waiting
<1>5. QED
  BY <1>2, <1>3, <1>4 DEF Waiting

(* #drainPending: the calls of q, the first of which may be sent, still    *)
(* wait in order.                                                          *)
LEMMA DrainsKeeps ==
    ASSUME LoopIInv, QueueTypeOK, NEW q \in Seq(Pieces), NEW fs \in Seq(Seq(Pieces)),
           Waiting(q, fs), sentIds \subseteq callsSaid, CallsReachTheHostInOrder,
           at \notin {"opening", "calling"},
           DrainsPending(q), said' = said, buffered' = fs
    PROVE  /\ HarnessInv' /\ queue' \in Seq(Pieces) /\ sent' \in Seq(Sends)
           /\ \A i \in DOMAIN queue' : \E j \in DOMAIN q : queue'[i] = q[j]
           /\ outcome' = "complete" =>
                outcome = "complete" \/ \E j \in DOMAIN q : q[j].type = "complete"
<1> DEFINE k == messagesAhead(q)
           item == q[k + 1]
           r == SubSeq(q, k + 2, Len(q))
<1>0. sent \in Seq(Sends) /\ Sorted(q)
  BY DEF QueueTypeOK, Waiting
<1>1. CASE k = Len(q)
  <2>1. queue' = <<>> /\ waitsFor' = "read" /\ UNCHANGED loopVars
    BY <1>1 DEF DrainsPending
  <2>2. UNCHANGED <<at, sent, outcome>>
    BY <2>1 DEF loopVars, loop
  <2>3. callIds(q) = {}
    BY <1>1, NoCallsInMessages
  <2>4. Waiting(queue, buffered)'
    BY <2>1, <2>2, <2>3, NothingQueued, StillWaiting DEF turning
  <2>5. HarnessInv'
    BY <2>2, <2>4, NothingSent DEF HarnessInv
  <2>6. QED
    BY <2>1, <2>2, <2>5, <1>0, NothingQueued
<1>2. CASE k # Len(q)
  <2>1. /\ queue' = r /\ waitsFor' = "nothing"
        /\ IF item.type = "complete" THEN Delivers("complete", None, None)
           ELSE IF item.type = "failed" THEN Delivers("fail", None, None)
           ELSE IF asks(item) THEN Delivers("escalate", None, None)
           ELSE Releases(item)
    BY <1>2 DEF DrainsPending
  <2>2. /\ k + 1 \in DOMAIN q /\ r \in Seq(Pieces)
        /\ Sorted(r) /\ callIds(r) \subseteq callIds(q)
        /\ \A i \in DOMAIN r : \E j \in DOMAIN q : r[i] = q[j]
        /\ item.type = "call" =>
             callIds(q) = {item.id} \union callIds(r) /\ Below({item.id}, callIds(r))
    BY <1>0, <1>2, TakenIds
  <2>3. item.type # "message" /\ item \in Pieces
    BY <1>2, <2>2, MessagesAhead
  <2> HIDE DEF k, r, item
  <2>4. \/ Leaves \/ Ends
        \/ Completes /\ item.type = "complete"
        \/ SendsCall(item.id) /\ item.type = "call"
    <3>1. item.type \in {"call", "failed", "complete"}
      BY <2>3 DEF Pieces
    <3>2. CASE item.type = "complete"
      BY <2>1, <3>2, DeliversEnds
    <3>3. CASE item.type = "failed"
      BY <2>1, <3>3, DeliversEnds
    <3>4. CASE item.type = "call" /\ asks(item)
      BY <2>1, <3>4, DeliversEnds
    <3>5. CASE item.type = "call" /\ ~asks(item)
      BY <2>1, <3>5, ReleasesSends
    <3>6. QED
      BY <3>1, <3>2, <3>3, <3>4, <3>5
  <2>5. CASE Leaves \/ Ends \/ (Completes /\ item.type = "complete")
    <3>1. sent' = sent /\ ~turning' /\ at' \notin {"opening", "calling"}
      BY <2>5, LeavesKeeps DEF Ends, Completes, turning
    <3>2. Waiting(queue, buffered)'
      BY <2>1, <2>2, <3>1, StillWaiting
    <3>3. HarnessInv'
      BY <2>1, <3>1, <3>2, NothingSent DEF HarnessInv
    <3>4. outcome' = "complete" => outcome = "complete" \/ \E j \in DOMAIN q : q[j].type = "complete"
      BY <2>2, <2>5, LeavesKeeps DEF Ends, Completes, item
    <3>5. QED
      BY <2>1, <2>2, <3>1, <3>3, <3>4, <1>0
  <2>6. CASE SendsCall(item.id) /\ item.type = "call"
    <3> DEFINE id == item.id
    <3>1. turning /\ at' = "calling" /\ outcome' = outcome
      BY <2>6 DEF SendsCall, turning
    <3>2. callIds(q) = {id} \union callIds(r) /\ Below({id}, callIds(r))
      BY <2>2, <2>6
    <3>3. /\ id \in callsSaid
          /\ callsSaid \subseteq sentIds \union callIds(q) \union allIds(fs)
          /\ Below(sentIds, callIds(q) \union allIds(fs))
          /\ Below(callIds(q), allIds(fs)) /\ AllSorted(fs)
          /\ callIds(q) \union allIds(fs) \subseteq callsSaid
      BY <3>1, <3>2 DEF Waiting
    <3> HIDE DEF id
    <3>4. callsSaid \in SUBSET Nat /\ callIds(r) \subseteq callsSaid /\ allIds(fs) \subseteq callsSaid
      BY <2>2, <3>3, CallsSaidAreNumbers
    <3>5. {x \in callsSaid : x < id} = sentIds
      <4>1. ASSUME NEW x \in callsSaid, x < id PROVE x \in sentIds
        <5>1. x \notin callIds(r) /\ x # id
          BY <3>2, <3>3, <3>4, <4>1 DEF Below
        <5>2. ASSUME x \in allIds(fs) PROVE FALSE
          <6>1. id \in callIds(q)
            BY <3>2
          <6>2. id < x
            BY <6>1, <5>2, <3>3 DEF Below
          <6>3. id \in Nat /\ x \in Nat
            BY <3>3, <3>4
          <6>4. QED
            BY <6>2, <6>3, <4>1
        <5>3. QED
          BY <5>1, <5>2, <3>2, <3>3
      <4>2. ASSUME NEW x \in sentIds PROVE x \in callsSaid /\ x < id
        BY <3>2, <3>3 DEF Below
      <4>3. QED
        BY <4>1, <4>2
    <3>6. SendsCall(id)
      BY <2>6 DEF id
    <3>7. /\ InOrder(callsSaid, sent') /\ sent' \in Seq(Sends)
          /\ sentIds' = sentIds \union {id}
      BY <3>3, <3>4, <3>5, <3>6, <1>0, InOrderSaid, SentInOrder
    <3>8. callsSaid' = callsSaid
      BY DEF callsSaid
    <3>8a. CallsReachTheHostInOrder'
      BY <3>7, <3>8 DEF CallsReachTheHostInOrder, InOrder
    <3>9. Below(callIds(r), allIds(fs))
      BY <3>2, <3>3 DEF Below
    <3>10. callsSaid \subseteq (sentIds \union {id}) \union callIds(r) \union allIds(fs)
      BY <3>2, <3>3
    <3>11. Below(sentIds \union {id}, callIds(r) \union allIds(fs))
      BY <3>2, <3>3 DEF Below
    <3>12. Waiting(queue, buffered)'
      BY <2>1, <2>2, <3>3, <3>4, <3>7, <3>8, <3>9, <3>10, <3>11 DEF Waiting
    <3>13. HarnessInv'
      BY <2>1, <3>3, <3>7, <3>8, <3>8a, <3>12 DEF HarnessInv
    <3>14. QED
      BY <2>1, <2>2, <3>1, <3>7, <3>13
  <2>7. QED
    BY <2>4, <2>5, <2>6
<1>3. QED
  BY <1>1, <1>2

(* Nothing the loop does of itself, or a process that says nothing, changes*)
(* what waits.                                                             *)
LEMMA HarnessUntouched ==
    ASSUME HarnessInv, sent' = sent, said' = said, queue' = queue, buffered' = buffered,
           turning' => turning,
           waitsFor' = waitsFor \/ waitsFor' = "nothing" \/ at' \notin {"opening", "calling"},
           at' \in {"opening", "calling"} => at' = at
    PROVE  HarnessInv'
<1>1. Waiting(queue, buffered)'
  BY StillWaiting DEF HarnessInv, Waiting
<1>2. sentIds' = sentIds /\ callsSaid' = callsSaid /\ CallsReachTheHostInOrder'
  BY NothingSent DEF HarnessInv
<1>3. waitsFor' # "nothing" => at' \notin {"opening", "calling"}
  BY DEF HarnessInv
<1>4. QED
  BY <1>1, <1>2, <1>3 DEF HarnessInv

QueueInv ==
    /\ QueueTypeOK
    /\ vendor \in Vendors
    /\ seat = "harness" => HarnessInv /\ WordInv

(* What a frame brings is as honest as what it is joined to.               *)
LEMMA HonestJoined ==
    ASSUME NEW q \in Seq(Pieces), NEW r \in Seq(Pieces), Honest(q), Honest(r)
    PROVE  Honest(q \o r)
<1> DEFINE t == q \o r
<1>1. /\ DOMAIN t = 1..(Len(q) + Len(r)) /\ Len(q) \in Nat /\ Len(r) \in Nat
      /\ DOMAIN q = 1..Len(q) /\ DOMAIN r = 1..Len(r)
      /\ \A i \in 1..Len(q) : t[i] = q[i]
      /\ \A i \in (Len(q) + 1)..(Len(q) + Len(r)) : t[i] = r[i - Len(q)]
  BY Joined
<1> HIDE DEF t
<1>2. \A i \in DOMAIN t : \/ i \in DOMAIN q /\ t[i] = q[i]
                          \/ i - Len(q) \in DOMAIN r /\ t[i] = r[i - Len(q)]
  BY <1>1
<1>3. Honest(t)
  BY <1>2 DEF Honest
<1>4. QED
  BY <1>3 DEF t

(* What waits in the channel when the session settles a decision.          *)
LEMMA DrainsInv ==
    ASSUME LoopIInv, QueueInv, seat = "harness",
           NEW q \in Seq(Pieces), NEW fs \in Seq(Seq(Pieces)),
           Waiting(q, fs), at \notin {"opening", "calling"},
           WordInv => Honest(q) /\ \A f \in DOMAIN fs : Honest(fs[f]),
           DrainsPending(q), said' = said, buffered' = fs,
           claim' = claim, vendor' = vendor, seat' = seat
    PROVE  QueueInv'
<1>1. /\ HarnessInv' /\ queue' \in Seq(Pieces) /\ sent' \in Seq(Sends)
      /\ \A i \in DOMAIN queue' : \E j \in DOMAIN q : queue'[i] = q[j]
      /\ outcome' = "complete" =>
           outcome = "complete" \/ \E j \in DOMAIN q : q[j].type = "complete"
  BY DrainsKeeps DEF QueueInv, HarnessInv
<1>2. QueueTypeOK'
  BY <1>1 DEF QueueInv, QueueTypeOK
<1>3. WordInv'
  <2>1. /\ Honest(q) /\ \A f \in DOMAIN fs : Honest(fs[f])
        /\ outcome = "complete" => claim \in saysItIsOver(vendor)
    BY DEF QueueInv, WordInv
  <2>2. Honest(queue)'
    BY <1>1, <2>1 DEF Honest
  <2>3. \A f \in DOMAIN buffered' : Honest(buffered[f])'
    BY <2>1 DEF Honest
  <2>4. outcome' = "complete" => claim' \in saysItIsOver(vendor')
    BY <1>1, <2>1 DEF Honest
  <2>5. QED
    BY <2>2, <2>3, <2>4 DEF WordInv
<1>4. QED
  BY <1>1, <1>2, <1>3 DEF QueueInv

(* A decision that ends in a failure, a rejection or nothing.              *)
LEMMA EndsInv ==
    ASSUME LoopIInv, QueueInv, seat = "harness", Leaves \/ Ends,
           NEW fs \in Seq(Seq(Pieces)), NEW q \in Seq(Pieces),
           Waiting(q, fs), queue' = q, buffered' = fs,
           WordInv => Honest(q) /\ \A f \in DOMAIN fs : Honest(fs[f]),
           waitsFor' = "nothing",
           said' = said, claim' = claim, vendor' = vendor, seat' = seat
    PROVE  QueueInv'
<1>2. sent' = sent /\ (outcome' = "complete" => outcome = "complete") /\ (turning' => turning)
  BY LeavesKeeps DEF Ends, turning
<1>3. Waiting(queue, buffered)'
  <2>1. Sorted(queue')
    BY DEF Waiting
  <2>2. QED
    BY <2>1, <1>2, StillWaiting
<1>4. HarnessInv'
  BY <1>2, <1>3, NothingSent DEF QueueInv, HarnessInv
<1>5. QueueTypeOK'
  BY <1>2 DEF QueueInv, QueueTypeOK
<1>6. WordInv'
  BY <1>2 DEF QueueInv, WordInv, Honest
<1>7. QED
  BY <1>4, <1>5, <1>6 DEF QueueInv

(* Every step of the harness's session keeps the order.                    *)
LEMMA HarnessStepInv ==
    ASSUME LoopIInv, QueueInv, Harness
    PROVE  QueueInv'
<1>0. seat = "harness" /\ seat' = seat /\ HarnessInv /\ WordInv
  BY DEF Harness, QueueInv
<1>1. /\ queue \in Seq(Pieces) /\ buffered \in Seq(Seq(Pieces))
      /\ Waiting(queue, buffered)
      /\ waitsFor # "nothing" => at \notin {"opening", "calling"}
      /\ WordInv => Honest(queue) /\ \A f \in DOMAIN buffered : Honest(buffered[f])
  BY <1>0 DEF QueueInv, QueueTypeOK, HarnessInv, WordInv
<1>2. CASE ChannelAsked
  <2>1. at = "asking" /\ UNCHANGED <<said, buffered, claim, vendor>>
    BY <1>2 DEF ChannelAsked
  <2>2. CASE step = 0
    <3>1. DrainsPending(queue)
      BY <1>2, <2>2 DEF ChannelAsked
    <3>2. QED
      BY <3>1, <2>1, <1>0, <1>1, DrainsInv
  <2>3. CASE step # 0
    <3>1. UNCHANGED <<loopVars, queue>>
      BY <1>2, <2>3 DEF ChannelAsked
    <3>2. UNCHANGED <<at, sent, outcome, queue>>
      BY <3>1 DEF loopVars, loop
    <3>3. HarnessInv'
      BY <2>1, <3>2, <1>0, HarnessUntouched DEF turning
    <3>4. QED
      BY <2>1, <3>2, <3>3, <1>0 DEF QueueInv, QueueTypeOK, WordInv, Honest
  <2>4. QED
    BY <2>2, <2>3
<1>3. CASE \E written \in BOOLEAN : WriteSettles(written)
  <2>1. PICK written \in BOOLEAN : WriteSettles(written)
    BY <1>3
  <2>2. waitsFor # "nothing" /\ UNCHANGED <<said, buffered, claim, vendor>>
    BY <2>1 DEF WriteSettles
  <2>3. CASE written
    <3>1. DrainsPending(queue)
      BY <2>1, <2>3 DEF WriteSettles
    <3>2. QED
      BY <3>1, <2>2, <1>0, <1>1, DrainsInv
  <2>4. CASE ~written
    <3>1. waitsFor' = "nothing" /\ queue' = queue /\ Throws
      BY <2>1, <2>4 DEF WriteSettles
    <3>2. QED
      BY <3>1, <2>2, <1>0, <1>1, ThrowsEnds, EndsInv
  <2>5. QED
    BY <2>3, <2>4
<1>4. CASE ReadsFrame
  <2> DEFINE q == queue \o Head(buffered)
             fs == Tail(buffered)
  <2>1. /\ buffered # <<>> /\ waitsFor # "nothing" /\ buffered' = fs
        /\ UNCHANGED <<said, claim, vendor>>
    BY <1>4 DEF ReadsFrame
  <2>2. /\ Sorted(queue) /\ AllSorted(buffered) /\ Below(callIds(queue), allIds(buffered))
    BY <1>1 DEF Waiting
  <2>3. /\ fs \in Seq(Seq(Pieces)) /\ Head(buffered) \in Seq(Pieces)
        /\ AllSorted(fs) /\ Sorted(Head(buffered))
        /\ allIds(buffered) = callIds(Head(buffered)) \union allIds(fs)
        /\ Below(callIds(Head(buffered)), allIds(fs))
        /\ Head(buffered) = buffered[1] /\ 1 \in DOMAIN buffered
        /\ \A f \in DOMAIN fs : \E g \in DOMAIN buffered : fs[f] = buffered[g]
    BY <1>1, <2>1, <2>2, FirstFrameIds
  <2>4. q \in Seq(Pieces)
    BY <1>1, <2>3
  <2>5. Below(callIds(queue), callIds(Head(buffered)))
    BY <2>2, <2>3 DEF Below
  <2>6. callIds(q) = callIds(queue) \union callIds(Head(buffered)) /\ Sorted(q)
    BY <1>1, <2>2, <2>3, <2>5, JoinedIds
  <2> DEFINE head1 == Head(buffered)
  <2>6a. head1 \in Seq(Pieces)
    BY <2>3
  <2> HIDE DEF q, fs
  <2>7. Waiting(q, fs)
    <3>1. Below(callIds(q), allIds(fs))
      BY <2>2, <2>3, <2>6 DEF Below
    <3>2. callIds(q) \union allIds(fs) = callIds(queue) \union allIds(buffered)
      BY <2>3, <2>6
    <3>3. ASSUME turning
          PROVE  /\ callsSaid \subseteq sentIds \union callIds(q) \union allIds(fs)
                 /\ Below(sentIds, callIds(q) \union allIds(fs))
      <4>1. /\ callsSaid \subseteq sentIds \union callIds(queue) \union allIds(buffered)
            /\ Below(sentIds, callIds(queue) \union allIds(buffered))
        BY <1>1, <3>3 DEF Waiting
      <4>2. QED
        BY <4>1, <3>2
    <3>4. callIds(q) \union allIds(fs) \subseteq callsSaid
      BY <3>2, <1>1 DEF Waiting
    <3>5. QED
      BY <2>3, <2>6, <3>1, <3>3, <3>4 DEF Waiting
  <2>8. Honest(q) /\ \A f \in DOMAIN fs : Honest(fs[f])
    <3>1. Honest(queue) /\ \A f \in DOMAIN buffered : Honest(buffered[f])
      BY <1>0, <1>1
    <3>2. Honest(head1)
      BY <3>1, <2>3
    <3>3. Honest(queue \o head1)
      <4> HIDE DEF head1
      <4>1. queue \in Seq(Pieces) /\ Honest(queue)
        BY <1>1, <3>1
      <4>2. QED
        BY <4>1, <2>6a, <3>2, HonestJoined
    <3>4. \A f \in DOMAIN fs : Honest(fs[f])
      BY <3>1, <2>3
    <3>5. QED
      BY <3>3, <3>4 DEF q
  <2>9. CASE frames < MaxIgnoredFrames
    <3>1. DrainsPending(q)
      BY <1>4, <2>9 DEF ReadsFrame, q
    <3>2. QED
      BY <3>1, <2>1, <2>3, <2>4, <2>7, <2>8, <1>0, <1>1, DrainsInv
  <2>10. CASE ~(frames < MaxIgnoredFrames)
    <3>1. queue' = q /\ waitsFor' = "nothing" /\ Delivers("fail", None, None)
      BY <1>4, <2>10 DEF ReadsFrame, q
    <3>2. Leaves \/ Ends
      BY <3>1, DeliversEnds
    <3>3. QED
      BY <3>1, <3>2, <2>1, <2>3, <2>4, <2>7, <2>8, <1>0, EndsInv
  <2>11. QED
    BY <2>9, <2>10
<1>5. CASE ReadsEnd
  <2>1. /\ waitsFor' = "nothing" /\ Delivers("fail", None, None)
        /\ UNCHANGED <<queue, said, buffered, claim, vendor>>
    BY <1>5 DEF ReadsEnd, seatVars
  <2>2. Leaves \/ Ends
    BY <2>1, DeliversEnds
  <2>3. QED
    BY <2>1, <2>2, <1>0, <1>1, EndsInv
<1>6. CASE ReadAborted
  <2>1. /\ waitsFor' = "nothing" /\ Throws
        /\ UNCHANGED <<queue, said, buffered, claim, vendor>>
    BY <1>6 DEF ReadAborted, seatVars
  <2>2. QED
    BY <2>1, ThrowsEnds, <1>0, <1>1, EndsInv
<1>7. QED
  BY <1>2, <1>3, <1>4, <1>5, <1>6 DEF Harness

-----------------------------------------------------------------------------
(* The process: what it writes waits behind what it wrote.                 *)
LEMMA FramesOfEither ==
    ASSUME NEW fs \in Seq(Seq(Pieces)), NEW gs \in Seq(Seq(Pieces))
    PROVE  \A f \in DOMAIN (fs \o gs) : \/ f \in DOMAIN fs /\ (fs \o gs)[f] = fs[f]
                                       \/ \E g \in DOMAIN gs : (fs \o gs)[f] = gs[g]
<1> DEFINE t == fs \o gs
<1>1. /\ DOMAIN t = 1..(Len(fs) + Len(gs)) /\ Len(fs) \in Nat /\ Len(gs) \in Nat
      /\ DOMAIN fs = 1..Len(fs) /\ DOMAIN gs = 1..Len(gs)
      /\ \A i \in 1..Len(fs) : t[i] = fs[i]
      /\ \A i \in (Len(fs) + 1)..(Len(fs) + Len(gs)) : t[i] = gs[i - Len(fs)]
  BY Joined
<1> HIDE DEF t
<1>2. \A f \in DOMAIN t : \/ f \in DOMAIN fs /\ t[f] = fs[f]
                          \/ f - Len(fs) \in DOMAIN gs /\ t[f] = gs[f - Len(fs)]
  <2>1. ASSUME NEW f \in DOMAIN t, f <= Len(fs)
        PROVE  f \in DOMAIN fs /\ t[f] = fs[f]
    BY <2>1, <1>1
  <2>2. ASSUME NEW f \in DOMAIN t, f > Len(fs)
        PROVE  f - Len(fs) \in DOMAIN gs /\ t[f] = gs[f - Len(fs)]
    <3>1. f \in (Len(fs) + 1)..(Len(fs) + Len(gs)) /\ f - Len(fs) \in 1..Len(gs)
      BY <2>2, <1>1
    <3>2. QED
      BY <3>1, <1>1
  <2>3. \A f \in DOMAIN t : f <= Len(fs) \/ f > Len(fs)
    BY <1>1
  <2>4. QED
    BY <2>1, <2>2, <2>3
<1>3. \A f \in DOMAIN t : (f \in DOMAIN fs /\ t[f] = fs[f]) \/ \E g \in DOMAIN gs : t[f] = gs[g]
  BY <1>2
<1>4. QED
  BY <1>3 DEF t

(* What the process writes goes behind all that waits.                     *)
LEMMA WritesInv ==
    ASSUME LoopIInv, QueueInv, seat = "harness", NEW b \in Utterances, Writes(b), seat' = seat
    PROVE  QueueInv'
<1> DEFINE s == identified(b)
           gs == interpreted(vendor, statement(s))
<1>1. /\ Says(b) /\ buffered' = buffered \o gs
      /\ UNCHANGED <<loopVars, queue, vendor, claim, waitsFor>>
  BY DEF Writes
<1>2. UNCHANGED <<at, sent, outcome>>
  BY <1>1 DEF loopVars, loop
<1>3. b \in Seq(Items) /\ QueueTypeOK /\ vendor \in Vendors
  BY ChannelSeatAssumption DEF QueueInv
<1>4. /\ s \in Seq(Spoken)
      /\ \A i, j \in DOMAIN s : i < j => s[i].id < s[j].id
      /\ said' \in Seq(Spoken)
      /\ \A k \in DOMAIN said' : said'[k].id = k
      /\ callsSaid' = callsSaid \union readableIds(s)
      /\ \A x \in readableIds(s) : x \in Nat /\ x > Len(said)
      /\ \A x \in callsSaid : x \in 1..Len(said)
  BY <1>1, <1>3, SaysMore
<1> HIDE DEF s
<1>5. /\ gs \in Seq(Seq(Pieces)) /\ AllSorted(gs) /\ allIds(gs) = readableIds(s)
      /\ \A f \in DOMAIN gs : \A i \in DOMAIN gs[f] : gs[f][i].type # "complete"
  BY <1>3, <1>4, Stated
<1> HIDE DEF gs
<1>6. /\ HarnessInv /\ WordInv
      /\ Waiting(queue, buffered) /\ sentIds \subseteq callsSaid
      /\ CallsReachTheHostInOrder /\ buffered \in Seq(Seq(Pieces))
  BY DEF QueueInv, HarnessInv, QueueTypeOK
<1>7. /\ AllSorted(buffered) /\ callIds(queue) \union allIds(buffered) \subseteq callsSaid
      /\ Sorted(queue) /\ Below(callIds(queue), allIds(buffered))
  BY <1>6 DEF Waiting
<1>8. Below(callsSaid, readableIds(s))
  <2>1. ASSUME NEW x \in callsSaid, NEW y \in readableIds(s) PROVE x < y
    <3>1. x \in 1..Len(said) /\ y \in Nat /\ y > Len(said) /\ Len(said) \in Nat
      BY <1>3, <1>4, CallsSaidAreNumbers
    <3>2. QED
      BY <3>1
  <2>2. QED
    BY <2>1 DEF Below
<1>9. Below(allIds(buffered), allIds(gs)) /\ Below(callIds(queue), allIds(gs))
  BY <1>5, <1>7, <1>8 DEF Below
<1>10. /\ AllSorted(buffered') /\ allIds(buffered') = allIds(buffered) \union allIds(gs)
       /\ buffered' \in Seq(Seq(Pieces))
  <2>1. /\ AllSorted(buffered \o gs)
        /\ allIds(buffered \o gs) = allIds(buffered) \union allIds(gs)
    BY <1>5, <1>6, <1>7, <1>9, MoreFrameIds
  <2>2. buffered \o gs \in Seq(Seq(Pieces))
    BY <1>5, <1>6
  <2>3. QED
    BY <1>1, <2>1, <2>2
<1>11. CallsReachTheHostInOrder' /\ sentIds' = sentIds /\ sentIds' \subseteq callsSaid'
  BY <1>2, <1>3, <1>4, <1>6, SaidLater
<1>12. Waiting(queue, buffered)'
  <2>1. queue' = queue /\ turning' = turning
    BY <1>1, <1>2 DEF turning
  <2>2. Below(callIds(queue'), allIds(buffered'))
    BY <2>1, <1>7, <1>9, <1>10 DEF Below
  <2>3. callIds(queue') \union allIds(buffered') \subseteq callsSaid'
    BY <2>1, <1>4, <1>5, <1>7, <1>10
  <2>4. ASSUME turning'
        PROVE  /\ callsSaid' \subseteq sentIds' \union callIds(queue') \union allIds(buffered')
               /\ Below(sentIds', callIds(queue') \union allIds(buffered'))
    <3>1. /\ callsSaid \subseteq sentIds \union callIds(queue) \union allIds(buffered)
          /\ Below(sentIds, callIds(queue) \union allIds(buffered))
      BY <2>1, <2>4, <1>6 DEF Waiting
    <3>2. Below(sentIds, allIds(gs))
      BY <1>5, <1>6, <1>8 DEF Below
    <3>3. Below(sentIds', callIds(queue') \union allIds(buffered'))
      BY <2>1, <3>1, <3>2, <1>10, <1>11 DEF Below
    <3>4. QED
      BY <2>1, <3>1, <3>3, <1>4, <1>5, <1>10, <1>11
  <2>5. QED
    BY <2>1, <2>2, <2>3, <2>4, <1>7, <1>10 DEF Waiting
<1>13. HarnessInv'
  BY <1>1, <1>2, <1>6, <1>11, <1>12 DEF HarnessInv
<1>14. QueueTypeOK'
  BY <1>1, <1>2, <1>3, <1>4, <1>10 DEF QueueTypeOK
<1>15. \A f \in DOMAIN buffered' : \/ f \in DOMAIN buffered /\ buffered'[f] = buffered[f]
                                   \/ \E g \in DOMAIN gs : buffered'[f] = gs[g]
  BY <1>1, <1>5, <1>6, FramesOfEither
<1>16. WordInv'
  BY <1>1, <1>2, <1>5, <1>6, <1>15 DEF WordInv, Honest
<1>17. QED
  BY <1>1, <1>3, <1>13, <1>14, <1>16 DEF QueueInv

(* An ending brings no call, and means complete only if it claims it.      *)
LEMMA WritesLastInv ==
    ASSUME LoopIInv, QueueInv, seat = "harness", NEW word \in lastWords(vendor),
           WritesLast(word), seat' = seat
    PROVE  QueueInv'
<1> DEFINE gs == interpreted(vendor, <<ending(word)>>)
<1>1. /\ claim = "none" /\ claim' = claimOf(vendor, word) /\ buffered' = buffered \o gs
      /\ UNCHANGED <<loopVars, seatVars, vendor, waitsFor>>
  BY DEF WritesLast
<1>2. UNCHANGED <<at, sent, outcome, queue, said>>
  BY <1>1 DEF loopVars, loop, seatVars
<1>3. /\ vendor \in Vendors /\ QueueTypeOK /\ HarnessInv /\ WordInv
      /\ buffered \in Seq(Seq(Pieces)) /\ Waiting(queue, buffered)
  BY DEF QueueInv, QueueTypeOK, HarnessInv
<1>4. /\ gs \in Seq(Seq(Pieces)) /\ AllSorted(gs) /\ allIds(gs) = {}
      /\ \A f \in DOMAIN gs : \A i \in DOMAIN gs[f] :
           gs[f][i].type = "complete" => claimOf(vendor, word) \in saysItIsOver(vendor)
  BY <1>3, Worded
<1> HIDE DEF gs
<1>5. /\ AllSorted(buffered') /\ allIds(buffered') = allIds(buffered)
      /\ buffered' \in Seq(Seq(Pieces))
  <2>1. AllSorted(buffered) /\ Below(allIds(buffered), allIds(gs))
    BY <1>3, <1>4 DEF Waiting, Below
  <2>2. /\ AllSorted(buffered \o gs)
        /\ allIds(buffered \o gs) = allIds(buffered) \union allIds(gs)
    BY <1>3, <1>4, <2>1, MoreFrameIds
  <2>3. buffered \o gs \in Seq(Seq(Pieces))
    BY <1>3, <1>4
  <2>4. QED
    BY <1>1, <1>4, <2>2, <2>3
<1>6. sentIds' = sentIds /\ callsSaid' = callsSaid /\ turning' = turning
  BY <1>2 DEF sentIds, callsSaid, turning
<1>7. Waiting(queue, buffered)'
  BY <1>2, <1>3, <1>5, <1>6 DEF Waiting
<1>8. HarnessInv'
  BY <1>1, <1>2, <1>3, <1>6, <1>7, NothingSent DEF HarnessInv
<1>9. QueueTypeOK'
  BY <1>2, <1>3, <1>5 DEF QueueTypeOK
<1>10. WordInv'
  <2>0. claim \notin saysItIsOver(vendor) /\ vendor' = vendor
    BY <1>1 DEF saysItIsOver
  <2>1. /\ Honest(queue) /\ \A f \in DOMAIN buffered : Honest(buffered[f])
        /\ outcome # "complete"
    BY <2>0, <1>3 DEF WordInv
  <2>2. Honest(queue)'
    BY <2>0, <1>2, <2>1 DEF Honest
  <2>3. ASSUME NEW f \in DOMAIN buffered' PROVE Honest(buffered[f])'
    <3>1. \/ f \in DOMAIN buffered /\ buffered'[f] = buffered[f]
          \/ \E g \in DOMAIN gs : buffered'[f] = gs[g]
      BY <1>1, <1>3, <1>4, FramesOfEither
    <3>2. CASE f \in DOMAIN buffered /\ buffered'[f] = buffered[f]
      BY <2>0, <2>1, <3>2 DEF Honest
    <3>3. CASE \E g \in DOMAIN gs : buffered'[f] = gs[g]
      BY <1>1, <2>0, <1>4, <3>3 DEF Honest
    <3>4. QED
      BY <3>1, <3>2, <3>3
  <2>4. QED
    BY <1>2, <2>1, <2>2, <2>3 DEF WordInv
<1>11. QED
  BY <1>1, <1>3, <1>8, <1>9, <1>10 DEF QueueInv

(* A step of the loop, and one of the process that says nothing.           *)
LEMMA QueueUntouched ==
    ASSUME QueueInv, UNCHANGED <<seat, vendor, claim, sent, said, queue, buffered, waitsFor>>,
           turning' => turning, at' \in {"opening", "calling"} => at' = at,
           outcome' = "complete" => outcome = "complete"
    PROVE  QueueInv'
<1>1. QueueTypeOK'
  BY DEF QueueInv, QueueTypeOK
<1>2. ASSUME seat' = "harness" PROVE HarnessInv' /\ WordInv'
  <2>1. HarnessInv /\ WordInv
    BY <1>2 DEF QueueInv
  <2>2. HarnessInv'
    BY <2>1, HarnessUntouched
  <2>3. WordInv'
    BY <2>1 DEF WordInv, Honest
  <2>4. QED
    BY <2>2, <2>3
<1>3. QED
  BY <1>1, <1>2 DEF QueueInv

(* Every step of the process keeps the order.                              *)
LEMMA ProcessKeeps ==
    ASSUME LoopIInv, QueueInv, Process
    PROVE  QueueInv'
<1>1. seat = "harness" /\ seat' = seat /\ UNCHANGED loopVars
  BY ProcessLeavesTheLoop DEF Process
<1>2. UNCHANGED <<at, sent, outcome>>
  BY <1>1 DEF loopVars, loop
<1>3. CASE Spawns \/ ProcessEnds \/ OutputEnds
  <2>1. UNCHANGED <<vendor, claim, said, queue, buffered, waitsFor>>
    BY <1>3 DEF Spawns, ProcessEnds, OutputEnds, seatVars
  <2>2. QED
    BY <1>1, <1>2, <2>1, QueueUntouched DEF turning
<1>4. CASE \E b \in Utterances : Writes(b)
  BY <1>1, <1>4, WritesInv
<1>5. CASE \E word \in lastWords(vendor) : WritesLast(word)
  BY <1>1, <1>5, WritesLastInv
<1>6. QED
  BY <1>3, <1>4, <1>5 DEF Process

(* And so does every step of the loop itself.                              *)
LEMMA LoopStepQueue ==
    ASSUME LoopIInv, QueueInv, LoopStep
    PROVE  QueueInv'
<1>1. UNCHANGED <<seat, vendor, claim, said, queue, buffered, waitsFor>>
  BY DEF LoopStep, seatVars
<1>2. /\ sent' = sent
      /\ outcome' = "complete" => outcome = "complete"
      /\ turning' => turning
      /\ at' \in {"opening", "calling"} => at' = at
  BY LoopStepKeeps
<1>3. QED
  BY <1>1, <1>2, QueueUntouched

-----------------------------------------------------------------------------
(* The model in the seat.                                                  *)

(* What a reply on the wire is.                                            *)
LEMMA RepliesHaveCalls ==
    ASSUME NEW x \in Messages, isAssistant(x)
    PROVE  x.calls \in Seq(Nat) /\ Len(x.calls) \in Nat /\ DOMAIN x.calls = 1..Len(x.calls)
<1>1. x \in [role : {"assistant"}, calls : Seq(Nat)]
  BY DEF Messages, isAssistant
<1>2. x.calls \in Seq(Nat)
  BY <1>1
<1>3. QED
  BY <1>2

answerTo(s, id) ==
    [role |-> "tool", id |-> id, by |-> IF s[id].readable THEN "host" ELSE "seat"]

(* The next calls of the last reply are answered.                          *)
LEMMA Answered ==
    ASSUME NEW s \in Seq(Spoken), NEW w \in Seq(Messages), NEW n \in 0..Len(s),
           WireFits(s, w, n),
           NEW t \in Seq(Messages), Len(t) <= n,
           \A j \in 1..Len(t) : t[j] = answerTo(s, Len(s) - n + j)
    PROVE  w \o t \in Seq(Messages) /\ WireFits(s, w \o t, n - Len(t))
<1> DEFINE u == w \o t
           lw == Len(w)
           lt == Len(t)
           ls == Len(s)
<1>1. /\ u \in Seq(Messages) /\ Len(u) = lw + lt /\ DOMAIN u = 1..(lw + lt)
      /\ DOMAIN w = 1..lw /\ DOMAIN t = 1..lt
      /\ \A i \in 1..lw : u[i] = w[i]
      /\ \A i \in (lw + 1)..(lw + lt) : u[i] = t[i - lw]
  BY Joined
<1>2. lw \in Nat /\ lt \in Nat /\ ls \in Nat /\ n \in Nat /\ lt <= n /\ n <= ls
  OBVIOUS
<1>3. \A j \in 1..lt : t[j] = answerTo(s, ls - n + j)
  OBVIOUS
<1>4. \A i \in 1..lw : w[i] \in Messages
  BY <1>1
<1> HIDE DEF u, lw, lt, ls
<1>5. ASSUME NEW i \in DOMAIN u, isAssistant(u[i])
      PROVE  i \in 1..lw /\ u[i] = w[i]
  <2>1. CASE i \in 1..lw
    BY <1>1, <2>1
  <2>2. CASE i \in (lw + 1)..(lw + lt)
    <3>1. PICK j \in 1..lt : j = i - lw /\ u[i] = t[j]
      BY <1>1, <1>2, <2>2
    <3>2. u[i].role = "tool"
      <4>1. u[i] = answerTo(s, ls - n + j)
        BY <1>3, <3>1
      <4>2. QED
        BY <4>1 DEF answerTo
    <3>3. QED
      BY <1>5, <3>2 DEF isAssistant
  <2>3. QED
    BY <2>1, <2>2, <1>1, <1>2
<1>6. ASSUME NEW i \in DOMAIN u, isAssistant(u[i])
      PROVE  ReplyFits(s, u, n - lt, i)
  <2> DEFINE calls == w[i].calls
             c == Len(calls)
             end == i + c
  <2>1. i \in 1..lw /\ u[i] = w[i] /\ isAssistant(w[i])
    BY <1>5, <1>6
  <2>2. calls \in Seq(Nat) /\ c \in Nat /\ DOMAIN calls = 1..c
    BY <1>4, <2>1, RepliesHaveCalls
  <2>3. ReplyFits(s, w, n, i)
    BY <1>1, <2>1 DEF WireFits
  <2>4. /\ \A k \in DOMAIN calls :
             /\ calls[k] \in DOMAIN s
             /\ i + k <= lw => w[i + k] = answerTo(s, calls[k])
        /\ end + 1 <= lw => isAssistant(w[end + 1])
        /\ \/ end < lw
           \/ /\ end = lw + n
              /\ \A k \in DOMAIN calls : calls[k] = ls - n + (i + k - lw)
    BY <2>3 DEF ReplyFits, answerTo, lw, ls
  <2> HIDE DEF calls, c
  <2>5. ASSUME NEW k \in DOMAIN calls
        PROVE  /\ calls[k] \in DOMAIN s
               /\ i + k <= lw + lt => u[i + k] = answerTo(s, calls[k])
    <3>1. k \in Nat /\ 1 <= k /\ k <= c /\ i \in Nat /\ 1 <= i /\ i <= lw
      BY <2>1, <2>2, <1>2
    <3>2. CASE i + k <= lw
      <4>1. i + k \in 1..lw
        BY <3>1, <3>2, <1>2
      <4>2. QED
        BY <3>2, <4>1, <2>4, <1>1
    <3>3. CASE i + k > lw /\ i + k <= lw + lt
      <4>1. ~(end < lw)
        BY <3>1, <3>3, <2>2, <1>2
      <4>2. calls[k] = ls - n + (i + k - lw)
        BY <4>1, <2>4
      <4>3. i + k \in (lw + 1)..(lw + lt) /\ i + k - lw \in 1..lt
        BY <3>1, <3>3, <1>2
      <4>4. PICK j \in 1..lt : j = i + k - lw
        BY <4>3
      <4>5. u[i + k] = t[j]
        <5>1. \A y \in (lw + 1)..(lw + lt) : u[y] = t[y - lw]
          BY <1>1
        <5>2. PICK y \in (lw + 1)..(lw + lt) : y = i + k
          BY <4>3
        <5>3. u[y] = t[y - lw]
          BY <5>1, Zenon
        <5>4. y - lw = j
          <6>1. i \in Nat /\ k \in Nat /\ lw \in Nat
            BY <3>1, <1>2
          <6>2. QED
            BY ONLY <6>1, <5>2, <4>4
        <5>5. u[y] = t[j]
          BY ONLY <5>3, <5>4
        <5>6. QED
          BY ONLY <5>2, <5>5
      <4>6. t[j] = answerTo(s, ls - n + j)
        BY <1>3
      <4>7. ls - n + j = calls[k]
        BY <4>2, <4>4
      <4>8. QED
        BY <4>5, <4>6, <4>7, <2>4
    <3>4. CASE i + k > lw + lt
      BY <3>1, <3>4, <2>4, <1>2
    <3>5. QED
      BY <3>1, <3>2, <3>3, <3>4, <1>2
  <2>6. end \in Nat /\ end >= 1
    BY <2>1, <2>2, <1>2
  <2> HIDE DEF end
  <2>7. end + 1 <= lw + lt => isAssistant(u[end + 1])
    <3>1. CASE end < lw
      <4>1. end + 1 \in 1..lw
        BY <2>6, <3>1, <1>2
      <4>2. QED
        BY <4>1, <2>4, <1>1, <1>2
    <3>2. CASE end = lw + n
      BY <3>2, <1>2
    <3>3. QED
      BY <3>1, <3>2, <2>4
  <2>8. \/ end < lw + lt
        \/ /\ end = lw + lt + (n - lt)
           /\ \A k \in DOMAIN calls : calls[k] = ls - (n - lt) + (i + k - (lw + lt))
    <3>1. CASE end < lw
      BY <2>6, <3>1, <1>2
    <3>2. CASE end = lw + n /\ \A k \in DOMAIN calls : calls[k] = ls - n + (i + k - lw)
      <4>1. end = lw + lt + (n - lt)
        BY <3>2, <1>2
      <4>2. ASSUME NEW k \in 1..c
            PROVE  ls - (n - lt) + (i + k - (lw + lt)) = ls - n + (i + k - lw)
        BY <2>1, <2>2, <1>2
      <4>3. QED
        BY <4>1, <4>2, <3>2, <2>2
    <3>3. QED
      BY <3>1, <3>2, <2>4
  <2>9. QED
    BY <2>1, <2>5, <2>7, <2>8, <1>1 DEF ReplyFits, answerTo, end, calls, c, ls
<1>7. QED
  BY <1>1, <1>6 DEF WireFits, u, lt

(* The model replies with calls, when all its earlier ones are answered.   *)
LEMMA NewReply ==
    ASSUME NEW s \in Seq(Spoken), NEW w \in Seq(Messages), WireFits(s, w, 0),
           NEW s2 \in Seq(Spoken), NEW c \in Nat, Len(s2) = Len(s) + c,
           \A k \in DOMAIN s : k \in DOMAIN s2 /\ s2[k] = s[k],
           NEW calls \in Seq(Nat), Len(calls) = c,
           \A k \in 1..c : calls[k] = Len(s) + k
    PROVE  LET u == Append(w, [role |-> "assistant", calls |-> calls]) IN
           u \in Seq(Messages) /\ WireFits(s2, u, c)
<1> DEFINE x == [role |-> "assistant", calls |-> calls]
           u == Append(w, x)
           lw == Len(w)
           ls == Len(s)
<1>1. x \in Messages /\ x.calls = calls /\ isAssistant(x)
  BY DEF Messages, isAssistant
<1> HIDE DEF x
<1>2. /\ u \in Seq(Messages) /\ Len(u) = lw + 1 /\ DOMAIN u = 1..(lw + 1)
      /\ DOMAIN w = 1..lw
      /\ \A i \in 1..lw : u[i] = w[i]
      /\ u[lw + 1] = x
  BY <1>1, OneMore
<1>3. lw \in Nat /\ ls \in Nat /\ DOMAIN s2 = 1..(ls + c) /\ DOMAIN calls = 1..c
  OBVIOUS
<1>4. \A i \in 1..lw : w[i] \in Messages
  BY <1>2
<1>5. \A k \in 1..c : calls[k] = ls + k
  OBVIOUS
<1>5a. Len(calls) = c /\ Len(s2) = ls + c
  OBVIOUS
<1> HIDE DEF u, lw, ls
<1>6. ASSUME NEW i \in 1..lw, isAssistant(u[i])
      PROVE  ReplyFits(s2, u, c, i)
  <2> DEFINE ids == w[i].calls
             n == Len(ids)
             end == i + n
  <2>1. u[i] = w[i] /\ isAssistant(w[i])
    BY <1>2, <1>6
  <2>2. ids \in Seq(Nat) /\ n \in Nat /\ DOMAIN ids = 1..n
    BY <1>4, <2>1, RepliesHaveCalls
  <2>3. ReplyFits(s, w, 0, i)
    BY <1>2, <2>1 DEF WireFits
  <2>4. /\ \A k \in DOMAIN ids :
             /\ ids[k] \in DOMAIN s
             /\ i + k <= lw => w[i + k] = answerTo(s, ids[k])
        /\ end + 1 <= lw => isAssistant(w[end + 1])
        /\ end < lw \/ end = lw + 0
    BY <2>3 DEF ReplyFits, answerTo, lw
  <2> HIDE DEF ids, n
  <2>5. ASSUME NEW k \in DOMAIN ids
        PROVE  /\ ids[k] \in DOMAIN s2
               /\ u[i + k] = answerTo(s2, ids[k])
    <3>1. i + k \in 1..lw
      <4>1. k \in Nat /\ 1 <= k /\ k <= n /\ i \in Nat /\ 1 <= i /\ n \in Nat /\ lw \in Nat
        BY <2>2, <1>3
      <4>2. i + n <= lw
        BY <2>4, <4>1
      <4>3. QED
        BY ONLY <4>1, <4>2
    <3>2. ids[k] \in DOMAIN s /\ w[i + k] = answerTo(s, ids[k])
      BY <2>4, <3>1, <1>3
    <3>3. QED
      BY <3>1, <3>2, <1>2 DEF answerTo
  <2>6. end + 1 <= lw + 1 => isAssistant(u[end + 1])
    <3>1. CASE end < lw
      <4>1. end + 1 \in 1..lw
        BY <2>2, <3>1, <1>3
      <4>2. QED
        BY <4>1, <2>4, <1>2, <1>3
    <3>2. CASE end = lw
      BY <3>2, <1>1, <1>2
    <3>3. QED
      BY <3>1, <3>2, <2>4, <1>3
  <2>7. end < lw + 1
    BY <2>2, <2>4, <1>3
  <2>8. QED
    BY <2>1, <2>5, <2>6, <2>7, <1>2 DEF ReplyFits, answerTo, ids, n
<1>7. ReplyFits(s2, u, c, lw + 1)
  <2>1. u[lw + 1].calls = calls /\ Len(u) = lw + 1
    BY <1>1, <1>2
  <2>2. \A k \in 1..c : calls[k] \in 1..(ls + c) /\ ~(lw + 1 + k <= lw + 1)
    BY <1>3, <1>5
  <2>3. ~(lw + 1 + c + 1 <= lw + 1) /\ lw + 1 + c = lw + 1 + c
    BY <1>3
  <2>4. ASSUME NEW k \in 1..c PROVE calls[k] = ls + c - c + (lw + 1 + k - (lw + 1))
    BY <1>3, <1>5
  <2>5. \A k \in DOMAIN calls :
          /\ calls[k] \in DOMAIN s2
          /\ lw + 1 + k <= Len(u) =>
               u[lw + 1 + k] = [role |-> "tool", id |-> calls[k],
                                by |-> IF s2[calls[k]].readable THEN "host" ELSE "seat"]
    BY <2>1, <2>2, <1>3
  <2>6. lw + 1 + c + 1 <= Len(u) => isAssistant(u[lw + 1 + c + 1])
    BY <2>1, <2>3
  <2>7. lw + 1 + c = Len(u) + c
    BY <2>1, <2>3
  <2>8. \A k \in DOMAIN calls : calls[k] = Len(s2) - c + (lw + 1 + k - Len(u))
    BY <2>1, <2>4, <1>3, <1>5a
  <2>9. QED
    BY <2>1, <2>5, <2>6, <2>7, <2>8, <1>5a DEF ReplyFits
<1>8. \A i \in DOMAIN u : i \in 1..lw \/ i = lw + 1
  BY <1>2, <1>3
<1>9. QED
  BY <1>2, <1>6, <1>7, <1>8 DEF WireFits, u, x

(* An answer that ends the turn, or finds it over, leaves nothing open.    *)
LEMMA Shut ==
    ASSUME LoopIInv, at \notin {"opening", "calling"}, Leaves \/ Ends \/ Completes,
           thinking' = "idle",
           sentIds \subseteq callsSaid', InOrder(callsSaid', sent), sent \in Seq(Sends),
           said' \in Seq(Spoken), \A k \in DOMAIN said' : said'[k].type = "call"
    PROVE  ModelInv' /\ sent' \in Seq(Sends)
<1>1. sent' = sent /\ at' \notin {"opening", "asking", "calling"}
  BY LeavesKeeps DEF Ends, Completes
<1>2. ~open'
  BY <1>1 DEF open, turning
<1>3. sentIds' = sentIds
  BY <1>1 DEF sentIds
<1>4. CallsReachTheHostInOrder'
  BY <1>1 DEF CallsReachTheHostInOrder, InOrder
<1>5. QED
  BY <1>1, <1>2, <1>3, <1>4 DEF ModelInv

(* What the seat answers itself: calls nobody could read.                  *)
LEMMA RefusalsAnswer ==
    ASSUME NEW s \in Seq(Spoken), Numbered(s), NEW q \in Seq(Pieces), LastOf(q, s),
           NEW k \in 0..Len(q), \A i \in 1..k : ~q[i].readable,
           NEW r \in Seq(Pieces), Len(r) = k, \A i \in 1..k : r[i] = q[i]
    PROVE  /\ answered(r, "seat") \in Seq(Messages)
           /\ Len(answered(r, "seat")) = k
           /\ \A j \in 1..k : answered(r, "seat")[j] = answerTo(s, Len(s) - Len(q) + j)
<1> DEFINE t == answered(r, "seat")
           n == Len(q)
           ls == Len(s)
<1>1. /\ DOMAIN r = 1..k /\ DOMAIN q = 1..n /\ DOMAIN s = 1..ls
      /\ k \in Nat /\ n \in Nat /\ ls \in Nat /\ k <= n /\ n <= ls
  BY DEF LastOf
<1>1a. /\ \A i \in DOMAIN q : q[i] = s[ls - n + i]
       /\ \A i \in DOMAIN s : s[i].id = i
  BY DEF LastOf, Numbered
<1> HIDE DEF n, ls
<1>2. t = [i \in 1..k |-> [role |-> "tool", id |-> r[i].id, by |-> "seat"]]
  BY <1>1 DEF answered
<1>3. ASSUME NEW j \in 1..k
      PROVE  /\ r[j].id = ls - n + j /\ ~s[ls - n + j].readable
             /\ ls - n + j \in Nat
  <2>1. j \in DOMAIN q /\ r[j] = q[j] /\ ~q[j].readable
    BY <1>1
  <2>2. q[j] = s[ls - n + j]
    BY <1>1a, <2>1
  <2>3. ls - n + j \in DOMAIN s
    BY <1>1
  <2>4. s[ls - n + j].id = ls - n + j
    BY <1>1a, <2>3
  <2>5. QED
    BY <2>1, <2>2, <2>3, <2>4, <1>1
<1> HIDE DEF t
<1>4. ASSUME NEW j \in 1..k
      PROVE  t[j] = answerTo(s, ls - n + j) /\ t[j] \in Messages
  <2>1. t[j] = [role |-> "tool", id |-> r[j].id, by |-> "seat"]
    BY <1>2
  <2>2. t[j] = [role |-> "tool", id |-> ls - n + j, by |-> "seat"]
    BY <1>3, <2>1
  <2>3. t[j] \in Messages
    BY <1>3, <2>2 DEF Messages
  <2>4. QED
    BY <1>3, <2>2, <2>3 DEF answerTo
<1>5. t \in Seq(Messages) /\ Len(t) = k
  <2>1. \A j \in 1..k : t[j] \in Messages
    BY <1>4
  <2>2. t = [j \in 1..k |-> t[j]]
    BY <1>2
  <2>3. QED
    BY <1>1, <2>1, <2>2, SequenceOf
<1>6. QED
  BY <1>4, <1>5 DEF t, n, ls

(* Up to id is below it, and itself.                                       *)
LEMMA OneMoreBelow ==
    ASSUME NEW S \in SUBSET Nat, NEW id \in S
    PROVE  {x \in S : x <= id} = {x \in S : x < id} \union {id}
<1>1. \A x \in S : x <= id <=> (x < id \/ x = id)
  OBVIOUS
<1>2. QED
  BY <1>1

(* #release, from the calls q that were not handed over: the last of s,    *)
(* which is all that was said.                                             *)
LEMMA ProceedsKeeps ==
    ASSUME LoopIInv, sent \in Seq(Sends),
           NEW s \in Seq(Spoken), s = said',
           Numbered(s), \A k \in DOMAIN s : s[k].type = "call",
           NEW q \in Seq(Pieces), LastOf(q, s),
           NEW m \in Seq(Messages), WireFits(s, m, Len(q)),
           sentIds \subseteq callsSaid', InOrder(callsSaid', sent),
           {x \in callsSaid' : x <= Len(s) - Len(q)} = sentIds,
           at \notin {"opening", "calling"},
           Proceeds(q, m)
    PROVE  ModelInv' /\ queue' \in Seq(Pieces) /\ sent' \in Seq(Sends)
<1> DEFINE k == unreadableAhead(q)
           refusable == MaxMalformedCalls - malformed
           n == Len(q)
           ls == Len(s)
<1>1. /\ k \in 0..n
      /\ \A i \in 1..k : ~asks(q[i]) /\ ~q[i].readable
      /\ k # n => k + 1 \in DOMAIN q /\ (asks(q[k + 1]) \/ q[k + 1].readable)
  BY UnreadableAhead
<1>2. /\ DOMAIN q = 1..n /\ DOMAIN s = 1..ls
      /\ n \in Nat /\ ls \in Nat /\ n <= ls
      /\ \A i \in 1..n : q[i] = s[ls - n + i]
      /\ {x \in callsSaid' : x <= ls - n} = sentIds
      /\ WireFits(s, m, n)
      /\ \A x \in DOMAIN s : s[x].id = x /\ s[x].type = "call"
  BY DEF LastOf, Numbered
<1>3. <<>> \in Seq(Pieces)
  OBVIOUS
<1>4. \/ queue' = <<>> /\ thinking' = "idle" /\ Delivers("fail", None, None)
      \/ /\ k <= refusable /\ k < n
         /\ wire' = m \o answered(SubSeq(q, 1, k), "seat")
         /\ queue' = behind(q[k + 1], SubSeq(q, k + 2, n))
         /\ thinking' = "idle"
         /\ IF asks(q[k + 1]) THEN Delivers("escalate", None, None) ELSE Releases(q[k + 1])
      \/ /\ k = n
         /\ wire' = m \o answered(q, "seat")
         /\ queue' = <<>> /\ thinking' = "fetching"
         /\ UNCHANGED loopVars
  BY DEF Proceeds
<1>5. callsSaid' = {x \in DOMAIN s : s[x].type = "call" /\ s[x].readable}
  BY DEF callsSaid
<1>6. callsSaid' \in SUBSET Nat
  BY <1>2, <1>5
<1> HIDE DEF k, n, ls
<1>7. CASE queue' = <<>> /\ thinking' = "idle" /\ Delivers("fail", None, None)
  BY <1>3, <1>7, DeliversEnds, Shut
<1>8. CASE /\ k = n
           /\ wire' = m \o answered(q, "seat")
           /\ queue' = <<>> /\ thinking' = "fetching"
           /\ UNCHANGED loopVars
  <2> DEFINE t == answered(q, "seat")
  <2>1. t \in Seq(Messages) /\ Len(t) = n /\ \A j \in 1..n : t[j] = answerTo(s, ls - n + j)
    <3>1. k \in 0..Len(q) /\ Len(q) = k /\ \A i \in 1..k : ~q[i].readable
      BY <1>1, <1>8 DEF n
    <3>2. QED
      <4>1. /\ s \in Seq(Spoken) /\ Numbered(s) /\ q \in Seq(Pieces) /\ LastOf(q, s)
            /\ \A i \in 1..k : q[i] = q[i]
        OBVIOUS
      <4>2. /\ answered(q, "seat") \in Seq(Messages)
            /\ Len(answered(q, "seat")) = k
            /\ \A j \in 1..k : answered(q, "seat")[j] = answerTo(s, Len(s) - Len(q) + j)
        BY ONLY <3>1, <4>1, RefusalsAnswer, Zenon
      <4>3. k = n
        BY <1>8
      <4>4. QED
        BY <4>2, <4>3 DEF n, ls
  <2> HIDE DEF t
  <2>2. n \in 0..ls /\ n - n = 0
    BY <1>2
  <2>3. m \o t \in Seq(Messages) /\ WireFits(s, m \o t, 0)
    <3>1. m \o t \in Seq(Messages) /\ WireFits(s, m \o t, n - Len(t))
      <4>1. /\ n \in 0..Len(s) /\ Len(t) <= n
            /\ \A j \in 1..Len(t) : t[j] = answerTo(s, Len(s) - n + j)
        BY <1>2, <2>1, <2>2 DEF ls
      <4>2. QED
        BY <1>2, <2>1, <4>1, Answered
    <3>2. QED
      BY <3>1, <2>1, <2>2
  <2>4. sent' = sent /\ at' = at /\ step' = step
    BY <1>8 DEF loopVars, loop
  <2>5. ~outstanding'
    BY <1>8, <2>4 DEF outstanding
  <2>6. Len(queue') = 0 /\ head' = ls /\ owed' = 0
    <3>1. Len(queue') = 0
      BY <1>8
    <3>2. QED
      BY <3>1, <2>5, <1>2 DEF head, owed, ls
  <2>7. sentIds' = sentIds /\ CallsReachTheHostInOrder'
    BY <2>4 DEF sentIds, CallsReachTheHostInOrder, InOrder
  <2>8. {x \in callsSaid' : x <= ls} = sentIds
    <3>1. ASSUME NEW x \in callsSaid' PROVE x <= ls - n
      <4>1. x \in 1..ls /\ s[x].readable
        BY <1>2, <1>5
      <4>2. CASE x > ls - n
        <5>1. PICK i \in 1..n : i = x - (ls - n)
          BY <4>1, <4>2, <1>2
        <5>2. ls - n + i = x
          BY <5>1, <4>1, <1>2
        <5>3. q[i] = s[x] /\ i \in 1..k
          BY <5>1, <5>2, <1>2, <1>8
        <5>4. QED
          BY <5>3, <4>1, <1>1
      <4>3. QED
        BY <4>1, <4>2, <1>2
    <3>2. \A x \in callsSaid' : x <= ls
      BY <1>2, <1>5
    <3>3. QED
      BY <3>1, <3>2, <1>2
  <2>9. wire' \in Seq(Messages) /\ WireFits(said', wire', owed')
    BY <1>8, <2>3, <2>6 DEF t
  <2>10. LastOf(queue', said')
    BY <1>2, <1>8, <2>6 DEF ls, LastOf
  <2>11. QED
    BY <1>3, <1>8, <2>4, <2>5, <2>6, <2>7, <2>8, <2>9, <2>10 DEF ModelInv
<1>9. CASE /\ k <= refusable /\ k < n
           /\ wire' = m \o answered(SubSeq(q, 1, k), "seat")
           /\ queue' = behind(q[k + 1], SubSeq(q, k + 2, n))
           /\ thinking' = "idle"
           /\ IF asks(q[k + 1]) THEN Delivers("escalate", None, None) ELSE Releases(q[k + 1])
  <2> DEFINE r == SubSeq(q, k + 2, n)
  <2>1. k \in 0..(n - 1) /\ k + 1 \in 1..n /\ k \in Nat
    BY <1>1, <1>2, <1>9
  <2>2. /\ r \in Seq(Pieces) /\ Len(r) = n - k - 1 /\ DOMAIN r = 1..(n - k - 1)
        /\ \A i \in DOMAIN r : r[i] = q[k + 1 + i]
    <3>1. k \in 0..(Len(q) - 1) /\ n = Len(q)
      BY <2>1 DEF n
    <3>2. LET x == SubSeq(q, k + 2, Len(q)) IN
          /\ x \in Seq(Pieces) /\ Len(x) = Len(q) - k - 1
          /\ DOMAIN x = 1..(Len(q) - k - 1)
          /\ \A i \in DOMAIN x : x[i] = q[k + 1 + i]
      BY <3>1, LeftBehind
    <3>3. QED
      BY <3>1, <3>2
  <2> HIDE DEF r
  <2>3. CASE asks(q[k + 1])
    <3>1. queue' = <<>>
      BY <1>9, <2>3 DEF behind
    <3>2. Leaves \/ Ends \/ Completes
      BY <1>9, <2>3, DeliversEnds
    <3>3. QED
      BY <1>3, <1>9, <3>1, <3>2, Shut
  <2>4. CASE ~asks(q[k + 1])
    <3> DEFINE item == q[k + 1]
               id == ls - n + (k + 1)
    <3>1. queue' = r /\ Releases(item)
      BY <1>9, <2>4 DEF behind, r
    <3>2. Leaves \/ Ends \/ SendsCall(item.id)
      BY <3>1, ReleasesSends
    <3>3. id \in DOMAIN s /\ item = s[id] /\ item.readable
      BY <1>1, <1>2, <2>1, <2>4
    <3>4. item.id = id /\ id \in callsSaid'
      <4>1. item.id = id /\ s[id].type = "call" /\ s[id].readable
        BY <3>3, <1>2
      <4>2. QED
        BY <3>3, <4>1, <1>5
    <3> HIDE DEF item
    <3>5. CASE Leaves \/ Ends
      BY <1>9, <2>2, <3>1, <3>5, Shut
    <3>6. CASE SendsCall(id)
      <4> DEFINE t == answered(SubSeq(q, 1, k), "seat")
      <4>1. t \in Seq(Messages) /\ Len(t) = k /\ \A j \in 1..k : t[j] = answerTo(s, ls - n + j)
        <5> DEFINE f == SubSeq(q, 1, k)
        <5>1. k \in 0..Len(q) /\ \A i \in 1..k : ~q[i].readable
          BY <1>1 DEF n
        <5>2. f \in Seq(Pieces) /\ Len(f) = k /\ \A i \in 1..k : f[i] = q[i]
          BY <5>1, TheFirst
        <5> HIDE DEF f
        <5>3. QED
          <6>1. /\ answered(f, "seat") \in Seq(Messages)
                /\ Len(answered(f, "seat")) = k
                /\ \A j \in 1..k : answered(f, "seat")[j] = answerTo(s, Len(s) - Len(q) + j)
            BY <5>1, <5>2, RefusalsAnswer, SMTT(40)
          <6>2. QED
            BY <6>1 DEF f, n, ls
      <4> HIDE DEF t
      <4>2. n \in 0..ls /\ k <= n
        BY <1>2, <2>1
      <4>3. m \o t \in Seq(Messages) /\ WireFits(s, m \o t, n - k)
        <5>1. m \o t \in Seq(Messages) /\ WireFits(s, m \o t, n - Len(t))
          BY <1>2, <4>1, <4>2, Answered DEF ls
        <5>2. QED
          BY <5>1, <4>1
      <4>4. at' = "calling" /\ outstanding' /\ thinking' = "idle"
        BY <1>9, <3>6 DEF SendsCall, outstanding
      <4>5. /\ Len(queue') = n - k - 1 /\ head' = id /\ owed' = n - k
        <5>1. Len(queue') = n - k - 1 /\ n - k - 1 \in Nat
          BY <2>1, <2>2, <3>1, <1>2
        <5>2. Len(said') = ls
          BY DEF ls
        <5>3. head' = ls - (n - k - 1) /\ owed' = n - k - 1 + 1
          BY <4>4, <5>1, <5>2 DEF head, owed
        <5>4. k \in Int /\ n \in Int /\ ls \in Int
          BY <2>1, <1>2
        <5>5. ls - (n - k - 1) = id /\ n - k - 1 + 1 = n - k
          BY ONLY <5>4
        <5>6. QED
          BY <5>1, <5>3, <5>5
      <4>6. {x \in callsSaid' : x < id} = sentIds
        <5>1. ASSUME NEW x \in callsSaid', x < id PROVE x <= ls - n
          <6>1. x \in 1..ls /\ s[x].readable
            BY <1>2, <1>5
          <6>2. CASE x > ls - n
            <7>1. PICK i \in 1..k : i = x - (ls - n)
              BY <6>1, <6>2, <5>1, <1>2, <2>1, SMTT(40)
            <7>2. ls - n + i = x /\ i \in 1..n
              BY <7>1, <6>1, <1>2, <2>1
            <7>3. q[i] = s[x]
              BY <7>2, <1>2
            <7>4. QED
              BY <7>3, <6>1, <1>1
          <6>3. QED
            BY <6>1, <6>2, <1>2
        <5>2. \A x \in callsSaid' : x <= ls - n => x < id
          BY <1>2, <1>6, <2>1
        <5>3. QED
          BY <5>1, <5>2, <1>2
      <4>7. /\ InOrder(callsSaid', sent')
            /\ sent' \in Seq(Sends) /\ sentIds' = sentIds \union {id}
            /\ sent' # <<>> /\ sent'[Len(sent')].call = id
        BY <1>6, <3>4, <3>6, <4>6, SentInOrder
      <4>8. CallsReachTheHostInOrder'
        BY <4>7 DEF CallsReachTheHostInOrder, InOrder
      <4>9. {x \in callsSaid' : x <= id} = sentIds'
        <5>1. {x \in callsSaid' : x <= id} = {x \in callsSaid' : x < id} \union {id}
          BY <1>6, <3>4, OneMoreBelow
        <5>2. QED
          BY <5>1, <4>6, <4>7
      <4>10. wire' \in Seq(Messages) /\ WireFits(said', wire', owed')
        BY <1>9, <4>3, <4>5 DEF t
      <4>11. LastOf(queue', said')
        <5>1. Len(queue') <= Len(said') /\ Len(said') - Len(queue') = id
          BY <4>5, <1>2, <2>1 DEF ls, head
        <5>2. ASSUME NEW i \in DOMAIN r PROVE r[i] = s[id + i]
          <6>1. r[i] = q[k + 1 + i] /\ k + 1 + i \in 1..n
            <7>1. k \in Nat /\ n \in Nat /\ k + 1 <= n /\ DOMAIN r = 1..(n - k - 1)
              BY <1>2, <2>1, <2>2
            <7>2. i \in Nat /\ 1 <= i /\ i <= n - k - 1
              BY <7>1
            <7>3. k + 1 + i \in 1..n
              BY ONLY <7>1, <7>2
            <7>4. QED
              BY <7>3, <2>2
          <6>2. q[k + 1 + i] = s[ls - n + (k + 1 + i)]
            BY <6>1, <1>2
          <6>3. ls - n + (k + 1 + i) = id + i
            BY <1>2, <2>1, <2>2
          <6>4. QED
            BY <6>1, <6>2, <6>3
        <5>3. QED
          BY <3>1, <5>1, <5>2 DEF LastOf
      <4>12. sentIds' \subseteq callsSaid'
        BY <3>4, <4>7
      <4>13. QED
        BY <2>2, <3>1, <4>4, <4>5, <4>7, <4>8, <4>9, <4>10, <4>11, <4>12 DEF ModelInv
    <3>7. QED
      BY <3>2, <3>4, <3>5, <3>6
  <2>5. QED
    BY <2>3, <2>4
<1>10. QED
  BY <1>4, <1>7, <1>8, <1>9

(* What is on the wire when the model is asked: the answer to its last     *)
(* call, if it made one.                                                   *)
LEMMA HeardFits ==
    ASSUME LoopIInv, QueueTypeOK, ModelInv, at = "asking", thinking = "idle"
    PROVE  heard \in Seq(Messages) /\ WireFits(said, heard, Len(queue))
<1> DEFINE n == Len(queue)
           ls == Len(said)
<1>1. /\ said \in Seq(Spoken) /\ sent \in Seq(Sends)
      /\ n \in Nat /\ ls \in Nat /\ DOMAIN said = 1..ls
  BY DEF QueueTypeOK
<1>2. /\ n <= ls /\ sentIds \subseteq callsSaid
      /\ outstanding => sent # <<>> /\ sent[Len(sent)].call = head
      /\ wire \in Seq(Messages) /\ WireFits(said, wire, owed)
  BY DEF ModelInv, open, turning, LastOf
<1>3. head = ls - n
  BY DEF head
<1>4. CASE step = 0
  <2>1. owed = n
    BY <1>1, <1>4 DEF owed, outstanding
  <2>2. heard = wire
    BY <1>4 DEF heard
  <2> HIDE DEF n
  <2>3. QED
    BY <1>2, <2>1, <2>2 DEF n
<1>5. CASE step # 0
  <2>1. owed = n + 1 /\ outstanding
    BY <1>1, <1>5 DEF owed, outstanding
  <2>2. sent # <<>> /\ sent[Len(sent)].call = head /\ Last(sent) = sent[Len(sent)]
    BY <1>2, <2>1 DEF Last
  <2>3. head \in sentIds
    <3>1. Len(sent) \in DOMAIN sent
      BY <1>1, <2>2
    <3>2. QED
      BY <2>2, <3>1 DEF sentIds
  <2>4. head \in 1..ls /\ said[head].readable
    BY <1>1, <1>2, <2>3 DEF callsSaid
  <2> DEFINE x == [role |-> "tool", id |-> head, by |-> "host"]
             t == <<x>>
  <2>5. heard = Append(wire, x)
    BY <1>5, <2>2 DEF heard
  <2>6. x \in Messages /\ x = answerTo(said, head)
    BY <2>4 DEF Messages, answerTo
  <2> HIDE DEF x, n, ls
  <2>7. t \in Seq(Messages) /\ Len(t) = 1 /\ \A j \in 1..1 : t[j] = x
    BY <2>6, OneElement
  <2>8. Append(wire, x) = wire \o t
    BY <1>2, <2>6
  <2> HIDE DEF t
  <2>9. /\ n + 1 \in 0..Len(said) /\ WireFits(said, wire, n + 1) /\ Len(t) <= n + 1
        /\ \A j \in 1..Len(t) : t[j] = answerTo(said, Len(said) - (n + 1) + j)
    <3>1. n + 1 \in 0..ls /\ 1 <= n + 1 /\ ls - (n + 1) + 1 = head
      BY <1>1, <1>3, <2>4
    <3>2. \A j \in 1..1 : j = 1
      OBVIOUS
    <3>3. \A j \in 1..1 : t[j] = answerTo(said, ls - (n + 1) + j)
      BY <3>1, <3>2, <2>6, <2>7
    <3>4. QED
      BY <3>1, <3>3, <1>2, <2>1, <2>7 DEF ls
  <2>10. wire \o t \in Seq(Messages) /\ WireFits(said, wire \o t, n)
    <3>1. wire \in Seq(Messages) /\ said \in Seq(Spoken) /\ t \in Seq(Messages)
      BY <1>1, <1>2, <2>7
    <3>2. PICK o \in 0..Len(said) : o = n + 1
      BY <2>9
    <3>3. /\ WireFits(said, wire, o) /\ Len(t) <= o
          /\ \A j \in 1..Len(t) : t[j] = answerTo(said, Len(said) - o + j)
      BY <2>9, <3>2
    <3>4. wire \o t \in Seq(Messages) /\ WireFits(said, wire \o t, o - Len(t))
      BY <3>1, <3>3, Answered
    <3>5. o - Len(t) = n
      BY <3>2, <2>7, <1>1
    <3>6. QED
      BY <3>4, <3>5
  <2>11. QED
    BY <2>5, <2>8, <2>10 DEF n
<1>6. QED
  BY <1>4, <1>5

(* The loop asks, and the calls still queued are gone on with.             *)
LEMMA ModelAskedKeeps ==
    ASSUME LoopIInv, QueueTypeOK, ModelInv, ModelAsked
    PROVE  ModelInv' /\ queue' \in Seq(Pieces) /\ sent' \in Seq(Sends)
<1>1. at = "asking" /\ thinking = "idle" /\ Proceeds(queue, heard) /\ said' = said
  BY DEF ModelAsked
<1>2. open
  BY <1>1 DEF open, turning
<1>3. /\ LastOf(queue, said) /\ {id \in callsSaid : id <= head} = sentIds
      /\ sentIds \subseteq callsSaid /\ InOrder(callsSaid, sent)
      /\ \A k \in DOMAIN said : said[k].type = "call"
  BY <1>2, InOrderSaid DEF ModelInv
<1>4. heard \in Seq(Messages) /\ WireFits(said, heard, Len(queue))
  BY <1>1, HeardFits
<1>5. /\ said' \in Seq(Spoken) /\ Numbered(said') /\ queue \in Seq(Pieces)
      /\ sent \in Seq(Sends)
  BY <1>1 DEF QueueTypeOK, Numbered
<1>6. callsSaid' = callsSaid
  BY <1>1 DEF callsSaid
<1>7. {x \in callsSaid' : x <= Len(said') - Len(queue)} = sentIds
  BY <1>1, <1>3, <1>6 DEF head
<1>8. /\ \A k \in DOMAIN said' : said'[k].type = "call"
      /\ LastOf(queue, said') /\ WireFits(said', heard, Len(queue))
      /\ sentIds \subseteq callsSaid' /\ InOrder(callsSaid', sent)
  BY <1>1, <1>3, <1>4, <1>6
<1>9. at \notin {"opening", "calling"}
  BY <1>1
<1>10. QED
  BY <1>1, <1>4, <1>5, <1>7, <1>8, <1>9, ProceedsKeeps

(* While the client waits nothing is queued and nothing is owed.           *)
LEMMA WhileThinking ==
    ASSUME QueueTypeOK, ModelInv, thinking # "idle"
    PROVE  /\ queue = <<>> /\ at \notin {"opening", "calling"}
           /\ head = Len(said) /\ owed = 0 /\ ~outstanding /\ open
           /\ wire \in Seq(Messages) /\ WireFits(said, wire, 0)
           /\ {id \in callsSaid : id <= Len(said)} = sentIds
           /\ sentIds \subseteq callsSaid /\ InOrder(callsSaid, sent)
           /\ said \in Seq(Spoken) /\ sent \in Seq(Sends)
           /\ \A k \in DOMAIN said : said[k].type = "call"
<1>1. /\ queue = <<>> /\ at \notin {"opening", "calling"} /\ open
      /\ sentIds \subseteq callsSaid /\ \A k \in DOMAIN said : said[k].type = "call"
      /\ {id \in callsSaid : id <= head} = sentIds
      /\ wire \in Seq(Messages) /\ WireFits(said, wire, owed)
  BY DEF ModelInv, open
<1>2. said \in Seq(Spoken) /\ sent \in Seq(Sends)
  BY DEF QueueTypeOK
<1>3. ~outstanding
  BY <1>1 DEF outstanding
<1>4. Len(queue) = 0
  BY <1>1
<1>5. head = Len(said) /\ owed = 0
  BY <1>2, <1>3, <1>4 DEF head, owed
<1>6. InOrder(callsSaid, sent)
  BY InOrderSaid DEF ModelInv
<1>7. QED
  BY <1>1, <1>2, <1>3, <1>5, <1>6

(* An answer that ends the turn, by a model that said no more.             *)
LEMMA GivesUp ==
    ASSUME LoopIInv, QueueTypeOK, ModelInv, thinking # "idle", thinking' = "idle",
           Leaves \/ Ends \/ Completes, said' = said, queue' = queue
    PROVE  ModelInv' /\ queue' \in Seq(Pieces) /\ sent' \in Seq(Sends)
<1>1. /\ at \notin {"opening", "calling"} /\ sentIds \subseteq callsSaid
      /\ InOrder(callsSaid, sent) /\ sent \in Seq(Sends)
      /\ said' \in Seq(Spoken) /\ \A k \in DOMAIN said' : said'[k].type = "call"
  BY WhileThinking
<1>2. callsSaid' = callsSaid
  BY DEF callsSaid
<1>3. ModelInv' /\ sent' \in Seq(Sends)
  BY <1>1, <1>2, Shut
<1>4. QED
  BY <1>3 DEF QueueTypeOK

(* The model replies, and its new calls are all there are to hand over.    *)
LEMMA RepliesKeeps ==
    ASSUME LoopIInv, QueueTypeOK, ModelInv, NEW b \in Breaths, NEW cut \in BOOLEAN,
           Replies(b, cut)
    PROVE  ModelInv' /\ queue' \in Seq(Pieces) /\ sent' \in Seq(Sends)
           /\ said' \in Seq(Spoken) /\ \A k \in DOMAIN said' : said'[k].id = k
<1>1. thinking # "idle"
  BY DEF Replies
<1>2. CASE cut \/ b = <<>>
  <2>1. /\ thinking' = "idle" /\ queue' = queue /\ said' = said
        /\ Delivers("fail", None, None) \/ Delivers("complete", None, None)
    BY <1>2 DEF Replies
  <2>2. Leaves \/ Ends \/ Completes
    BY <2>1, DeliversEnds
  <2>3. QED
    BY <1>1, <2>1, <2>2, GivesUp DEF QueueTypeOK
<1>3. CASE ~(cut \/ b = <<>>)
  <2> DEFINE s == identified(b)
             calls == [i \in DOMAIN b |-> identified(b)[i].id]
             m == Append(wire, [role |-> "assistant", calls |-> calls])
             c == Len(b)
             ls == Len(said)
  <2>1. Says(b) /\ Proceeds(s, m)
    BY <1>3 DEF Replies
  <2>2. b \in Seq(Items) /\ \A i \in DOMAIN b : b[i].type = "call"
    BY ModelSeatAssumption
  <2>3. /\ s \in Seq(Spoken) /\ Len(s) = c /\ DOMAIN s = DOMAIN b
        /\ \A i \in DOMAIN s : s[i].id = ls + i /\ s[i].type = b[i].type
        /\ said' = said \o s /\ said' \in Seq(Spoken)
        /\ Len(said') = ls + c
        /\ \A k \in DOMAIN said : k \in DOMAIN said' /\ said'[k] = said[k]
        /\ \A i \in DOMAIN s : said'[ls + i] = s[i]
        /\ \A k \in DOMAIN said' : said'[k].id = k
        /\ callsSaid' = callsSaid \union readableIds(s)
        /\ \A x \in readableIds(s) : x \in Nat /\ x > ls
        /\ \A x \in callsSaid : x \in 1..ls
    BY <2>1, <2>2, SaysMore
  <2>4. /\ queue = <<>> /\ at \notin {"opening", "calling"}
        /\ wire \in Seq(Messages) /\ WireFits(said, wire, 0)
        /\ {id \in callsSaid : id <= ls} = sentIds
        /\ sentIds \subseteq callsSaid /\ InOrder(callsSaid, sent)
        /\ said \in Seq(Spoken) /\ sent \in Seq(Sends)
        /\ \A k \in DOMAIN said : said[k].type = "call"
    BY <1>1, WhileThinking
  <2>5. c \in Nat /\ DOMAIN b = 1..c /\ ls \in Nat /\ DOMAIN said = 1..ls
    BY <2>2, <2>4
  <2>6. DOMAIN said' = 1..(ls + c)
    BY <2>3
  <2> HIDE DEF s, c, ls
  <2>7. calls \in Seq(Nat) /\ Len(calls) = c /\ \A k \in 1..c : calls[k] = ls + k
    <3>1. calls = [i \in 1..c |-> s[i].id]
      BY <2>5 DEF s
    <3> HIDE DEF calls
    <3>2. \A k \in 1..c : calls[k] = ls + k
      BY <3>1, <2>3, <2>5
    <3>3. \A k \in 1..c : calls[k] \in Nat
      BY <3>2, <2>5
    <3>4. calls = [i \in 1..c |-> calls[i]]
      BY <3>1
    <3>5. QED
      BY <2>5, <3>2, <3>3, <3>4, SequenceOf
  <2> HIDE DEF calls
  <2>8. m \in Seq(Messages) /\ WireFits(said', m, c)
    <3>1. Len(said') = Len(said) + c /\ \A k \in 1..c : calls[k] = Len(said) + k
      BY <2>3, <2>7 DEF ls
    <3>2. QED
      <4>1. /\ said \in Seq(Spoken) /\ wire \in Seq(Messages) /\ WireFits(said, wire, 0)
            /\ said' \in Seq(Spoken) /\ c \in Nat
            /\ \A k \in DOMAIN said : k \in DOMAIN said' /\ said'[k] = said[k]
            /\ calls \in Seq(Nat) /\ Len(calls) = c
        BY <2>3, <2>4, <2>5, <2>7
      <4>2. LET u == Append(wire, [role |-> "assistant", calls |-> calls]) IN
            u \in Seq(Messages) /\ WireFits(said', u, c)
        BY ONLY <3>1, <4>1, NewReply
      <4>3. QED
        BY <4>2
  <2> HIDE DEF m
  <2>9. InOrder(callsSaid', sent) /\ sentIds \subseteq callsSaid'
    <3>1. \A x \in readableIds(s) : x \in Nat /\ x > Len(said)
      BY <2>3 DEF ls
    <3>2. InOrder(callsSaid \union readableIds(s), sent)
      BY <2>4, <3>1, InOrderLater
    <3>3. QED
      BY <2>3, <2>4, <3>2
  <2>10. LastOf(s, said')
    <3>1. Len(said') - Len(s) = ls /\ Len(s) <= Len(said')
      BY <2>3, <2>5
    <3>2. QED
      BY <2>3, <3>1 DEF LastOf
  <2>11. {x \in callsSaid' : x <= Len(said') - Len(s)} = sentIds
    <3>1. Len(said') - Len(s) = ls
      BY <2>3, <2>5
    <3>2. \A x \in readableIds(s) : ~(x <= ls)
      BY <2>3, <2>5
    <3>3. {x \in callsSaid' : x <= ls} = {x \in callsSaid : x <= ls}
      BY <2>3, <3>2
    <3>4. QED
      BY <2>4, <3>1, <3>3
  <2>12. \A k \in DOMAIN said' : said'[k].type = "call"
    <3>1. ASSUME NEW k \in 1..(ls + c) PROVE said'[k].type = "call"
      <4>1. CASE k \in 1..ls
        <5>1. k \in DOMAIN said
          BY <4>1, <2>5
        <5>2. said'[k] = said[k]
          BY <5>1, <2>3
        <5>3. QED
          BY <5>1, <5>2, <2>4
      <4>2. CASE k > ls
        <5>1. PICK i \in 1..c : k = ls + i
          <6>1. k - ls \in 1..c /\ k = ls + (k - ls)
            BY <4>2, <2>5
          <6>2. QED
            BY <6>1
        <5>2. said'[k] = s[i] /\ s[i].type = b[i].type /\ b[i].type = "call"
          BY <5>1, <2>2, <2>3, <2>5
        <5>3. QED
          BY <5>2
      <4>3. QED
        BY <4>1, <4>2, <2>5
    <3>2. QED
      BY <3>1, <2>6
  <2>13. s \in Seq(Pieces) /\ Numbered(said') /\ WireFits(said', m, Len(s))
    BY <2>3, <2>8, SpokenArePieces DEF Numbered
  <2>14. ModelInv' /\ queue' \in Seq(Pieces) /\ sent' \in Seq(Sends)
    BY <2>1, <2>3, <2>4, <2>8, <2>9, <2>10, <2>11, <2>12, <2>13, ProceedsKeeps DEF s, m, calls
  <2>15. QED
    BY <2>3, <2>14
<1>4. QED
  BY <1>2, <1>3

(* The client waits on, or tries again.                                    *)
LEMMA ThinksOn ==
    ASSUME LoopIInv, QueueTypeOK, ModelInv, thinking # "idle", thinking' # "idle",
           UNCHANGED <<loopVars, seatVars, wire>>
    PROVE  ModelInv' /\ queue' \in Seq(Pieces) /\ sent' \in Seq(Sends)
<1>1. UNCHANGED <<at, step, sent, queue, said>>
  BY DEF loopVars, loop, seatVars
<1>2. /\ queue = <<>> /\ at \notin {"opening", "calling"} /\ open
      /\ ~outstanding
  BY WhileThinking
<1>3. ~outstanding'
  BY <1>1, <1>2 DEF outstanding
<1>4. owed' = owed /\ head' = head
  BY <1>1, <1>2, <1>3 DEF owed, head
<1>5. sentIds' = sentIds /\ callsSaid' = callsSaid /\ CallsReachTheHostInOrder'
  BY <1>1, NothingSent DEF ModelInv
<1>6. QED
  BY <1>1, <1>2, <1>3, <1>4, <1>5 DEF ModelInv, QueueTypeOK

(* Every step of the model's session keeps its invariant.                  *)
LEMMA ModelKeeps ==
    ASSUME LoopIInv, QueueTypeOK, ModelInv, Model
    PROVE  ModelInv' /\ QueueTypeOK'
<1>1. buffered' = buffered /\ buffered \in Seq(Seq(Pieces))
  BY DEF Model, channelVars, QueueTypeOK
<1>2. CASE ModelAsked
  <2>1. said' = said
    BY <1>2 DEF ModelAsked
  <2>2. QED
    BY <1>1, <1>2, <2>1, ModelAskedKeeps DEF QueueTypeOK
<1>3. CASE \E b \in Breaths, cut \in BOOLEAN : Replies(b, cut)
  BY <1>1, <1>3, RepliesKeeps DEF QueueTypeOK
<1>4. CASE \E why \in Retryable \union {"4xx"} : FetchFails(why)
  <2>1. PICK why \in Retryable \union {"4xx"} : FetchFails(why)
    BY <1>4
  <2>2. thinking # "idle" /\ UNCHANGED <<seatVars, wire>> /\ said' = said /\ queue' = queue
    BY <2>1 DEF FetchFails, seatVars
  <2>3. CASE retries(why)
    BY <1>1, <2>1, <2>2, <2>3, ThinksOn DEF FetchFails, QueueTypeOK
  <2>4. CASE ~retries(why)
    <3>1. thinking' = "idle" /\ (Throws \/ Delivers("fail", None, None))
      BY <2>1, <2>4 DEF FetchFails
    <3>2. Leaves \/ Ends \/ Completes
      BY <3>1, ThrowsEnds, DeliversEnds
    <3>3. QED
      BY <1>1, <2>2, <3>1, <3>2, GivesUp DEF QueueTypeOK
  <2>5. QED
    BY <2>3, <2>4
<1>5. CASE DelayEnds
  <2>1. thinking # "idle" /\ UNCHANGED <<seatVars, wire>> /\ said' = said /\ queue' = queue
    BY <1>5 DEF DelayEnds, seatVars
  <2>2. CASE aborted
    <3>1. thinking' = "idle" /\ Throws
      BY <1>5, <2>2 DEF DelayEnds
    <3>2. Leaves \/ Ends \/ Completes
      BY <3>1, ThrowsEnds
    <3>3. QED
      BY <1>1, <2>1, <3>1, <3>2, GivesUp DEF QueueTypeOK
  <2>3. CASE ~aborted
    BY <1>1, <1>5, <2>1, <2>3, ThinksOn DEF DelayEnds, QueueTypeOK
  <2>4. QED
    BY <2>2, <2>3
<1>6. QED
  BY <1>2, <1>3, <1>4, <1>5 DEF Model

-----------------------------------------------------------------------------
(* The turn.                                                               *)

(* The loop's own steps leave the model with what it owes and is owed.     *)
LEMMA LoopStepModel ==
    ASSUME LoopIInv, QueueTypeOK, ModelInv, LoopStep
    PROVE  ModelInv'
<1>1. UNCHANGED <<said, queue, thinking, wire>>
  BY DEF LoopStep, seatVars, modelVars
<1>2. /\ sent' = sent
      /\ turning' => turning
      /\ at' = "opening" => at = "opening"
      /\ at' = "calling" => at = "calling"
      /\ at' = "asking" => \/ at = "asking" /\ step' = step
                           \/ at = "opening" /\ step' = 0
                           \/ at = "calling" /\ step' = step + 1
  BY LoopStepKeeps
<1>3. step \in Nat
  BY StandardRuntimeAssumption DEF LoopIInv, LoopTypeOK
<1>4. thinking' # "idle" => queue' = <<>> /\ at' \notin {"opening", "calling"}
  BY <1>1, <1>2 DEF ModelInv
<1>5. sentIds' = sentIds /\ callsSaid' = callsSaid /\ CallsReachTheHostInOrder'
  BY <1>1, <1>2, NothingSent DEF ModelInv
<1>6. ASSUME open' PROVE open /\ outstanding' = outstanding
  <2>1. open
    BY <1>1, <1>2, <1>6 DEF open
  <2>2. CASE thinking # "idle"
    BY <1>1, <1>4, <2>1, <2>2 DEF outstanding, ModelInv
  <2>3. CASE thinking = "idle"
    <3>1. at' \in {"opening", "asking", "calling"}
      BY <1>1, <1>6, <2>3 DEF open, turning
    <3>2. outstanding' <=> outstanding
      BY <1>1, <1>2, <1>3, <2>3, <3>1 DEF outstanding
    <3>3. QED
      BY <2>1, <3>2 DEF outstanding
  <2>4. QED
    BY <2>2, <2>3
<1>7. ASSUME open'
      PROVE  /\ LastOf(queue', said')
             /\ {id \in callsSaid' : id <= head'} = sentIds'
             /\ outstanding' => sent' # <<>> /\ sent'[Len(sent')].call = head'
             /\ wire' \in Seq(Messages) /\ WireFits(said', wire', owed')
  <2>1. open /\ outstanding' = outstanding
    BY <1>6, <1>7
  <2>2. owed' = owed /\ head' = head
    BY <1>1, <2>1 DEF owed, head
  <2>3. /\ LastOf(queue, said)
        /\ {id \in callsSaid : id <= head} = sentIds
        /\ outstanding => sent # <<>> /\ sent[Len(sent)].call = head
        /\ wire \in Seq(Messages) /\ WireFits(said, wire, owed)
    BY <2>1 DEF ModelInv
  <2>4. QED
    BY <1>1, <1>2, <1>5, <2>1, <2>2, <2>3
<1>8. /\ \A k \in DOMAIN said' : said'[k].type = "call"
      /\ sentIds' \subseteq callsSaid'
  BY <1>1, <1>5 DEF ModelInv
<1>9. QED
  BY <1>4, <1>5, <1>7, <1>8 DEF ModelInv

(* A host's own driver says nothing, so no call of its has a place.        *)
LEMMA HostDriverKeeps ==
    ASSUME LoopIInv, QueueTypeOK, HostInv, HostDriver
    PROVE  HostInv' /\ QueueTypeOK'
<1>1. UNCHANGED <<said, queue, buffered>>
  BY DEF HostDriver, seatVars, channelVars
<1>2. sent \in Seq(Sends)
  BY DEF QueueTypeOK
<1>3. CASE sent' = sent
  BY <1>1, <1>3 DEF HostInv, QueueTypeOK
<1>4. CASE \E c \in Candidates : sent' = Append(sent, [call |-> None, step |-> stepOf(c)])
  <2>1. PICK c \in Candidates : sent' = Append(sent, [call |-> None, step |-> stepOf(c)])
    BY <1>4
  <2>2. stepOf(c) \in Nat
    <3>1. step \in Nat
      BY StandardRuntimeAssumption DEF LoopIInv, LoopTypeOK
    <3>2. c.step \in Nat \union {None}
      BY StandardRuntimeAssumption
    <3>3. QED
      BY <3>1, <3>2 DEF stepOf
  <2> DEFINE x == [call |-> None, step |-> stepOf(c)]
             m == Len(sent)
  <2>3. x \in Sends /\ x.call = None
    BY <2>2 DEF Sends
  <2> HIDE DEF x
  <2>4. sent' = Append(sent, x)
    BY <2>1 DEF x
  <2>5. /\ sent' \in Seq(Sends) /\ DOMAIN sent' = 1..(m + 1) /\ DOMAIN sent = 1..m
        /\ \A i \in 1..m : sent'[i] = sent[i]
        /\ sent'[m + 1] = x
    BY <1>2, <2>3, <2>4, OneMore
  <2>6. m \in Nat
    BY <1>2
  <2> HIDE DEF m
  <2>7. \A i \in DOMAIN sent' : i \in 1..m \/ i = m + 1
    BY <2>5, <2>6
  <2>8. HostInv'
    BY <2>3, <2>5, <2>7 DEF HostInv
  <2>9. QED
    BY <1>1, <2>5, <2>8 DEF QueueTypeOK
<1>5. QED
  BY <1>3, <1>4 DEF HostDriver, NextRejects, Decides

(* Whoever sits in the seat, what it has asked for and what was made of it.*)
SeatInv ==
    /\ seat \in {"host", "model", "harness"}
    /\ seat = "host" => HostInv
    /\ seat = "model" => ModelInv
    /\ seat # "model" => thinking = "idle"

TurnInv == LoopIInv /\ ProcessInv /\ QueueInv /\ SeatInv

(* A turn begins with nothing said, sent or on the wire.                   *)
LEMMA TurnInitInv == Init => TurnInv
<1> SUFFICES ASSUME Init PROVE TurnInv
  OBVIOUS
<1>1. LoopIInv /\ ProcessInv
  BY LoopInitInv DEF Init, ChannelInit, ProcessInv, HarnessOutlivesNoTurn
<1>2. /\ at = "opening" /\ sent = <<>> /\ outcome = None
      /\ queue = <<>> /\ said = <<>> /\ buffered = <<>> /\ waitsFor = "nothing"
      /\ thinking = "idle" /\ wire = <<>>
      /\ vendor \in Vendors /\ seat \in {"host", "model", "harness"}
  BY DEF Init, LoopInit, SeatInit, ModelInit, ChannelInit
<1>3. /\ DOMAIN sent = {} /\ DOMAIN queue = {} /\ DOMAIN said = {} /\ DOMAIN buffered = {}
      /\ DOMAIN wire = {}
      /\ Len(queue) = 0 /\ Len(said) = 0
      /\ sent \in Seq(Sends) /\ queue \in Seq(Pieces) /\ said \in Seq(Spoken)
      /\ buffered \in Seq(Seq(Pieces)) /\ wire \in Seq(Messages)
  BY <1>2
<1>4. sentIds = {} /\ callsSaid = {} /\ CallsReachTheHostInOrder
  BY <1>3 DEF sentIds, callsSaid, CallsReachTheHostInOrder
<1>5. callIds(queue) = {} /\ allIds(buffered) = {}
  BY <1>3 DEF callIds, allIds
<1>6. Waiting(queue, buffered)
  BY <1>3, <1>4, <1>5 DEF Waiting, Sorted, AllSorted, Below
<1>7. HarnessInv
  BY <1>2, <1>4, <1>6 DEF HarnessInv
<1>8. WordInv
  BY <1>2, <1>3, StandardRuntimeAssumption DEF WordInv, Honest
<1>9. QueueInv
  BY <1>2, <1>3, <1>7, <1>8 DEF QueueInv, QueueTypeOK
<1>10. ModelInv
  <2>1. ~outstanding
    BY <1>2 DEF outstanding
  <2>2. LastOf(queue, said) /\ WireFits(said, wire, owed)
    BY <1>3 DEF LastOf, WireFits
  <2>3. QED
    BY <1>2, <1>3, <1>4, <2>1, <2>2 DEF ModelInv
<1>11. HostInv
  BY <1>3 DEF HostInv
<1>12. QED
  BY <1>1, <1>2, <1>9, <1>10, <1>11 DEF TurnInv, SeatInv

(* A seat that is no harness's has only its types to keep.                 *)
LEMMA QueueStaysInv ==
    ASSUME QueueInv, seat # "harness", seat' = seat, vendor' = vendor, QueueTypeOK'
    PROVE  QueueInv'
BY DEF QueueInv

(* The loop's own steps, whoever sits in the seat.                         *)
LEMMA LoopStepSeat ==
    ASSUME LoopIInv, QueueInv, SeatInv, LoopStep
    PROVE  SeatInv'
<1>1. seat' = seat /\ thinking' = thinking
  BY DEF LoopStep, modelVars
<1>2. sent' = sent
  BY LoopStepKeeps
<1>3. seat = "model" => ModelInv'
  BY LoopStepModel DEF SeatInv, QueueInv
<1>4. QED
  BY <1>1, <1>2, <1>3 DEF SeatInv, HostInv

(* Each action of the turn keeps the whole invariant.                      *)
LEMMA TurnStepInv == TurnInv /\ [Next]_vars => TurnInv'
<1> SUFFICES ASSUME TurnInv, [Next]_vars PROVE TurnInv'
  OBVIOUS
<1>1. LoopIInv /\ ProcessInv /\ QueueInv /\ SeatInv
  BY DEF TurnInv
<1>2. LoopIInv' /\ ProcessInv'
  BY <1>1, TurnTakesLoopSteps, AnyLoopStepInv, NextProcessInv
<1>3. CASE LoopStep
  BY <1>1, <1>2, <1>3, LoopStepQueue, LoopStepSeat DEF TurnInv
<1>4. CASE HostDriver
  <2>1. seat = "host" /\ UNCHANGED <<seat, vendor, thinking>>
    BY <1>4 DEF HostDriver, modelVars, channelVars
  <2>2. HostInv' /\ QueueTypeOK'
    BY <1>1, <1>4, <2>1, HostDriverKeeps DEF SeatInv, QueueInv
  <2>3. QueueInv'
    BY <1>1, <2>1, <2>2, QueueStaysInv
  <2>4. QED
    BY <1>1, <1>2, <2>1, <2>2, <2>3 DEF TurnInv, SeatInv
<1>5. CASE Model
  <2>1. seat = "model" /\ UNCHANGED <<seat, vendor>>
    BY <1>5 DEF Model, channelVars
  <2>2. ModelInv' /\ QueueTypeOK'
    BY <1>1, <1>5, <2>1, ModelKeeps DEF SeatInv, QueueInv
  <2>3. QueueInv'
    BY <1>1, <2>1, <2>2, QueueStaysInv
  <2>4. QED
    BY <1>2, <2>1, <2>2, <2>3 DEF TurnInv, SeatInv
<1>6. CASE Process \/ Harness
  <2>1. seat = "harness" /\ UNCHANGED <<seat, thinking>>
    BY <1>6 DEF Process, Harness, modelVars
  <2>2. QueueInv'
    BY <1>1, <1>6, ProcessKeeps, HarnessStepInv
  <2>3. QED
    BY <1>1, <1>2, <2>1, <2>2 DEF TurnInv, SeatInv
<1>7. CASE UNCHANGED vars
  <2>1. UNCHANGED <<seat, at, step, sent, outcome, queue, said, thinking, wire,
                    vendor, claim, buffered, waitsFor>>
    BY <1>7 DEF vars, loopVars, loop, seatVars, modelVars, channelVars
  <2>2. QueueInv'
    BY <1>1, <2>1, QueueUntouched DEF turning
  <2>3. HostInv => HostInv'
    BY <2>1 DEF HostInv
  <2>4. ModelInv => ModelInv'
    BY <2>1 DEF ModelInv, open, turning, outstanding, owed, head, sentIds, callsSaid,
                CallsReachTheHostInOrder, LastOf
  <2>5. QED
    BY <1>1, <1>2, <2>1, <2>2, <2>3, <2>4 DEF TurnInv, SeatInv
<1>8. QED
  BY <1>3, <1>4, <1>5, <1>6, <1>7 DEF Next

(* What the invariant says of the calls, the wire and the ending.          *)
LEMMA SendsInOrder == TurnInv => CallsReachTheHostInOrder
<1> SUFFICES ASSUME TurnInv PROVE CallsReachTheHostInOrder
  OBVIOUS
<1>1. CASE seat = "host"
  BY <1>1 DEF TurnInv, SeatInv, HostInv, CallsReachTheHostInOrder
<1>2. CASE seat = "model"
  BY <1>2 DEF TurnInv, SeatInv, ModelInv
<1>3. CASE seat = "harness"
  BY <1>3 DEF TurnInv, QueueInv, HarnessInv
<1>4. QED
  BY <1>1, <1>2, <1>3 DEF TurnInv, SeatInv

(* A client that fetches has a wire on which nothing is owed.              *)
LEMMA WireInOrder == TurnInv => WireIsAnswered
<1> SUFFICES ASSUME TurnInv, thinking = "fetching",
                    NEW i \in DOMAIN wire, isAssistant(wire[i])
             PROVE  LET calls == wire[i].calls IN
                    /\ \A k \in DOMAIN calls :
                         /\ i + k \in DOMAIN wire
                         /\ wire[i + k] = [role |-> "tool", id |-> calls[k],
                              by |-> IF calls[k] \in {sent[j].call : j \in DOMAIN sent}
                                     THEN "host" ELSE "seat"]
                    /\ i + Len(calls) + 1 \in DOMAIN wire =>
                         isAssistant(wire[i + Len(calls) + 1])
  BY DEF WireIsAnswered
<1>1. QueueTypeOK /\ ModelInv
  BY DEF TurnInv, SeatInv, QueueInv
<1>2. /\ wire \in Seq(Messages) /\ WireFits(said, wire, 0)
      /\ {id \in callsSaid : id <= Len(said)} = sentIds
      /\ said \in Seq(Spoken) /\ \A k \in DOMAIN said : said[k].type = "call"
  BY <1>1, WhileThinking
<1> DEFINE calls == wire[i].calls
           c == Len(calls)
           lw == Len(wire)
<1>3. lw \in Nat /\ DOMAIN wire = 1..lw /\ wire[i] \in Messages
  BY <1>2
<1>4. calls \in Seq(Nat) /\ c \in Nat /\ DOMAIN calls = 1..c
  BY <1>3, RepliesHaveCalls
<1>5. ReplyFits(said, wire, 0, i)
  BY <1>2 DEF WireFits
<1>6. /\ \A k \in DOMAIN calls :
           /\ calls[k] \in DOMAIN said
           /\ i + k <= lw =>
                wire[i + k] = [role |-> "tool", id |-> calls[k],
                               by |-> IF said[calls[k]].readable THEN "host" ELSE "seat"]
      /\ i + c + 1 <= lw => isAssistant(wire[i + c + 1])
      /\ i + c < lw \/ i + c = lw + 0
  BY <1>5 DEF ReplyFits
<1>7. sentIds = {x \in DOMAIN said : said[x].readable}
  <2>1. callsSaid = {x \in DOMAIN said : said[x].readable}
    BY <1>2 DEF callsSaid
  <2>2. \A x \in DOMAIN said : x <= Len(said)
    BY <1>2
  <2>3. QED
    BY <1>2, <2>1, <2>2
<1> HIDE DEF calls, c, lw
<1>8. ASSUME NEW k \in DOMAIN calls
      PROVE  /\ i + k \in DOMAIN wire
             /\ wire[i + k] = [role |-> "tool", id |-> calls[k],
                               by |-> IF calls[k] \in sentIds THEN "host" ELSE "seat"]
  <2>1. i + k \in 1..lw
    BY <1>3, <1>4, <1>6
  <2>2. calls[k] \in sentIds <=> said[calls[k]].readable
    BY <1>6, <1>7
  <2>3. wire[i + k] = [role |-> "tool", id |-> calls[k],
                       by |-> IF said[calls[k]].readable THEN "host" ELSE "seat"]
    BY <1>3, <1>6, <2>1
  <2>4. QED
    BY <1>3, <2>1, <2>2, <2>3
<1>9. i + c + 1 \in DOMAIN wire => isAssistant(wire[i + c + 1])
  BY <1>3, <1>4, <1>6
<1>10. QED
  BY <1>8, <1>9 DEF calls, c, sentIds

(* Only a harness's turn has a child, and its pieces say complete on its   *)
(* word.                                                                   *)
LEMMA CompletesHonestly == TurnInv => CompletesOnItsWord
<1> SUFFICES ASSUME TurnInv, outcome = "complete", child # "none"
             PROVE  claim \in saysItIsOver(vendor)
  BY DEF CompletesOnItsWord
<1>1. seat = "harness"
  BY DEF TurnInv, ProcessInv
<1>2. QED
  BY <1>1 DEF TurnInv, QueueInv, WordInv

(* Whatever sits in the seat and however its calls are bunched in replies  *)
(* or frames, each reaches the host once, in the order asked for, and none *)
(* is skipped (#pending, SeatCalls.release).                               *)
THEOREM TurnSendsInOrder == Spec => []CallsReachTheHostInOrder
<1>1. QED
  BY TurnInitInv, TurnStepInv, SendsInOrder, PTL DEF Spec

(* Whenever the model is spoken to, every call of every reply of its has   *)
(* been answered, in order, by the host that was sent it or by the seat    *)
(* that refused it (#release, modelToolResultMessage).                     *)
THEOREM ModelHearsItsAnswers == Spec => []WireIsAnswered
<1>1. QED
  BY TurnInitInv, TurnStepInv, WireInOrder, PTL DEF Spec

(* A turn completes only once its harness has written an ending: never on  *)
(* one its protocol names a failure, never on progress, silence or a dead  *)
(* process, and for Codex and Pi only on the word they have for a finished *)
(* turn (interpret, #end). For Claude Code and DeepSeek an ending their    *)
(* protocols name nowhere completes it as well: the theorem leaves no kind *)
(* out, and the run `unlisted_ending` shows one.                           *)
THEOREM TurnCompletesOnItsWord == Spec => []CompletesOnItsWord
<1>1. QED
  BY TurnInitInv, TurnStepInv, CompletesHonestly, PTL DEF Spec

-----------------------------------------------------------------------------
(* The types of the seats.                                                 *)

(* The types of what sits in the seat, and what keeps them within their    *)
(* bounds: a client that is to try again may, and a session that still     *)
(* reads has frames left to read.                                          *)
SeatTypeInv ==
    /\ ModelTypeOK /\ ChannelTypeOK
    /\ thinking = "delaying" => attempt < RetryableAttempts
    /\ waitsFor # "nothing" => frames <= MaxIgnoredFrames

(* #release refuses no more calls than it may, and the one that is too many.*)
LEMMA ProceedsTypes ==
    ASSUME ModelTypeOK, NEW q \in Seq(Pieces), NEW m, Proceeds(q, m)
    PROVE  ModelTypeOK' /\ thinking' # "delaying"
<1> DEFINE k == unreadableAhead(q)
<1>1. k \in 0..Len(q)
  BY UnreadableAhead
<1>2. k \in Nat
  BY <1>1
<1>3. \/ malformed' = MaxMalformedCalls + 1 /\ thinking' = "idle" /\ attempt' = attempt
      \/ /\ k <= MaxMalformedCalls - malformed /\ malformed' = malformed + k
         /\ \/ thinking' = "idle" /\ attempt' = attempt
            \/ thinking' = "fetching" /\ attempt' = 1
  BY DEF Proceeds
<1> HIDE DEF k
<1>4. /\ MaxMalformedCalls \in Nat \ {0} /\ RetryableAttempts \in Nat \ {0}
      /\ malformed \in 0..(MaxMalformedCalls + 1) /\ attempt \in 0..RetryableAttempts
  BY ModelSeatAssumption DEF ModelTypeOK
<1>5. malformed' \in 0..(MaxMalformedCalls + 1)
  BY <1>2, <1>3, <1>4
<1>6. attempt' \in 0..RetryableAttempts
  BY <1>3, <1>4
<1>7. thinking' \in {"idle", "fetching"}
  BY <1>3
<1>8. QED
  BY <1>5, <1>6, <1>7 DEF ModelTypeOK

(* A client tries at most as often as it may.                              *)
LEMMA ModelTypes ==
    ASSUME TurnInv, SeatTypeInv, Model
    PROVE  SeatTypeInv'
<1>0. UNCHANGED channelVars
  BY DEF Model
<1>1. ChannelTypeOK' /\ (waitsFor' # "nothing" => frames' <= MaxIgnoredFrames)
  BY <1>0 DEF channelVars, SeatTypeInv, ChannelTypeOK
<1>2. ModelTypeOK /\ (thinking = "delaying" => attempt < RetryableAttempts)
  BY DEF SeatTypeInv
<1>3. QueueTypeOK
  BY DEF TurnInv, QueueInv
<1>4. CASE ModelAsked
  <2>1. Proceeds(queue, heard) /\ queue \in Seq(Pieces)
    BY <1>3, <1>4 DEF ModelAsked, QueueTypeOK
  <2>2. QED
    BY <1>1, <1>2, <2>1, ProceedsTypes DEF SeatTypeInv
<1>5. CASE \E b \in Breaths, cut \in BOOLEAN : Replies(b, cut)
  <2>1. PICK b \in Breaths, cut \in BOOLEAN : Replies(b, cut)
    BY <1>5
  <2>2. CASE cut \/ b = <<>>
    <3>1. thinking' = "idle" /\ UNCHANGED <<malformed, attempt>>
      BY <2>1, <2>2 DEF Replies
    <3>2. QED
      BY <1>1, <1>2, <3>1 DEF SeatTypeInv, ModelTypeOK
  <2>3. CASE ~(cut \/ b = <<>>)
    <3>1. Says(b) /\ \E m : Proceeds(identified(b), m)
      BY <2>1, <2>3 DEF Replies
    <3>2. b \in Seq(Items)
      BY ModelSeatAssumption
    <3>3. identified(b) \in Seq(Pieces)
      BY <1>3, <3>1, <3>2, SaysMore, SpokenArePieces
    <3>4. QED
      BY <1>1, <1>2, <3>1, <3>3, ProceedsTypes DEF SeatTypeInv
  <2>4. QED
    BY <2>2, <2>3
<1>6. CASE \E why \in Retryable \union {"4xx"} : FetchFails(why)
  <2>1. PICK why \in Retryable \union {"4xx"} : FetchFails(why)
    BY <1>6
  <2>2. /\ UNCHANGED <<attempt, malformed>>
        /\ thinking' = "idle" \/ (thinking' = "delaying" /\ retries(why))
    BY <2>1 DEF FetchFails
  <2>3. QED
    BY <1>1, <1>2, <2>2 DEF SeatTypeInv, ModelTypeOK, retries
<1>7. CASE DelayEnds
  <2>1. /\ thinking = "delaying" /\ malformed' = malformed
        /\ \/ thinking' = "idle" /\ attempt' = attempt
           \/ thinking' = "fetching" /\ attempt' = attempt + 1
    BY <1>7 DEF DelayEnds
  <2>2. attempt' \in 0..RetryableAttempts
    BY <1>2, <2>1, ModelSeatAssumption DEF ModelTypeOK
  <2>3. QED
    BY <1>1, <1>2, <2>1, <2>2 DEF SeatTypeInv, ModelTypeOK
<1>8. QED
  BY <1>4, <1>5, <1>6, <1>7 DEF Model

(* A process is stopped, or stays as it is.                                *)
LEMMA FollowsTypes ==
    ASSUME ChannelTypeOK, Follows
    PROVE  child' \in {"none", "up", "stopping", "gone"} /\ outputEnded' \in BOOLEAN
BY DEF ChannelTypeOK, Follows

(* #drainPending hands something over, or reads on.                        *)
LEMMA DrainsTypes ==
    ASSUME NEW q, DrainsPending(q)
    PROVE  waitsFor' \in {"nothing", "read"}
BY DEF DrainsPending

(* A decision reads at most as many frames as it may, and one.             *)
LEMMA HarnessTypes ==
    ASSUME SeatTypeInv, Harness
    PROVE  SeatTypeInv'
<1>1. /\ child' \in {"none", "up", "stopping", "gone"} /\ outputEnded' \in BOOLEAN
      /\ UNCHANGED modelVars
  BY FollowsTypes DEF Harness, SeatTypeInv
<1>2. ModelTypeOK' /\ (thinking' = "delaying" => attempt' < RetryableAttempts)
  BY <1>1 DEF modelVars, SeatTypeInv, ModelTypeOK
<1>3. /\ vendor \in Vendors /\ claim \in {"none", "completed", "failed", "unlisted"}
      /\ frames \in 0..(MaxIgnoredFrames + 1)
      /\ waitsFor # "nothing" => frames <= MaxIgnoredFrames
      /\ MaxIgnoredFrames \in Nat
  BY ChannelSeatAssumption DEF SeatTypeInv, ChannelTypeOK
<1>4. UNCHANGED <<vendor, claim>>
  BY DEF Harness, ChannelAsked, WriteSettles, ReadsFrame, ReadsEnd, ReadAborted
<1>5. /\ waitsFor' \in {"nothing", "write", "read"}
      /\ frames' \in 0..(MaxIgnoredFrames + 1)
      /\ waitsFor' # "nothing" => frames' <= MaxIgnoredFrames
  <2>1. CASE ChannelAsked
    <3>1. frames' = 0 /\ waitsFor' \in {"nothing", "write", "read"}
      BY <2>1, DrainsTypes DEF ChannelAsked
    <3>2. QED
      BY <1>3, <3>1
  <2>2. CASE \E written \in BOOLEAN : WriteSettles(written)
    <3>1. /\ waitsFor = "write" /\ frames' = frames
          /\ waitsFor' \in {"nothing", "write", "read"}
      BY <2>2, DrainsTypes DEF WriteSettles
    <3>2. QED
      BY <1>3, <3>1
  <2>3. CASE ReadsFrame
    <3>1. /\ frames' = frames + 1 /\ waitsFor = "read"
          /\ waitsFor' \in {"nothing", "write", "read"}
          /\ waitsFor' # "nothing" => frames < MaxIgnoredFrames
      BY <2>3, DrainsTypes DEF ReadsFrame
    <3>2. QED
      BY <1>3, <3>1
  <2>4. CASE ReadsEnd \/ ReadAborted
    BY <1>3, <2>4 DEF ReadsEnd, ReadAborted
  <2>5. QED
    BY <2>1, <2>2, <2>3, <2>4 DEF Harness
<1>6. QED
  BY <1>1, <1>2, <1>3, <1>4, <1>5 DEF SeatTypeInv, ChannelTypeOK

(* What the process does and says keeps the types.                         *)
LEMMA ProcessTypes ==
    ASSUME SeatTypeInv, Process
    PROVE  SeatTypeInv'
<1>1. UNCHANGED <<modelVars, vendor, waitsFor, frames>>
  BY DEF Process, Spawns, ProcessEnds, OutputEnds, Writes, WritesLast
<1>2. /\ child' = child \/ child' \in {"up", "gone"}
      /\ outputEnded' = outputEnded \/ outputEnded' = TRUE
      /\ claim' = claim \/ \E word : claim' = claimOf(vendor, word)
  BY DEF Process, Spawns, ProcessEnds, OutputEnds, Writes, WritesLast
<1>3. \A word : claimOf(vendor, word) \in {"none", "completed", "failed", "unlisted"}
  BY DEF claimOf
<1>4. ChannelTypeOK'
  BY <1>1, <1>2, <1>3 DEF SeatTypeInv, ChannelTypeOK
<1>5. QED
  BY <1>1, <1>4 DEF modelVars, SeatTypeInv, ModelTypeOK

(* Each action of the turn keeps them.                                     *)
LEMMA SeatTypesStep ==
    ASSUME TurnInv, SeatTypeInv, [Next]_vars
    PROVE  SeatTypeInv'
<1>1. CASE LoopStep
  <2>1. /\ child' \in {"none", "up", "stopping", "gone"} /\ outputEnded' \in BOOLEAN
        /\ UNCHANGED <<modelVars, vendor, claim, waitsFor, frames>>
    BY <1>1, FollowsTypes DEF LoopStep, SeatTypeInv
  <2>2. QED
    BY <2>1 DEF modelVars, SeatTypeInv, ModelTypeOK, ChannelTypeOK
<1>2. CASE HostDriver \/ UNCHANGED vars
  BY <1>2 DEF HostDriver, vars, modelVars, channelVars, SeatTypeInv, ModelTypeOK, ChannelTypeOK
<1>3. CASE Model
  BY <1>3, ModelTypes
<1>4. CASE Process
  BY <1>4, ProcessTypes
<1>5. CASE Harness
  BY <1>5, HarnessTypes
<1>6. QED
  BY <1>1, <1>2, <1>3, <1>4, <1>5 DEF Next

(* The turn keeps its types, whoever is in the seat: among them that a     *)
(* model's client tries at most RetryableAttempts times, that its seat     *)
(* refuses at most MaxMalformedCalls calls and then fails the turn, and    *)
(* that a decision reads at most MaxIgnoredFrames frames and one more.     *)
THEOREM TurnTypeCorrect == Spec => []TypeOK
<1>1. Init => TurnInv /\ SeatTypeInv
  <2> SUFFICES ASSUME Init PROVE SeatTypeInv
    BY TurnInitInv
  <2>1. /\ thinking = "idle" /\ attempt = 0 /\ malformed = 0
        /\ vendor \in Vendors /\ claim = "none" /\ child = "none" /\ outputEnded = FALSE
        /\ waitsFor = "nothing" /\ frames = 0
    BY DEF Init, ModelInit, ChannelInit
  <2>2. /\ 0 \in 0..RetryableAttempts /\ 0 \in 0..(MaxMalformedCalls + 1)
        /\ 0 \in 0..(MaxIgnoredFrames + 1)
    BY ModelSeatAssumption, ChannelSeatAssumption
  <2>3. QED
    BY <2>1, <2>2 DEF SeatTypeInv, ModelTypeOK, ChannelTypeOK
<1>2. TurnInv /\ SeatTypeInv /\ [Next]_vars => TurnInv' /\ SeatTypeInv'
  BY TurnStepInv, SeatTypesStep
<1>3. TurnInv /\ SeatTypeInv => TypeOK
  BY DEF TurnInv, SeatInv, LoopIInv, SeatTypeInv, TypeOK
<1>4. QED
  BY <1>1, <1>2, <1>3, PTL DEF Spec

=============================================================================
