-------------------------- MODULE StandardRuntime --------------------------
(***************************************************************************)
(* The standard loop (StandardLoop.run): it opens a session of the one     *)
(* driver it seats, asks it what to do next, hands each tool call to the   *)
(* envelope's host, and closes the session with the turn's ending. The     *)
(* turn may be aborted, or begin to drain, while anything is awaited.      *)
(*                                                                         *)
(* Here the driver is any code at all: whatever it answers is a candidate  *)
(* until it parses. ModelSeat and ChannelSeat put real drivers in the seat.*)
(***************************************************************************)
EXTENDS Integers, Sequences

CONSTANTS
    MaxSteps,        (* host.limits.maxSteps                                   *)
    Candidates,      (* what a driver may answer                               *)
    None

(* A candidate is an object: its type, its keys, the keys whose values do  *)
(* not parse, and the step it declares and the call it makes, where it has *)
(* those keys.                                                             *)
bodyKey == [tool_call |-> "call", complete |-> "output", fail |-> "error",
            escalate |-> "reason"]

otherKey == [tool_call |-> "step", complete |-> "metadata", fail |-> "metadata",
             escalate |-> "metadata"]

Keys == {"call", "step", "output", "error", "reason", "metadata", "stray"}

ASSUME StandardRuntimeAssumption ==
    /\ MaxSteps \in Nat \ {0}
    /\ \A c \in Candidates :
         /\ c.type \in DOMAIN bodyKey \union {"other"}
         /\ c.keys \subseteq Keys /\ c.unsound \subseteq c.keys
         /\ c.step \in Nat \union {None}
         /\ c.step # None <=> "step" \in c.keys \ c.unsound
    /\ None \notin Nat \union {"complete", "fail", "escalate", "thrown"}

VARIABLES
    at,            (* where run is                                             *)
    opening,       (* the promise of driver.open                               *)
    session,       (* has the loop got the session                             *)
    step,
    sent,          (* what reached the host: calls, each with its step         *)
    hashNoted,     (* is the prompt's hash on the turn's record                *)
    askNoted,      (* is the ask for a human on it                             *)
    closeOutcome,
    closings,      (* the endings the session was closed with                  *)
    outcome,       (* what run returned, or that it threw                      *)
    draining,      (* has host.draining fired                                  *)
    aborted        (* has the turn's signal                                    *)

loop == <<at, step, hashNoted, askNoted, closeOutcome, outcome>>
loopVars == <<loop, opening, session, sent, closings, draining, aborted>>

Statuses == {"succeeded", "failed", "escalated", "cancelled"}

Outcomes == {"complete", "fail", "escalate", "thrown"}

LoopTypeOK ==
    /\ at \in {"opening", "asking", "calling", "closing", "done"}
    /\ opening \in {"pending", "answered", "rejected"}
    /\ session \in BOOLEAN
    /\ step \in 0..(MaxSteps - 1)
    /\ hashNoted \in BOOLEAN /\ askNoted \in BOOLEAN
    /\ closeOutcome \in Statuses
    /\ closings \in Seq(Statuses)
    /\ outcome \in Outcomes \union {None}
    /\ draining \in BOOLEAN /\ aborted \in BOOLEAN

LoopInit ==
    /\ at = "opening" /\ opening = "pending" /\ session = FALSE
    /\ step = 0
    /\ sent = <<>>
    /\ hashNoted = FALSE /\ askNoted = FALSE
    /\ closeOutcome = "failed" /\ closings = <<>>
    /\ outcome = None
    /\ draining = FALSE /\ aborted = FALSE

-----------------------------------------------------------------------------
(* parseAgentTurnDecision: these keys and no other, and all of them sound. *)
parses(c) ==
    /\ c.type \in DOMAIN bodyKey
    /\ bodyKey[c.type] \in c.keys
    /\ c.keys \subseteq {bodyKey[c.type], otherKey[c.type]}
    /\ c.unsound = {}

(* Run has its outcome. The finally closes the session it has, if any.     *)
EndsWith(held, ending, status) ==
    /\ outcome' = ending
    /\ closeOutcome' = status
    /\ IF held
       THEN at' = "closing" /\ closings' = Append(closings, status)
       ELSE at' = "done" /\ UNCHANGED closings

(* The catch: a turn that is ending is cancelled by that, and what stopped *)
(* the loop is not the driver.                                             *)
Catches(held) ==
    IF aborted \/ draining
    THEN EndsWith(held, "thrown", "cancelled")
    ELSE EndsWith(held, "fail", "failed")

(* The top of the loop. A result that arrives once the turn drains ends it *)
(* here, on the last step included.                                        *)
Continues(next) ==
    IF draining THEN EndsWith(TRUE, "thrown", "cancelled") /\ UNCHANGED step
    ELSE IF next >= MaxSteps
    THEN EndsWith(TRUE, "fail", "failed") /\ UNCHANGED step
    ELSE at' = "asking" /\ step' = next /\ UNCHANGED <<closeOutcome, closings, outcome>>

-----------------------------------------------------------------------------
(* driver.open answers in time: the hash it states goes on the record      *)
(* before the first question.                                              *)
Opens ==
    /\ at = "opening" /\ opening = "pending"
    /\ opening' = "answered" /\ session' = TRUE
    /\ hashNoted' = TRUE
    /\ Continues(0)
    /\ UNCHANGED <<sent, askNoted, draining, aborted>>

(* Mutant: nobody is left to close it.                                     *)
DropsTheLateSession ==
    /\ at = "done" /\ opening = "pending"
    /\ opening' = "answered"
    /\ UNCHANGED <<loop, session, sent, closings, draining, aborted>>

(* Mutant: it is closed as the turn began, not as it ended.                *)
OpensLateAsFailed ==
    /\ at = "done" /\ opening = "pending"
    /\ opening' = "answered"
    /\ closings' = Append(closings, "failed")
    /\ UNCHANGED <<loop, session, sent, draining, aborted>>

(* It answers a turn that stopped waiting: closed when it arrives.         *)
OpensLate ==
    /\ at = "done" /\ opening = "pending"
    /\ opening' = "answered"
    /\ closings' = Append(closings, closeOutcome)
    /\ UNCHANGED <<loop, session, sent, draining, aborted>>

OpenRejects ==
    /\ opening = "pending"
    /\ opening' = "rejected"
    /\ IF at = "opening" THEN Catches(FALSE) ELSE UNCHANGED <<at, closeOutcome, closings, outcome>>
    /\ UNCHANGED <<step, hashNoted, askNoted, session, sent, draining, aborted>>

(* Mutant: open is waited for.                                             *)
AbortWakesAsking ==
    /\ aborted /\ at = "asking"
    /\ Catches(session)
    /\ UNCHANGED <<step, hashNoted, askNoted, opening, session, sent, draining, aborted>>

(* raceAbort: neither open nor next is waited for once the turn is aborted.*)
AbortWakes ==
    /\ aborted /\ at \in {"opening", "asking"}
    /\ Catches(session)
    /\ UNCHANGED <<step, hashNoted, askNoted, opening, session, sent, draining, aborted>>

(* A step behind the loop's own is a claim the loop can see is false.      *)
refused(c) == ~parses(c) \/ (c.step # None /\ c.step < step)

stepOf(c) == IF c.step = None THEN step ELSE c.step

(* session.next answers c, which is one of: nothing the loop can read; a   *)
(* call; an ask for a human, noted before it is honoured; another ending.  *)
Decides(c, call) ==
    /\ at = "asking"
    /\ \/ /\ refused(c)
          /\ EndsWith(TRUE, "fail", "failed")
          /\ UNCHANGED <<sent, askNoted>>
       \/ /\ ~refused(c) /\ c.type = "tool_call"
          /\ at' = "calling"
          /\ sent' = Append(sent, [call |-> call, step |-> stepOf(c)])
          /\ UNCHANGED <<askNoted, closeOutcome, closings, outcome>>
       \/ /\ ~refused(c) /\ c.type = "escalate"
          /\ askNoted' = TRUE
          /\ EndsWith(TRUE, "escalate", "escalated")
          /\ UNCHANGED sent
       \/ /\ ~refused(c) /\ c.type \in {"complete", "fail"}
          /\ EndsWith(TRUE, c.type, IF c.type = "fail" THEN "failed" ELSE "succeeded")
          /\ UNCHANGED <<sent, askNoted>>
    /\ UNCHANGED <<step, hashNoted, opening, session, draining, aborted>>

NextRejects ==
    /\ at = "asking"
    /\ Catches(TRUE)
    /\ UNCHANGED <<step, hashNoted, askNoted, opening, session, sent, draining, aborted>>

(* host.invokeTool, which the envelope and not the loop races with the     *)
(* signal.                                                                 *)
HostAnswers ==
    /\ at = "calling"
    /\ Continues(step + 1)
    /\ UNCHANGED <<hashNoted, askNoted, opening, session, sent, draining, aborted>>

HostRejects ==
    /\ at = "calling"
    /\ Catches(TRUE)
    /\ UNCHANGED <<step, hashNoted, askNoted, opening, session, sent, draining, aborted>>

(* close answers, throws, or is out of time (closeSession).                *)
CloseSettles ==
    /\ at = "closing"
    /\ at' = "done"
    /\ UNCHANGED <<step, hashNoted, askNoted, closeOutcome, outcome, opening, session, sent,
                   closings, draining, aborted>>

Drains ==
    /\ ~draining
    /\ draining' = TRUE
    /\ UNCHANGED <<loop, opening, session, sent, closings, aborted>>

(* The turn is stopped, or is over: the envelope's finally aborts it too.  *)
Aborts ==
    /\ ~aborted
    /\ aborted' = TRUE /\ draining' = TRUE
    /\ UNCHANGED <<loop, opening, session, sent, closings>>

-----------------------------------------------------------------------------
Driver ==
    \/ Opens \/ OpensLate \/ OpenRejects \/ NextRejects
    \/ \E c \in Candidates : Decides(c, None)

Host == HostAnswers \/ HostRejects \/ Drains \/ Aborts

LoopNext == Driver \/ Host \/ AbortWakes \/ CloseSettles

(* The turn has a deadline, and the host answers a call of a turn that is  *)
(* over. Nothing is assumed of the driver.                                 *)
LoopFairness ==
    /\ WF_loopVars(Aborts) /\ WF_loopVars(AbortWakes) /\ WF_loopVars(CloseSettles)
    /\ WF_loopVars(aborted /\ HostRejects)

(* The loop, whatever sits in its seat.                                    *)
LoopSpec == LoopInit /\ [][LoopNext]_loopVars

-----------------------------------------------------------------------------
(* Properties                                                              *)

endingOf(o) ==
    CASE o = "complete" -> "succeeded"
      [] o = "fail" -> "failed"
      [] o = "escalate" -> "escalated"
      [] o = "thrown" -> "cancelled"

(* A session is closed at most once, and with the ending its turn had, one *)
(* that opened after its turn gave up included (closeOutcome, the finally  *)
(* of run).                                                                *)
ClosedWithItsEnding ==
    /\ Len(closings) <= 1
    /\ closings # <<>> => outcome # None /\ closings[1] = endingOf(outcome)

(* Once its turn drains the seat is told nothing more and asked nothing    *)
(* more: the decision under way is the last (host.draining in run).        *)
DrainingSeatIsNotAsked == [][draining /\ at # "asking" => at' # "asking"]_loopVars

(* Every session that opens is closed, however its turn ended meanwhile.   *)
EverySessionIsClosed == opening = "answered" ~> closings # <<>>

(* However the driver behaves, the run ends (raceAbort, closeTimeoutMs).   *)
RunEnds == <>(at = "done")

=============================================================================
