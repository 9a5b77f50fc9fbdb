----------------------------- MODULE ModelSeat -----------------------------
(***************************************************************************)
(* A model API in the seat (ModelSession), through a chat-completions      *)
(* client that retries once. A reply's calls are handed over one by one;   *)
(* one that cannot be read is answered in place; and the model is spoken   *)
(* to again when every call of its last reply has its answer.              *)
(*                                                                         *)
(* next is entered as the loop asks. What runs between two awaits is one   *)
(* step here.                                                              *)
(***************************************************************************)
EXTENDS Seat

CONSTANTS
    Breaths,         (* the calls a reply may carry                            *)
    MaxMalformedCalls,
    RetryableAttempts

ASSUME ModelSeatAssumption ==
    /\ \A b \in Breaths : b \in Seq(Items) /\ \A i \in DOMAIN b : b[i].type = "call"
    /\ MaxMalformedCalls \in Nat \ {0}
    /\ RetryableAttempts \in Nat \ {0}

VARIABLES
    thinking,      (* idle, or what the client waits for                       *)
    attempt,
    wire,          (* #messages after the opening ones                         *)
    malformed      (* calls refused here                                       *)

modelVars == <<thinking, attempt, wire, malformed>>

ModelTypeOK ==
    /\ thinking \in {"idle", "fetching", "delaying"}
    /\ attempt \in 0..RetryableAttempts
    /\ malformed \in 0..(MaxMalformedCalls + 1)

ModelInit == thinking = "idle" /\ attempt = 0 /\ wire = <<>> /\ malformed = 0

answered(items, by) == [i \in DOMAIN items |-> [role |-> "tool", id |-> items[i].id, by |-> by]]

unreadable(item) == ~asks(item) /\ ~item.readable

(* How many calls at the head of q cannot be read.                         *)
unreadableAhead(q) ==
    LET found == SelectInSeq(q, LAMBDA item : ~unreadable(item))
    IN  IF found = 0 THEN Len(q) ELSE found - 1

(* What stays queued behind an item handed over.                           *)
behind(item, rest) == IF asks(item) THEN <<>> ELSE rest

(* #release until there is something to hand over, and complete when there *)
(* is not.                                                                 *)
Proceeds(q, messages) ==
    LET k == unreadableAhead(q)
        refusable == MaxMalformedCalls - malformed IN
    \/ /\ k > refusable
       /\ malformed' = MaxMalformedCalls + 1
       /\ wire' = messages \o answered(SubSeq(q, 1, refusable), "seat")
       /\ queue' = <<>>
       /\ thinking' = "idle"
       /\ Delivers("fail", None, None)
       /\ UNCHANGED attempt
    \/ /\ k <= refusable /\ k < Len(q)
       /\ malformed' = malformed + k
       /\ wire' = messages \o answered(SubSeq(q, 1, k), "seat")
       /\ queue' = behind(q[k + 1], SubSeq(q, k + 2, Len(q)))
       /\ thinking' = "idle"
       /\ IF asks(q[k + 1]) THEN Delivers("escalate", None, None) ELSE Releases(q[k + 1])
       /\ UNCHANGED attempt
    \/ /\ k <= refusable /\ k = Len(q)
       /\ malformed' = malformed + k
       /\ wire' = messages \o answered(q, "seat")
       /\ queue' = <<>>
       /\ thinking' = "fetching" /\ attempt' = 1
       /\ UNCHANGED loopVars

(* Mutant: the model is not told what became of its call.                  *)
hearsNothing == wire

(* The result next is given, if it is given one.                           *)
heard ==
    IF step = 0 THEN wire
    ELSE Append(wire, [role |-> "tool", id |-> Last(sent).call, by |-> "host"])

ModelAsked ==
    /\ at = "asking" /\ thinking = "idle"
    /\ Proceeds(queue, heard)
    /\ UNCHANGED <<offered, said, breaths>>

(* complete answers. A reply cut off at its token limit decided nothing.   *)
Replies(b, cut) ==
    /\ thinking = "fetching"
    /\ IF cut \/ b = <<>>
       THEN /\ thinking' = "idle"
            /\ Delivers(IF cut THEN "fail" ELSE "complete", None, None)
            /\ wire' = IF cut THEN wire ELSE Append(wire, [role |-> "assistant", calls |-> <<>>])
            /\ UNCHANGED <<queue, said, breaths, malformed, attempt>>
       ELSE /\ Says(b)
            /\ Proceeds(identified(b), Append(wire, [role |-> "assistant",
                         calls |-> [i \in DOMAIN b |-> identified(b)[i].id]]))
    /\ UNCHANGED offered

Retryable == {"timeout", "unreadable", "429", "5xx"}

retries(why) == ~aborted /\ why \in Retryable /\ attempt < RetryableAttempts

(* An attempt fails: of a turn that is over, with the turn's own reason.   *)
FetchFails(why) ==
    /\ thinking = "fetching"
    /\ IF retries(why)
       THEN thinking' = "delaying" /\ UNCHANGED loopVars
       ELSE thinking' = "idle" /\ IF aborted THEN Throws ELSE Delivers("fail", None, None)
    /\ UNCHANGED <<seatVars, attempt, wire, malformed>>

DelayEnds ==
    /\ thinking = "delaying"
    /\ IF aborted
       THEN thinking' = "idle" /\ Throws /\ UNCHANGED attempt
       ELSE thinking' = "fetching" /\ attempt' = attempt + 1 /\ UNCHANGED loopVars
    /\ UNCHANGED <<seatVars, wire, malformed>>

-----------------------------------------------------------------------------
isAssistant(m) == m.role = "assistant"

(* Whenever the model is spoken to, each of its replies is followed by one *)
(* answer for every call of it, in its order and before anything else: the *)
(* host's for a call the host was sent, the seat's own for one it refused  *)
(* (#release, modelToolResultMessage).                                     *)
WireIsAnswered ==
    thinking = "fetching" =>
      \A i \in DOMAIN wire : isAssistant(wire[i]) =>
        LET calls == wire[i].calls
            sentToHost == {sent[j].call : j \in DOMAIN sent} IN
        /\ \A k \in DOMAIN calls :
             /\ i + k \in DOMAIN wire
             /\ wire[i + k] = [role |-> "tool", id |-> calls[k],
                               by |-> IF calls[k] \in sentToHost THEN "host" ELSE "seat"]
        /\ i + Len(calls) + 1 \in DOMAIN wire => isAssistant(wire[i + Len(calls) + 1])

=============================================================================
