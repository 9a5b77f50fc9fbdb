----------------------------- MODULE DrivenTurn -----------------------------
(***************************************************************************)
(* One turn of the standard loop with each driver in its seat: a host's    *)
(* own, a model, or a vendor's harness spoken to in its wire format.       *)
(***************************************************************************)
EXTENDS ModelSeat, ChannelSeat

VARIABLES seat

vars == <<seat, loopVars, seatVars, modelVars, channelVars>>

TypeOK ==
    /\ seat \in {"host", "model", "harness"}
    /\ LoopTypeOK /\ ModelTypeOK /\ ChannelTypeOK

Init ==
    /\ seat \in {"host", "model", "harness"}
    /\ LoopInit /\ SeatInit /\ ModelInit /\ ChannelInit
    /\ seat # "harness" => vendor = "codex"
    /\ seat = "host" => ~offered

-----------------------------------------------------------------------------
(* The harness's process is up before its session is there to be had.      *)
opensFrom == seat = "harness" => child # "none"

(* Whoever sits there: the loop's own steps, the host and the deadlines.   *)
LoopStep ==
    /\ \/ (Opens \/ OpensLate) /\ opensFrom
       \/ OpenRejects \/ AbortWakes \/ CloseSettles
       \/ HostAnswers \/ HostRejects \/ Drains \/ Aborts
    /\ Follows
    /\ UNCHANGED <<seat, seatVars, modelVars, vendor, claim, buffered, waitsFor, frames>>

HostDriver ==
    /\ seat = "host"
    /\ NextRejects \/ \E c \in Candidates : Decides(c, None)
    /\ UNCHANGED <<seat, seatVars, modelVars, channelVars>>

Model ==
    /\ seat = "model"
    /\ \/ ModelAsked
       \/ \E b \in Breaths, cut \in BOOLEAN : Replies(b, cut)
       \/ \E why \in Retryable \union {"4xx"} : FetchFails(why)
       \/ DelayEnds
    /\ UNCHANGED <<seat, channelVars>>

Process ==
    /\ seat = "harness"
    /\ \/ Spawns \/ ProcessEnds \/ OutputEnds
       \/ \E b \in Utterances : Writes(b)
       \/ \E word \in lastWords(vendor) : WritesLast(word)
    /\ UNCHANGED <<seat, modelVars>>

Harness ==
    /\ seat = "harness"
    /\ \/ ChannelAsked
       \/ \E written \in BOOLEAN : WriteSettles(written)
       \/ ReadsFrame \/ ReadsEnd \/ ReadAborted
    /\ Follows
    /\ UNCHANGED <<seat, modelVars>>

Next == LoopStep \/ HostDriver \/ Model \/ Process \/ Harness

Spec == Init /\ [][Next]_vars /\ LoopFairness

=============================================================================
