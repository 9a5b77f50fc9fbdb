---------------------------- MODULE ChannelSeat ----------------------------
(***************************************************************************)
(* A vendor's wire format in the seat (HarnessSession), spoken to a child  *)
(* process whose output is JSON lines (ChildProcessChannel). The process   *)
(* writes when it likes, and may stop writing, or exit, at any time.       *)
(***************************************************************************)
EXTENDS Seat, VendorProtocols

CONSTANTS
    Utterances,      (* what a harness may say at once                         *)
    MaxIgnoredFrames,
    MaxUnread        (* bound: it writes while fewer frames than this wait     *)

ASSUME ChannelSeatAssumption ==
    /\ \A b \in Utterances : b \in Seq(Items)
    /\ MaxIgnoredFrames \in Nat \ {0}
    /\ MaxUnread \in Nat

VARIABLES
    vendor,        (* whose wire format is spoken                              *)
    claim,         (* how its harness says the turn ended                      *)
    child,         (* the process: none yet, up, told to stop, or gone         *)
    outputEnded,   (* #ended: no further frame will come                       *)
    buffered,      (* frames nobody has read, each as what it means            *)
    waitsFor,      (* what next awaits                                         *)
    frames         (* frames it has read for this decision                     *)

channelVars == <<vendor, claim, child, outputEnded, buffered, waitsFor, frames>>

ChannelTypeOK ==
    /\ vendor \in Vendors
    /\ claim \in {"none", "completed", "failed", "unlisted"}
    /\ child \in {"none", "up", "stopping", "gone"}
    /\ outputEnded \in BOOLEAN
    /\ waitsFor \in {"nothing", "write", "read"}
    /\ frames \in 0..(MaxIgnoredFrames + 1)

ChannelInit ==
    /\ vendor \in Vendors /\ claim = "none"
    /\ child = "none" /\ outputEnded = FALSE
    /\ buffered = <<>> /\ waitsFor = "nothing"
    /\ frames = 0

-----------------------------------------------------------------------------
(* The process                                                             *)

(* Mutant: the constructor does not look at the signal.                    *)
spawnsAnyway == opening = "pending" /\ child = "none"

spawns == opening = "pending" /\ child = "none" /\ ~aborted

Spawns ==
    /\ spawns
    /\ child' = "up"
    /\ UNCHANGED <<loopVars, seatVars, vendor, claim, outputEnded, buffered, waitsFor, frames>>

ProcessEnds ==
    /\ child \in {"up", "stopping"}
    /\ child' = "gone"
    /\ outputEnded' = TRUE
    /\ UNCHANGED <<loopVars, seatVars, vendor, claim, buffered, waitsFor, frames>>

OutputEnds ==
    /\ child \in {"up", "stopping"} /\ ~outputEnded
    /\ outputEnded' = TRUE
    /\ UNCHANGED <<loopVars, seatVars, vendor, claim, child, buffered, waitsFor, frames>>

(* It says something, in lines that arrive together: each is a frame.      *)
Writes(b) ==
    /\ child \in {"up", "stopping"} /\ ~outputEnded /\ Len(buffered) < MaxUnread
    /\ Says(b)
    /\ buffered' = buffered \o interpreted(vendor, statement(identified(b)))
    /\ UNCHANGED <<loopVars, offered, queue, vendor, claim, child, outputEnded, waitsFor, frames>>

(* It ends, or writes what looks like an ending.                           *)
WritesLast(word) ==
    /\ child \in {"up", "stopping"} /\ ~outputEnded /\ Len(buffered) < MaxUnread
    /\ claim = "none"
    /\ claim' = claimOf(vendor, word)
    /\ buffered' = buffered \o interpreted(vendor, <<ending(word)>>)
    /\ UNCHANGED <<loopVars, seatVars, vendor, child, outputEnded, waitsFor, frames>>

(* Its session was closed, or the signal fired (dispose, the abort         *)
(* listener): both stop it at once. A closed channel reads no more.        *)
Follows ==
    LET closes == closings' # closings
        stops == closes \/ (aborted' /\ ~aborted) IN
    /\ child' = IF stops /\ child = "up" THEN "stopping" ELSE child
    /\ outputEnded' = (outputEnded \/ (closes /\ child # "none"))

-----------------------------------------------------------------------------
(* The session                                                             *)

messagesAhead(q) ==
    LET found == SelectInSeq(q, LAMBDA item : item.type # "message")
    IN  IF found = 0 THEN Len(q) ELSE found - 1

(* #drainPending, on what one frame left or brought.                       *)
DrainsPending(q) ==
    LET k == messagesAhead(q) IN
    IF k = Len(q)
    THEN /\ queue' = <<>>
         /\ waitsFor' = "read"
         /\ UNCHANGED loopVars
    ELSE LET item == q[k + 1] IN
         /\ queue' = SubSeq(q, k + 2, Len(q))
         /\ waitsFor' = "nothing"
         /\ IF item.type = "complete" THEN Delivers("complete", None, None)
            ELSE IF item.type = "failed" THEN Delivers("fail", None, None)
            ELSE IF asks(item) THEN Delivers("escalate", None, None)
            ELSE Releases(item)

ChannelAsked ==
    /\ at = "asking" /\ waitsFor = "nothing"
    /\ frames' = 0
    /\ IF step = 0
       THEN DrainsPending(queue)
       ELSE waitsFor' = "write" /\ UNCHANGED <<loopVars, queue>>
    /\ UNCHANGED <<offered, said, breaths, vendor, claim, buffered>>

WriteSettles(written) ==
    /\ waitsFor = "write"
    /\ IF written
       THEN DrainsPending(queue)
       ELSE waitsFor' = "nothing" /\ Throws /\ UNCHANGED queue
    /\ UNCHANGED <<offered, said, breaths, vendor, claim, buffered, frames>>

sawTheEnd == outputEnded /\ buffered = <<>>

ReadsFrame ==
    /\ waitsFor = "read" /\ buffered # <<>>
    /\ buffered' = Tail(buffered)
    /\ frames' = frames + 1
    /\ IF frames < MaxIgnoredFrames
       THEN DrainsPending(queue \o Head(buffered))
       ELSE /\ queue' = queue \o Head(buffered)
            /\ waitsFor' = "nothing"
            /\ Delivers("fail", None, None)
    /\ UNCHANGED <<offered, said, breaths, vendor, claim>>

ReadsEnd ==
    /\ waitsFor = "read" /\ sawTheEnd
    /\ waitsFor' = "nothing"
    /\ Delivers("fail", None, None)
    /\ UNCHANGED <<seatVars, vendor, claim, buffered, frames>>

ReadAborted ==
    /\ waitsFor = "read" /\ buffered = <<>> /\ aborted
    /\ waitsFor' = "nothing"
    /\ Throws
    /\ UNCHANGED <<seatVars, vendor, claim, buffered, frames>>

-----------------------------------------------------------------------------
(* No process is left running by a turn that is over or a session that is  *)
(* closed: not one started by an open nobody waits for any more, nor one   *)
(* whose open failed on its first write (the abort listener, dispose).     *)
HarnessOutlivesNoTurn == aborted \/ closings # <<>> => child # "up"

(* A turn completes only once its harness has written an ending that is    *)
(* neither progress nor named a failure: one that dies, falls silent,      *)
(* fails or goes on trying does not complete, and for Codex and Pi nothing *)
(* but their own word for a finished turn does (#end, interpret).          *)
CompletesOnItsWord ==
    outcome = "complete" /\ child # "none" => claim \in saysItIsOver(vendor)

=============================================================================
