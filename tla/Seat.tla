-------------------------------- MODULE Seat --------------------------------
(***************************************************************************)
(* What the seats that the adapters put in the standard loop share: one    *)
(* turn's reading of what the occupant asks for (SeatCalls). The occupant  *)
(* may ask for several things in one breath; they are queued, and handed   *)
(* to the loop one at a time.                                              *)
(***************************************************************************)
EXTENDS StandardRuntime, SequencesExt

CONSTANTS
    DeclaredSteps,   (* what declareStep may answer for a call                 *)
    MaxSaid          (* bound: the breaths of one occupant                     *)

(* An item is prose or a call. A call may name the escalate affordance,    *)
(* and its arguments may not be a JSON object.                             *)
Items == [type : {"call", "message"}, ask : BOOLEAN, readable : BOOLEAN]

ASSUME SeatAssumption ==
    /\ DeclaredSteps \subseteq Nat
    /\ MaxSaid \in Nat

VARIABLES
    offered,       (* does the turn's catalogue offer the affordance           *)
    queue,         (* what the occupant asked for and the loop has not got     *)
    said,          (* the items it said, by what identifies each: its place    *)
    breaths        (* how often it spoke                                       *)

seatVars == <<offered, queue, said, breaths>>

SeatInit ==
    /\ offered \in BOOLEAN
    /\ queue = <<>> /\ said = <<>> /\ breaths = 0

(* The items of a breath, each with its identity.                          *)
identified(b) ==
    [i \in DOMAIN b |-> [id |-> Len(said) + i, type |-> b[i].type, ask |-> b[i].ask,
                         readable |-> b[i].readable]]

Says(b) ==
    /\ breaths < MaxSaid /\ breaths' = breaths + 1
    /\ said' = said \o identified(b)

(* An item that names the affordance gives its reason, cut to what an      *)
(* outcome can carry, or is given one: it escalates though its arguments   *)
(* cannot be read.                                                         *)
escalationRequest(item) ==
    IF ~item.ask THEN None ELSE IF item.readable THEN "its own" ELSE "said nothing"

(* askedToEscalate: and only if the turn holds the affordance.             *)
asks(item) == item.type = "call" /\ offered /\ escalationRequest(item) # None

candidate(type, declared) ==
    [type |-> type, keys |-> {bodyKey[type]} \union (IF declared = None THEN {} ELSE {"step"}),
     unsound |-> {}, step |-> declared]

(* next resolves. The loop may have gone (raceAbort).                      *)
Delivers(type, declared, call) ==
    IF at = "asking" THEN Decides(candidate(type, declared), call) ELSE UNCHANGED loopVars

Throws == IF at = "asking" THEN NextRejects ELSE UNCHANGED loopVars

(* SeatCalls.release: the step is left to the loop unless a policy names it.*)
Releases(item) ==
    \E declared \in DeclaredSteps \union {None} : Delivers("tool_call", declared, item.id)

-----------------------------------------------------------------------------
(* The calls among what was said that the loop is to make.                 *)
callsSaid == {id \in DOMAIN said : said[id].type = "call" /\ said[id].readable}

(* Every call reaches the envelope once, in the order the occupant asked   *)
(* for them, and none overtakes or is dropped between two that do, though  *)
(* several came in one reply or frame (#pending, SeatCalls.release): what  *)
(* was asked for before it is what was sent before it.                     *)
CallsReachTheHostInOrder ==
    \A i \in DOMAIN sent : sent[i].call # None =>
        /\ sent[i].call \in callsSaid
        /\ {id \in callsSaid : id < sent[i].call} = {sent[j].call : j \in 1..(i - 1)}

=============================================================================
