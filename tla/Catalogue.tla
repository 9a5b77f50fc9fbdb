----------------------------- MODULE Catalogue -----------------------------
(***************************************************************************)
(* The tool catalogue of one turn identity. The first operation of a turn  *)
(* that needs a catalogue starts its derivation, the turn's lease holds    *)
(* the promise, and the others wait on it too, each against a signal of    *)
(* its own. A derivation is named by the operation that started it, and so *)
(* is the catalogue it came to.                                            *)
(*                                                                         *)
(* Leases are the successive leases of the identity (TurnAuthority): a     *)
(* lease object outlives its place in the table in whoever captured it,    *)
(* while the table is looked up anew at every use.                         *)
(***************************************************************************)
EXTENDS Integers, FiniteSets

CONSTANTS
    Leases,         (* leases of the identity, one after the other                *)
    Readers,        (* operations that read a catalogue                           *)
    Listings,       (* those that are listTools; the others are invokeTool        *)
    Undefined

ASSUME CatalogueAssumption ==
    /\ IsFiniteSet(Readers)
    /\ Listings \subseteq Readers
    /\ Undefined \notin Leases \union Readers

VARIABLES
    ended,          (* the turns that have closed                                 *)
    current,        (* the lease in the table, or Undefined                       *)
    lease,          (* [Leases -> what each lease holds]                          *)
    derivation,     (* [Readers -> the derivation each started]                   *)
    op              (* [Readers -> one operation's progress]                      *)

catalogueVars == <<ended, current, lease, derivation, op>>

Lease == [registry : Readers \union {Undefined}, catalogHash : Readers \union {Undefined}]

HeldRegistry ==
    [lease : Leases \union {Undefined},
     state : {"none", "deriving", "resolved", "failed", "cancelled"},
     waiting : Nat, settled : BOOLEAN, aborted : BOOLEAN]

Progress ==
    [phase : {"idle", "decided", "waiting", "answered", "recorded", "thrown"},
     turn : Leases \union {Undefined},
     on : Readers \union {Undefined},
     outcome : {"none", "resolved", "failed", "cancelled", "aborted"},
     hash : Readers \union {Undefined}]

CatalogueTypeOK ==
    /\ ended \subseteq Leases
    /\ current \in Leases \union {Undefined}
    /\ lease \in [Leases -> Lease]
    /\ derivation \in [Readers -> HeldRegistry]
    /\ op \in [Readers -> Progress]

NotStarted ==
    [lease |-> Undefined, state |-> "none", waiting |-> 0, settled |-> FALSE, aborted |-> FALSE]

CatalogueInit ==
    /\ ended = {}
    /\ current = Undefined
    /\ lease = [t \in Leases |-> [registry |-> Undefined, catalogHash |-> Undefined]]
    /\ derivation = [p \in Readers |-> NotStarted]
    /\ op = [p \in Readers |->
               [phase |-> "idle", turn |-> Undefined, on |-> Undefined, outcome |-> "none", hash |-> Undefined]]

-----------------------------------------------------------------------------
(* The lease in the table                                                  *)

TurnOpens(t) ==
    /\ current = Undefined /\ t \notin ended
    /\ current' = t
    /\ UNCHANGED <<ended, lease, derivation, op>>

TurnCloses ==
    /\ current # Undefined
    /\ current' = Undefined
    /\ ended' = ended \union {current}
    /\ UNCHANGED <<lease, derivation, op>>

-----------------------------------------------------------------------------
(* Reading a catalogue                                                     *)

shared(d) == derivation[d].lease # Undefined

waiters(d) == {p \in Readers : op[p].phase = "waiting" /\ op[p].on = d}

(* The operation has its authority, from the lease or by its own load.     *)
Begin(p) ==
    /\ op[p].phase = "idle"
    /\ op' = [op EXCEPT ![p].phase = "decided", ![p].turn = current]
    /\ UNCHANGED <<ended, current, lease, derivation>>

waitsOn(p, d) == op' = [op EXCEPT ![p].phase = "waiting", ![p].on = d]

started(holder, waiting) ==
    [lease |-> holder, state |-> "deriving", waiting |-> waiting,
     settled |-> FALSE, aborted |-> FALSE]

(* #resolveToolRegistry outside a lease, or before anyone in it asked, or  *)
(* beside those already waiting.                                           *)
DerivesAlone(p) ==
    /\ op[p].phase = "decided" /\ current = Undefined
    /\ derivation' = [derivation EXCEPT ![p] = started(Undefined, 0)]
    /\ waitsOn(p, p)
    /\ UNCHANGED <<ended, current, lease>>

HoldsRegistry(p) ==
    /\ op[p].phase = "decided" /\ current # Undefined
    /\ lease[current].registry = Undefined
    /\ derivation' = [derivation EXCEPT ![p] = started(current, 1)]
    /\ lease' = [lease EXCEPT ![current].registry = p]
    /\ waitsOn(p, p)
    /\ UNCHANGED <<ended, current>>

joining(held) == [held EXCEPT !.waiting = @ + 1]

JoinsRegistry(p) ==
    /\ op[p].phase = "decided" /\ current # Undefined
    /\ lease[current].registry # Undefined
    /\ derivation' = [derivation EXCEPT ![lease[current].registry] = joining(@)]
    /\ waitsOn(p, lease[current].registry)
    /\ UNCHANGED <<ended, current, lease>>

(* raceAbort: the caller's own signal, if it fires while the derivation    *)
(* has not answered it. One that derives alone hands its signal on.        *)
Aborts(p) ==
    /\ op[p].phase = "waiting" /\ op[p].outcome = "none"
    /\ IF shared(op[p].on)
         THEN op' = [op EXCEPT ![p].outcome = "aborted"] /\ UNCHANGED derivation
         ELSE /\ ~derivation[p].aborted
              /\ derivation' = [derivation EXCEPT ![p].aborted = TRUE]
              /\ UNCHANGED op
    /\ UNCHANGED <<ended, current, lease>>

Wakes(p) ==
    /\ op[p].phase = "waiting" /\ op[p].outcome = "none"
    /\ derivation[op[p].on].settled
    /\ op' = [op EXCEPT ![p].outcome = derivation[op[p].on].state]
    /\ UNCHANGED <<ended, current, lease, derivation>>

(* Mutant: the first to leave cancels it for the rest.                     *)
leftAtFirst(held) ==
    [held EXCEPT !.waiting = @ - 1, !.aborted = @ \/ ~held.settled]

(* Mutant: the last to leave cancels nothing.                              *)
leftRunning(held) == [held EXCEPT !.waiting = @ - 1]

(* The finally: the last to leave cancels work that has not settled.       *)
left(held) ==
    [held EXCEPT !.waiting = @ - 1,
                 !.aborted = @ \/ (held.waiting = 1 /\ ~held.settled)]

Leaves(p) ==
    /\ op[p].phase = "waiting" /\ op[p].outcome # "none"
    /\ derivation' =
         IF shared(op[p].on) THEN [derivation EXCEPT ![op[p].on] = left(@)] ELSE derivation
    /\ op' = [op EXCEPT ![p].phase =
                IF \/ op[p].outcome = "aborted"
                   \/ op[p].outcome # "resolved" /\ p \in Listings
                   \/ op[p].outcome # "resolved" /\ ~shared(op[p].on) /\ derivation[p].aborted
                  THEN "thrown" ELSE "answered"]
    /\ UNCHANGED <<ended, current, lease>>

(* listTools holds the hash on whatever lease is in the table, and only    *)
(* then writes the record, which may fail.                                 *)
Publishes(p) ==
    /\ op[p].phase = "answered" /\ p \in Listings
    /\ lease' =
         IF current = Undefined THEN lease ELSE [lease EXCEPT ![current].catalogHash = op[p].on]
    /\ \/ op' = [op EXCEPT ![p].phase = "recorded", ![p].hash = op[p].on]
       \/ op' = [op EXCEPT ![p].phase = "thrown"]
    /\ UNCHANGED <<ended, current, derivation>>

(* #recordToolInvoked reads the hash back from the lease in the table.     *)
Records(p) ==
    /\ op[p].phase = "answered" /\ p \notin Listings
    /\ op' = [op EXCEPT ![p].phase = "recorded",
                        ![p].hash = IF current = Undefined THEN Undefined ELSE lease[current].catalogHash]
    /\ UNCHANGED <<ended, current, lease, derivation>>

(* Anything between the catalogue and the record may end the operation.    *)
Throws(p) ==
    /\ op[p].phase \in {"decided", "answered"}
    /\ op' = [op EXCEPT ![p].phase = "thrown"]
    /\ UNCHANGED <<ended, current, lease, derivation>>

-----------------------------------------------------------------------------
(* Derivations                                                             *)

(* The providers answer, fail, or stop at an abort they were sent.         *)
Ends(d) ==
    /\ derivation[d].state = "deriving"
    /\ \E state \in {"resolved", "failed"}
                      \union (IF derivation[d].aborted THEN {"cancelled"} ELSE {}) :
         derivation' = [derivation EXCEPT ![d].state = state]
    /\ UNCHANGED <<ended, current, lease, op>>

(* Mutant: a catalogue is not held once it resolved.                      *)
lettingGo(registry, d) == IF registry = d THEN Undefined ELSE registry

(* What a lease holds once d has settled: a rejection is not a catalogue.  *)
keeping(registry, d) ==
    IF registry = d /\ derivation[d].state # "resolved" THEN Undefined ELSE registry

Settles(d) ==
    /\ derivation[d].state \in {"resolved", "failed", "cancelled"}
    /\ ~derivation[d].settled
    /\ derivation' = [derivation EXCEPT ![d].settled = TRUE]
    /\ lease' =
         IF shared(d)
           THEN [lease EXCEPT ![derivation[d].lease].registry = keeping(@, d)]
           ELSE lease
    /\ UNCHANGED <<ended, current, op>>

ReaderSteps(p) ==
    \/ Begin(p) \/ DerivesAlone(p) \/ HoldsRegistry(p) \/ JoinsRegistry(p)
    \/ Aborts(p) \/ Wakes(p) \/ Leaves(p) \/ Publishes(p) \/ Records(p) \/ Throws(p)

CatalogueNext ==
    \/ \E t \in Leases : TurnOpens(t)
    \/ TurnCloses
    \/ \E p \in Readers : ReaderSteps(p)
    \/ \E d \in Readers : Ends(d) \/ Settles(d)

CatalogueSpec == CatalogueInit /\ [][CatalogueNext]_catalogueVars

-----------------------------------------------------------------------------
(* Properties                                                              *)

(* A shared derivation is never cancelled under an operation still waiting *)
(* on it: one caller's abort is not another's (#resolveToolRegistry).      *)
CancelledOnceAllHaveGone ==
    [][\A d \in Readers :
         shared(d) /\ ~derivation[d].aborted /\ derivation'[d].aborted
           => waiters(d)' = {} /\ ~derivation[d].settled]_catalogueVars

(* Work nobody waits for is not left running: a derivation still under way *)
(* is either awaited or has been told to stop (#resolveToolRegistry).      *)
NoWorkForNobody ==
    \A d \in Readers :
        shared(d) /\ derivation[d].state = "deriving" /\ waiters(d) = {}
            => derivation[d].aborted

(* All the operations one turn answered were answered from one catalogue,  *)
(* whatever was retried, cancelled or still in flight (ADR 0026,           *)
(* #holdRegistry).                                                         *)
TurnReadsOneCatalogue ==
    \A p, q \in Readers :
        /\ op[p].outcome = "resolved" /\ op[q].outcome = "resolved"
        /\ shared(op[p].on) /\ derivation[op[p].on].lease = derivation[op[q].on].lease
        => op[p].on = op[q].on

(* What #resolveToolRegistry's comment says of an abort: it ends the       *)
(* operation it belongs to, and no other.                                  *)
OnlyOwnAbortsEndOperations ==
    \A p \in Readers : op[p].outcome = "cancelled" => ~shared(op[p].on)

=============================================================================
