--------------------------- MODULE TurnAuthority ---------------------------
(***************************************************************************)
(* The kernel's lease table. A turn loads its authority once, installs it  *)
(* under its identity and counts who holds it; an operation presenting a   *)
(* leased identity is answered from the lease, and any other loads for     *)
(* itself. Loads wait on the grant store and on the audit sink, and        *)
(* everything else runs in between: the store changes, turns open and      *)
(* close, and a caller that gives up leaves its open running behind it.    *)
(***************************************************************************)
EXTENDS Integers, FiniteSets

CONSTANTS
    Turns,          (* calls of openTurnAuthority                              *)
    Operations,     (* authorize, admitTurn, reach, listTools, invoke..., send *)
    Keys,           (* turn identities: turnAuthorityKey of a context          *)
    Named,          (* the identities that carry an executionId                *)
    KeyOf,          (* [Turns \union Operations -> Keys]                       *)
    Versions,       (* states of the grant store                               *)
    Unavailable,    (* an authority that could not be established              *)
    None

ASSUME TurnAuthorityAssumption ==
    /\ IsFiniteSet(Turns)
    /\ Turns \intersect Operations = {}
    /\ Named \subseteq Keys
    /\ KeyOf \in [Turns \union Operations -> Keys]
    /\ Unavailable \notin Versions /\ None \notin Versions \union {Unavailable}
    /\ None \notin [refs : Nat, resolution : Versions \union {Unavailable}]

VARIABLES
    store,          (* what the grant store answers now                        *)
    leases,         (* [Keys -> AuthorityLease or None]                        *)
    scope,          (* [Turns -> one open, from its call to its close]         *)
    operation       (* [Operations -> one operation's authority]               *)

vars == <<store, leases, scope, operation>>

Resolutions == Versions \union {Unavailable}

AuthorityLease == [refs : Nat, resolution : Resolutions]

TurnAuthorityScope ==
    [phase : {"idle", "loading", "recording", "open", "closed", "refused", "failed"},
     resolution : Resolutions \union {None},
     abandoned : BOOLEAN]

Operation ==
    [phase : {"idle", "loading", "recording", "answered", "failed"},
     resolution : Resolutions \union {None},
     within : SUBSET Turns]

TypeOK ==
    /\ store \in Versions
    /\ leases \in [Keys -> AuthorityLease \union {None}]
    /\ scope \in [Turns -> TurnAuthorityScope]
    /\ operation \in [Operations -> Operation]

Init ==
    /\ store \in Versions
    /\ leases = [k \in Keys |-> None]
    /\ scope = [t \in Turns |-> [phase |-> "idle", resolution |-> None, abandoned |-> FALSE]]
    /\ operation = [p \in Operations |-> [phase |-> "idle", resolution |-> None, within |-> {}]]

-----------------------------------------------------------------------------
(* Turns                                                                   *)

leaseOf(x) == leases[KeyOf[x]]

(* The open scopes of an identity.                                         *)
open(k) == {t \in Turns : KeyOf[t] = k /\ scope[t].phase = "open"}

(* Mutant: held() is asked before the load and not after it.               *)
inProgressAtFirst(t) == scope[t].phase = "idle" /\ leaseOf(t) # None /\ KeyOf[t] \in Named

(* held(): one execution id is one turn.                                   *)
inProgress(t) == leaseOf(t) # None /\ KeyOf[t] \in Named

(* The lease a turn ends up counted on: the one already there, or its own. *)
joined(t, resolution) ==
    IF leaseOf(t) = None
      THEN [refs |-> 1, resolution |-> resolution]
      ELSE [leaseOf(t) EXCEPT !.refs = @ + 1]

settled(phase, resolution) ==
    [phase |-> phase, resolution |-> resolution, abandoned |-> FALSE]

(* A turn that gave up is never handed the scope it entered.               *)
entered(t, resolution) == [scope[t] EXCEPT !.phase = "open", !.resolution = resolution]

Enter(t, resolution) ==
    /\ leases' = [leases EXCEPT ![KeyOf[t]] = joined(t, resolution)]
    /\ scope' = [scope EXCEPT ![t] = entered(t, joined(t, resolution).resolution)]

Refuse(t) ==
    /\ scope' = [scope EXCEPT ![t] = settled("refused", @.resolution)]
    /\ UNCHANGED leases

(* openTurnAuthority up to its first await.                                *)
Open(t) ==
    /\ scope[t].phase = "idle"
    /\ \/ inProgress(t) /\ Refuse(t)
       \/ leaseOf(t) # None /\ ~inProgress(t) /\ Enter(t, None)
       \/ /\ leaseOf(t) = None
          /\ scope' = [scope EXCEPT ![t].phase = "loading"]
          /\ UNCHANGED leases
    /\ UNCHANGED <<store, operation>>

(* The grant store and the policy source answered; the record of the load  *)
(* is being written.                                                       *)
SourceAnswers(t) ==
    /\ scope[t].phase = "loading"
    /\ \E resolution \in {store, Unavailable} :
         scope' = [scope EXCEPT ![t].phase = "recording", ![t].resolution = resolution]
    /\ UNCHANGED <<store, leases, operation>>

(* The caller gives up while its open is still under way.                  *)
Abandon(t) ==
    /\ scope[t].phase \in {"loading", "recording"}
    /\ ~scope[t].abandoned
    /\ scope' = [scope EXCEPT ![t].abandoned = TRUE]
    /\ UNCHANGED <<store, leases, operation>>

(* A caller that had given up before it asked, a source that gave up with  *)
(* its caller, or an audit sink that failed.                               *)
OpenFails(t) ==
    /\ \/ scope[t].phase = "idle"
       \/ scope[t].phase = "loading" /\ scope[t].abandoned
       \/ scope[t].phase = "recording"
    /\ scope' = [scope EXCEPT ![t] = settled("failed", None)]
    /\ UNCHANGED <<store, leases, operation>>

(* The load was recorded: held() is asked again, and the turn opens on     *)
(* whatever lease is there by now.                                         *)
Settle(t) ==
    /\ scope[t].phase = "recording"
    /\ IF inProgress(t) THEN Refuse(t) ELSE Enter(t, scope[t].resolution)
    /\ UNCHANGED <<store, operation>>

(* #releaseTurnAuthority: the lease goes with the last reference.          *)
released(lease) ==
    IF lease = None \/ lease.refs <= 1 THEN None ELSE [lease EXCEPT !.refs = @ - 1]

(* scope.close, the first time it is called.                               *)
closes(t) ==
    /\ scope[t].phase = "open"
    /\ scope' = [scope EXCEPT ![t] = settled("closed", @.resolution)]
    /\ leases' = [leases EXCEPT ![KeyOf[t]] = released(@)]
    /\ UNCHANGED <<store, operation>>

(* The envelope closes the scope it was handed, on every path out.         *)
Close(t) == ~scope[t].abandoned /\ closes(t)

(* Mutant: only what was handed over is closed.                            *)
leavesOpen(t) == FALSE

(* The open of a turn that gave up is closed as soon as it resolves.       *)
CloseAbandoned(t) == scope[t].abandoned /\ closes(t)

-----------------------------------------------------------------------------
(* Operations and the store                                                *)

(* Mutant: every operation loads for itself.                               *)
neverAnswers(p) == FALSE

leaseAnswers(p) == leaseOf(p) # None

(* #resolveAuthority: from the lease, or by a load of its own.             *)
Present(p) ==
    /\ operation[p].phase = "idle"
    /\ operation' =
         [operation EXCEPT
            ![p] = IF leaseAnswers(p)
                     THEN [phase |-> "answered", resolution |-> leaseOf(p).resolution,
                           within |-> open(KeyOf[p])]
                     ELSE [phase |-> "loading", resolution |-> None,
                           within |-> open(KeyOf[p])]]
    /\ UNCHANGED <<store, leases, scope>>

OwnSourceAnswers(p) ==
    /\ operation[p].phase = "loading"
    /\ \E resolution \in {store, Unavailable} :
         operation' = [operation EXCEPT ![p].phase = "recording", ![p].resolution = resolution]
    /\ UNCHANGED <<store, leases, scope>>

OwnLoadRecorded(p) ==
    /\ operation[p].phase = "recording"
    /\ operation' = [operation EXCEPT ![p].phase = "answered"]
    /\ UNCHANGED <<store, leases, scope>>

(* The operation's signal or the audit sink ended it before it had an      *)
(* authority to be decided on.                                             *)
OperationFails(p) ==
    /\ operation[p].phase \in {"idle", "loading", "recording"}
    /\ operation' = [operation EXCEPT ![p] = [phase |-> "failed", resolution |-> None,
                                              within |-> @.within]]
    /\ UNCHANGED <<store, leases, scope>>

(* A grant is issued or revoked, whatever turns are running.               *)
StoreChanges ==
    /\ \E version \in Versions \ {store} : store' = version
    /\ UNCHANGED <<leases, scope, operation>>

TurnSteps(t) ==
    Open(t) \/ SourceAnswers(t) \/ Abandon(t) \/ OpenFails(t) \/ Settle(t)
    \/ Close(t) \/ CloseAbandoned(t)

OperationSteps(p) == Present(p) \/ OwnSourceAnswers(p) \/ OwnLoadRecorded(p) \/ OperationFails(p)

Next ==
    \/ \E t \in Turns : TurnSteps(t)
    \/ \E p \in Operations : OperationSteps(p)
    \/ StoreChanges

(* A turn that was handed its scope closes it in the envelope's finally,   *)
(* which its deadline reaches; the open of one that gave up closes what it *)
(* resolves to in a reaction to its own promise. Nothing is assumed of the *)
(* store or the audit sink, which may never answer.                        *)
Fairness == \A t \in Turns : WF_vars(Close(t)) /\ WF_vars(CloseAbandoned(t))

Spec == Init /\ [][Next]_vars /\ Fairness

-----------------------------------------------------------------------------
(* Properties                                                              *)

(* A lease is in the table exactly while some turn holds it open, and      *)
(* counts them: no close drops a lease another turn still decides on, and  *)
(* none is left behind by the last (openTurnAuthority re-reading the table *)
(* after its load, #releaseTurnAuthority).                                 *)
LeasesAreCounted ==
    \A k \in Keys :
        IF leases[k] = None
          THEN open(k) = {}
          ELSE leases[k].refs = Cardinality(open(k)) /\ open(k) # {}

(* Every operation presented inside an open turn is decided on the         *)
(* authority that turn's own scope was handed, however many times the      *)
(* store changed in between and whoever else opened or closed the same     *)
(* identity (#resolveAuthority, openTurnAuthority).                        *)
TurnsDecideOnOneAuthority ==
    \A p \in Operations : \A t \in operation[p].within :
        operation[p].resolution = scope[t].resolution

(* The lease table behaves as a set of holders around one frozen           *)
(* authority: counting, re-reading and joining implement it.               *)
Held ==
    INSTANCE HeldAuthority
        WITH holders <- [k \in Keys |-> open(k)],
             frozen <- [k \in Keys |-> IF leases[k] = None THEN None ELSE leases[k].resolution]

AuthorityIsHeld == Held!Spec

(* No lease answers for ever: whatever was held is let go, so an execution *)
(* id becomes free again and an identity's next turn reads the store anew  *)
(* (TurnAuthorityScope.close).                                             *)
NothingStaysHeld == \A k \in Keys : leases[k] # None ~> leases[k] = None

=============================================================================
