------------------------ MODULE TurnAuthorityProofs ------------------------
(***************************************************************************)
(* The lease table for any turns, operations, identities and store: it     *)
(* counts its holders, an operation in a turn is decided on that turn's    *)
(* authority, and the table implements a set of holders around one frozen  *)
(* authority.  And the catalogue a lease holds, for any number of waiters: *)
(* derived once for a turn, and cancelled once nobody waits for it.        *)
(***************************************************************************)
EXTENDS TurnAuthority, Catalogue, FiniteSetTheorems, TLAPS

(* Every open scope was handed the authority its lease still holds.        *)
ScopesShareTheLease ==
    \A t \in Turns : scope[t].phase = "open" => leaseOf(t).resolution = scope[t].resolution

(* An execution id has one open scope.                                     *)
OneTurnPerExecution ==
    \A t, u \in Turns :
        /\ scope[t].phase = "open" /\ scope[u].phase = "open"
        /\ KeyOf[t] = KeyOf[u] /\ KeyOf[t] \in Named
        => t = u

(* An operation remembers turns only if their lease answered it.           *)
OnlyTurnsAnswer ==
    \A p \in Operations : \A t \in operation[p].within :
        scope[t].phase \in {"open", "closed"} /\ operation[p].phase = "answered"

(* What a turn waits to have recorded is what it loaded.                   *)
RecordingHasLoaded ==
    \A t \in Turns : scope[t].phase = "recording" => scope[t].resolution \in Resolutions

Inv ==
    /\ TypeOK
    /\ RecordingHasLoaded
    /\ LeasesAreCounted
    /\ ScopesShareTheLease
    /\ OneTurnPerExecution
    /\ OnlyTurnsAnswer
    /\ TurnsDecideOnOneAuthority

LEMMA OpenIsFinite == \A k : IsFiniteSet(open(k))
  BY FS_Subset, TurnAuthorityAssumption DEF open

LEMMA LeaseTyped ==
  ASSUME TypeOK, NEW x \in Turns \union Operations
  PROVE  KeyOf[x] \in Keys /\ leaseOf(x) \in AuthorityLease \union {None}
  BY TurnAuthorityAssumption DEF TypeOK, TurnAuthorityScope, Operation, leaseOf

LEMMA NoneIsNoLease == None \notin AuthorityLease
  BY TurnAuthorityAssumption DEF AuthorityLease, Resolutions

-----------------------------------------------------------------------------
(* A turn that takes its place on a lease                                  *)

(* What Enter does to the table, in the terms the properties use: the      *)
(* turn joins the holders of its identity and is handed what they hold.    *)
LEMMA Entering ==
  ASSUME Inv, NEW t \in Turns, NEW resolution,
         scope[t].phase \notin {"open", "closed"}, ~inProgress(t),
         leaseOf(t) = None => resolution \in Resolutions,
         Enter(t, resolution)
  PROVE  /\ leases' \in [Keys -> AuthorityLease \union {None}]
         /\ leases' = [leases EXCEPT ![KeyOf[t]] = joined(t, resolution)]
         /\ joined(t, resolution) \in AuthorityLease
         /\ joined(t, resolution).resolution =
              IF leaseOf(t) = None THEN resolution ELSE leaseOf(t).resolution
         /\ joined(t, resolution).refs = Cardinality(open(KeyOf[t])) + 1
         /\ \A k \in Keys : open(k)' = IF k = KeyOf[t] THEN open(k) \union {t} ELSE open(k)
         /\ scope' = [scope EXCEPT ![t] = entered(t, joined(t, resolution).resolution)]
  <1>1. KeyOf[t] \in Keys /\ leaseOf(t) \in AuthorityLease \union {None}
    BY LeaseTyped DEF Inv
  <1>2. joined(t, resolution) \in AuthorityLease
    BY <1>1 DEF joined, AuthorityLease
  <1>3. joined(t, resolution).resolution =
              IF leaseOf(t) = None THEN resolution ELSE leaseOf(t).resolution
    BY <1>1 DEF joined, AuthorityLease
  <1>4. joined(t, resolution).refs = Cardinality(open(KeyOf[t])) + 1
    <2>1. CASE leaseOf(t) = None
      <3>1. open(KeyOf[t]) = {}
        BY <2>1, <1>1 DEF Inv, LeasesAreCounted, leaseOf
      <3> QED BY <3>1, <2>1, FS_EmptySet DEF joined
    <2>2. CASE leaseOf(t) # None
      BY <2>2, <1>1 DEF Inv, LeasesAreCounted, leaseOf, joined, AuthorityLease
    <2> QED BY <2>1, <2>2
  <1>5. leases' = [leases EXCEPT ![KeyOf[t]] = joined(t, resolution)]
    BY DEF Enter
  <1>6. leases' \in [Keys -> AuthorityLease \union {None}]
    BY <1>5, <1>2 DEF Inv, TypeOK, TurnAuthorityScope, Operation
  <1>7. scope' = [scope EXCEPT ![t] = entered(t, joined(t, resolution).resolution)]
    BY DEF Enter
  <1>8. \A u \in Turns : scope'[u].phase = "open" <=> scope[u].phase = "open" \/ u = t
    BY <1>7 DEF entered, Inv, TypeOK, TurnAuthorityScope, Operation
  <1>9. \A k \in Keys : open(k)' = IF k = KeyOf[t] THEN open(k) \union {t} ELSE open(k)
    BY <1>8 DEF open
  <1> QED BY <1>2, <1>3, <1>4, <1>5, <1>6, <1>7, <1>9

LEMMA EnteringKeepsInv ==
  ASSUME Inv, NEW t \in Turns, NEW resolution,
         scope[t].phase \notin {"open", "closed"}, ~inProgress(t),
         leaseOf(t) = None => resolution \in Resolutions,
         Enter(t, resolution), UNCHANGED <<store, operation>>
  PROVE  Inv'
  <1> DEFINE entry == joined(t, resolution)
  <1>1. /\ leases' \in [Keys -> AuthorityLease \union {None}]
        /\ leases' = [leases EXCEPT ![KeyOf[t]] = entry]
        /\ entry \in AuthorityLease
        /\ entry.resolution = IF leaseOf(t) = None THEN resolution ELSE leaseOf(t).resolution
        /\ entry.refs = Cardinality(open(KeyOf[t])) + 1
        /\ \A k \in Keys : open(k)' = IF k = KeyOf[t] THEN open(k) \union {t} ELSE open(k)
        /\ scope' = [scope EXCEPT ![t] = entered(t, entry.resolution)]
    BY Entering
  <1>2. KeyOf[t] \in Keys /\ leaseOf(t) \in AuthorityLease \union {None}
    BY LeaseTyped DEF Inv
  <1> HIDE DEF entry
  <1>3. TypeOK'
    <2>1. scope[t] \in TurnAuthorityScope /\ entry.resolution \in Resolutions
      BY <1>1 DEF Inv, TypeOK, AuthorityLease
    <2>2. entered(t, entry.resolution) \in TurnAuthorityScope
      BY <2>1 DEF TurnAuthorityScope, entered
    <2> QED BY <1>1, <2>2 DEF Inv, TypeOK
  <1>4. t \notin open(KeyOf[t])
    BY DEF open
  <1>5. Cardinality(open(KeyOf[t]) \union {t}) = Cardinality(open(KeyOf[t])) + 1
    BY <1>4, OpenIsFinite, FS_AddElement
  <1>6. LeasesAreCounted'
    <2> SUFFICES ASSUME NEW k \in Keys
                 PROVE  IF leases'[k] = None
                          THEN open(k)' = {}
                          ELSE leases'[k].refs = Cardinality(open(k)') /\ open(k)' # {}
      BY DEF LeasesAreCounted
    <2>1. CASE k = KeyOf[t]
      BY <2>1, <1>1, <1>2, <1>5, NoneIsNoLease DEF Inv, TypeOK, TurnAuthorityScope, Operation
    <2>2. CASE k # KeyOf[t]
      BY <2>2, <1>1, <1>2 DEF Inv, TypeOK, TurnAuthorityScope, Operation, LeasesAreCounted
    <2> QED BY <2>1, <2>2
  <1>7. ScopesShareTheLease'
    <2> SUFFICES ASSUME NEW u \in Turns, scope'[u].phase = "open"
                 PROVE  leases'[KeyOf[u]].resolution = scope'[u].resolution
      BY DEF ScopesShareTheLease, leaseOf
    <2>0. KeyOf[u] \in Keys
      BY TurnAuthorityAssumption
    <2>1. CASE u = t
      BY <2>1, <1>1, <1>2 DEF entered, Inv, TypeOK, TurnAuthorityScope, Operation
    <2>2. CASE u # t
      <3>1. scope[u].phase = "open" /\ scope'[u] = scope[u]
        BY <2>2, <1>1 DEF Inv, TypeOK, TurnAuthorityScope, Operation
      <3>2. leases[KeyOf[u]].resolution = scope[u].resolution
        BY <3>1 DEF Inv, ScopesShareTheLease, leaseOf
      <3>3. CASE KeyOf[u] = KeyOf[t]
        <4>1. leaseOf(t) # None
          BY <3>1, <3>3, <1>2 DEF Inv, LeasesAreCounted, leaseOf, open
        <4> QED BY <4>1, <3>1, <3>2, <3>3, <1>1, <1>2 DEF leaseOf, Inv, TypeOK, TurnAuthorityScope, Operation
      <3>4. CASE KeyOf[u] # KeyOf[t]
        BY <3>1, <3>2, <3>4, <1>1, <1>2, <2>0 DEF Inv, TypeOK, TurnAuthorityScope, Operation
      <3> QED BY <3>3, <3>4
    <2> QED BY <2>1, <2>2
  <1>8. OneTurnPerExecution'
    <2>1. KeyOf[t] \in Named => open(KeyOf[t]) = {}
      BY <1>2 DEF inProgress, Inv, LeasesAreCounted, leaseOf
    <2>2. \A u \in Turns : scope'[u].phase = "open" => u = t \/ scope[u].phase = "open"
      BY <1>1 DEF Inv, TypeOK, TurnAuthorityScope, Operation
    <2> QED BY <2>1, <2>2 DEF OneTurnPerExecution, Inv, open
  <1>9. \A p \in Operations : t \notin operation[p].within
    BY DEF Inv, OnlyTurnsAnswer
  <1>10. OnlyTurnsAnswer' /\ TurnsDecideOnOneAuthority'
    BY <1>1, <1>9 DEF Inv, TypeOK, TurnAuthorityScope, Operation, OnlyTurnsAnswer, TurnsDecideOnOneAuthority
  <1>11. RecordingHasLoaded'
    BY <1>1 DEF entered, Inv, TypeOK, TurnAuthorityScope, Operation, RecordingHasLoaded
  <1> QED BY <1>3, <1>6, <1>7, <1>8, <1>10, <1>11 DEF Inv

-----------------------------------------------------------------------------
(* A turn that moves without the table                                     *)

LEMMA OutsideKeepsInv ==
  ASSUME Inv, NEW t \in Turns, NEW w,
         scope[t].phase \notin {"open", "closed"}, w.phase \notin {"open", "closed"},
         w.phase = "recording" => w.resolution \in Resolutions,
         w \in TurnAuthorityScope, scope' = [scope EXCEPT ![t] = w],
         UNCHANGED <<store, leases, operation>>
  PROVE  Inv' /\ \A k \in Keys : open(k)' = open(k)
  <1>1. \A u \in Turns : IF u = t THEN scope'[u] = w ELSE scope'[u] = scope[u]
    BY DEF Inv, TypeOK, TurnAuthorityScope, Operation
  <1>2. \A k \in Keys : open(k)' = open(k)
    BY <1>1 DEF open
  <1>3. LeasesAreCounted'
    BY <1>2 DEF Inv, LeasesAreCounted
  <1>4. ScopesShareTheLease' /\ OneTurnPerExecution'
    BY <1>1 DEF Inv, ScopesShareTheLease, OneTurnPerExecution, leaseOf
  <1>5. \A p \in Operations : t \notin operation[p].within
    BY DEF Inv, OnlyTurnsAnswer
  <1>6. OnlyTurnsAnswer' /\ TurnsDecideOnOneAuthority'
    BY <1>1, <1>5 DEF Inv, TypeOK, TurnAuthorityScope, Operation, OnlyTurnsAnswer, TurnsDecideOnOneAuthority
  <1>7. RecordingHasLoaded'
    BY <1>1 DEF Inv, RecordingHasLoaded, Resolutions
  <1>8. TypeOK'
    BY DEF Inv, TypeOK
  <1> QED BY <1>2, <1>3, <1>4, <1>6, <1>7, <1>8 DEF Inv

-----------------------------------------------------------------------------
(* A turn that leaves                                                      *)

LEMMA Closing ==
  ASSUME Inv, NEW t \in Turns, closes(t)
  PROVE  /\ KeyOf[t] \in Keys
         /\ leaseOf(t) \in AuthorityLease
         /\ t \in open(KeyOf[t])
         /\ leaseOf(t).refs = Cardinality(open(KeyOf[t]))
         /\ \A k \in Keys : open(k)' = IF k = KeyOf[t] THEN open(k) \ {t} ELSE open(k)
         /\ Cardinality(open(KeyOf[t]) \ {t}) = leaseOf(t).refs - 1
         /\ leaseOf(t).refs = 1 <=> open(KeyOf[t]) = {t}
         /\ leases' = [leases EXCEPT ![KeyOf[t]] =
                         IF leaseOf(t).refs = 1
                           THEN None ELSE [leaseOf(t) EXCEPT !.refs = @ - 1]]
  <1>1. KeyOf[t] \in Keys /\ leaseOf(t) \in AuthorityLease \union {None}
    BY LeaseTyped DEF Inv
  <1>2. t \in open(KeyOf[t])
    BY DEF closes, settled, open
  <1>3. leaseOf(t) # None /\ leaseOf(t).refs = Cardinality(open(KeyOf[t]))
    BY <1>1, <1>2 DEF Inv, LeasesAreCounted, leaseOf
  <1>4. \A u \in Turns : scope'[u].phase = "open" <=> scope[u].phase = "open" /\ u # t
    BY DEF closes, settled, Inv, TypeOK, TurnAuthorityScope, Operation
  <1>5. \A k \in Keys : open(k)' = IF k = KeyOf[t] THEN open(k) \ {t} ELSE open(k)
    BY <1>4 DEF open
  <1>6. Cardinality(open(KeyOf[t]) \ {t}) = Cardinality(open(KeyOf[t])) - 1
    BY <1>2, OpenIsFinite, FS_RemoveElement
  <1>7. IsFiniteSet(open(KeyOf[t]) \ {t})
    BY <1>2, OpenIsFinite, FS_RemoveElement
  <1>8. leaseOf(t).refs = 1 <=> open(KeyOf[t]) \ {t} = {}
    BY <1>1, <1>3, <1>6, <1>7, FS_EmptySet DEF AuthorityLease
  <1>9. leaseOf(t).refs \in Nat /\ leaseOf(t).refs # 0
    BY <1>1, <1>2, <1>3, OpenIsFinite, FS_EmptySet DEF AuthorityLease
  <1>10. leases' = [leases EXCEPT ![KeyOf[t]] =
                      IF leaseOf(t).refs = 1
                        THEN None ELSE [leaseOf(t) EXCEPT !.refs = @ - 1]]
    <2>1. released(leaseOf(t)) = IF leaseOf(t).refs = 1
                                   THEN None ELSE [leaseOf(t) EXCEPT !.refs = @ - 1]
      BY <1>3, <1>9 DEF released
    <2> QED BY <2>1 DEF closes, leaseOf
  <1> QED BY <1>1, <1>2, <1>3, <1>5, <1>6, <1>8, <1>10

LEMMA ClosingKeepsInv ==
  ASSUME Inv, NEW t \in Turns, closes(t)
  PROVE  Inv'
  <1> DEFINE rest == [leaseOf(t) EXCEPT !.refs = @ - 1]
  <1>1. /\ KeyOf[t] \in Keys
        /\ leaseOf(t) \in AuthorityLease
        /\ t \in open(KeyOf[t])
        /\ leaseOf(t).refs = Cardinality(open(KeyOf[t]))
        /\ \A k \in Keys : open(k)' = IF k = KeyOf[t] THEN open(k) \ {t} ELSE open(k)
        /\ Cardinality(open(KeyOf[t]) \ {t}) = leaseOf(t).refs - 1
        /\ leaseOf(t).refs = 1 <=> open(KeyOf[t]) = {t}
        /\ leases' = [leases EXCEPT ![KeyOf[t]] = IF leaseOf(t).refs = 1 THEN None ELSE rest]
    BY Closing
  <1>2. /\ scope' = [scope EXCEPT ![t] = settled("closed", @.resolution)]
        /\ UNCHANGED <<store, operation>>
    BY DEF closes
  <1>3. leaseOf(t).refs # 0
    BY <1>1, OpenIsFinite, FS_EmptySet
  <1>4. /\ rest \in AuthorityLease
        /\ rest.refs = leaseOf(t).refs - 1
        /\ rest.resolution = leaseOf(t).resolution
    BY <1>1, <1>3 DEF AuthorityLease
  <1> HIDE DEF rest
  <1>5. TypeOK'
    <2>1. settled("closed", scope[t].resolution) \in TurnAuthorityScope
      BY DEF Inv, TypeOK, TurnAuthorityScope, settled
    <2>2. scope' \in [Turns -> TurnAuthorityScope]
      BY <1>2, <2>1 DEF Inv, TypeOK
    <2> QED BY <1>1, <1>2, <1>4, <2>2 DEF Inv, TypeOK
  <1>6. LeasesAreCounted'
    <2> SUFFICES ASSUME NEW k \in Keys
                 PROVE  IF leases'[k] = None
                          THEN open(k)' = {}
                          ELSE leases'[k].refs = Cardinality(open(k)') /\ open(k)' # {}
      BY DEF LeasesAreCounted
    <2>1. CASE k = KeyOf[t]
      <3>1. CASE leaseOf(t).refs = 1
        BY <3>1, <2>1, <1>1 DEF Inv, TypeOK, TurnAuthorityScope, Operation
      <3>2. CASE leaseOf(t).refs # 1
        BY <3>2, <2>1, <1>1, <1>4, NoneIsNoLease DEF Inv, TypeOK, TurnAuthorityScope, Operation
      <3> QED BY <3>1, <3>2
    <2>2. CASE k # KeyOf[t]
      BY <2>2, <1>1 DEF Inv, TypeOK, TurnAuthorityScope, Operation, LeasesAreCounted
    <2> QED BY <2>1, <2>2
  <1>7. \A u \in Turns : /\ scope'[u].resolution = scope[u].resolution
                         /\ scope'[u].phase = IF u = t THEN "closed" ELSE scope[u].phase
    BY <1>2 DEF Inv, TypeOK, TurnAuthorityScope, settled
  <1>8. ScopesShareTheLease'
    <2> SUFFICES ASSUME NEW u \in Turns, scope'[u].phase = "open"
                 PROVE  leases'[KeyOf[u]].resolution = scope'[u].resolution
      BY DEF ScopesShareTheLease, leaseOf
    <2>1. scope[u].phase = "open" /\ u # t /\ KeyOf[u] \in Keys
      BY <1>7, TurnAuthorityAssumption
    <2>2. leases[KeyOf[u]].resolution = scope[u].resolution
      BY <2>1 DEF Inv, ScopesShareTheLease, leaseOf
    <2>3. CASE KeyOf[u] = KeyOf[t]
      <3>1. leaseOf(t).refs # 1
        BY <2>1, <2>3, <1>1 DEF open
      <3> QED BY <3>1, <2>2, <2>3, <1>1, <1>4, <1>7 DEF leaseOf, Inv, TypeOK, TurnAuthorityScope, Operation
    <2>4. CASE KeyOf[u] # KeyOf[t]
      BY <2>1, <2>2, <2>4, <1>1, <1>7 DEF Inv, TypeOK, TurnAuthorityScope, Operation
    <2> QED BY <2>3, <2>4
  <1>9. OneTurnPerExecution'
    BY <1>7 DEF Inv, OneTurnPerExecution
  <1>10. OnlyTurnsAnswer' /\ TurnsDecideOnOneAuthority'
    BY <1>2, <1>7 DEF Inv, TypeOK, TurnAuthorityScope, Operation, OnlyTurnsAnswer, TurnsDecideOnOneAuthority
  <1>11. RecordingHasLoaded'
    BY <1>7 DEF Inv, RecordingHasLoaded, Resolutions
  <1> QED BY <1>5, <1>6, <1>8, <1>9, <1>10, <1>11 DEF Inv

-----------------------------------------------------------------------------
(* An operation that reads the table                                       *)

LEMMA OperationsKeepInv ==
  ASSUME Inv, NEW p \in Operations, OperationSteps(p)
  PROVE  Inv' /\ UNCHANGED <<leases, scope>>
  <1>1. UNCHANGED <<store, leases, scope>>
    BY DEF OperationSteps, Present, OwnSourceAnswers, OwnLoadRecorded, OperationFails
  <1>2. KeyOf[p] \in Keys /\ leaseOf(p) \in AuthorityLease \union {None}
    BY LeaseTyped DEF Inv
  <1>3. \A q \in Operations : q # p => operation'[q] = operation[q]
    BY DEF OperationSteps, Present, OwnSourceAnswers, OwnLoadRecorded, OperationFails, Inv, TypeOK, TurnAuthorityScope, Operation
  <1>4. TypeOK'
    <2>1. open(KeyOf[p]) \subseteq Turns
      BY DEF open
    <2>2. CASE Present(p)
      BY <2>1, <2>2, <1>1, <1>2 DEF Present, leaseAnswers, Inv, TypeOK, TurnAuthorityScope, Operation, AuthorityLease
    <2>3. CASE OwnSourceAnswers(p)
      <3>1. PICK resolution \in {store, Unavailable} :
              operation' = [operation EXCEPT ![p].phase = "recording", ![p].resolution = resolution]
        BY <2>3 DEF OwnSourceAnswers
      <3>2. resolution \in Resolutions
        BY DEF Inv, TypeOK, TurnAuthorityScope, Operation, Resolutions
      <3> QED BY <3>1, <3>2, <1>1, ZenonT(60) DEF Inv, TypeOK, TurnAuthorityScope, Operation
    <2>4. CASE OwnLoadRecorded(p)
      BY <2>4, <1>1, SMTT(30) DEF OwnLoadRecorded, Inv, TypeOK, TurnAuthorityScope, Operation
    <2>5. CASE OperationFails(p)
      BY <2>5, <1>1 DEF OperationFails, Inv, TypeOK, TurnAuthorityScope, Operation
    <2> QED BY <2>2, <2>3, <2>4, <2>5 DEF OperationSteps
  <1>5. \A t \in operation'[p].within :
           /\ scope[t].phase \in {"open", "closed"}
           /\ operation'[p].phase = "answered"
           /\ operation'[p].resolution = scope[t].resolution
    <2> SUFFICES ASSUME NEW t \in operation'[p].within
                 PROVE  /\ scope[t].phase \in {"open", "closed"}
                        /\ operation'[p].phase = "answered"
                        /\ operation'[p].resolution = scope[t].resolution
      OBVIOUS
    <2>1. CASE Present(p)
      <3>1. t \in open(KeyOf[p])
        BY <2>1 DEF Present, Inv, TypeOK, TurnAuthorityScope, Operation
      <3>2. leaseOf(p) # None
        BY <3>1, <1>2 DEF Inv, LeasesAreCounted, leaseOf
      <3>3. leaseOf(p).resolution = scope[t].resolution
        BY <3>1 DEF Inv, ScopesShareTheLease, leaseOf, open
      <3> QED BY <3>1, <3>2, <3>3, <2>1 DEF Present, leaseAnswers, open, Inv, TypeOK, TurnAuthorityScope, Operation
    <2>2. CASE OwnSourceAnswers(p) \/ OwnLoadRecorded(p) \/ OperationFails(p)
      <3>1. operation'[p].within = operation[p].within
        BY <2>2 DEF OwnSourceAnswers, OwnLoadRecorded, OperationFails, Inv, TypeOK, TurnAuthorityScope, Operation
      <3>2. operation[p].phase # "answered"
        BY <2>2 DEF OwnSourceAnswers, OwnLoadRecorded, OperationFails
      <3> QED BY <3>1, <3>2 DEF Inv, OnlyTurnsAnswer
    <2> QED BY <2>1, <2>2 DEF OperationSteps
  <1>6. OnlyTurnsAnswer' /\ TurnsDecideOnOneAuthority'
    BY <1>1, <1>3, <1>5 DEF Inv, OnlyTurnsAnswer, TurnsDecideOnOneAuthority
  <1>7. \A k \in Keys : open(k)' = open(k)
    BY <1>1 DEF open
  <1>8. LeasesAreCounted' /\ ScopesShareTheLease' /\ OneTurnPerExecution' /\ RecordingHasLoaded'
    BY <1>1, <1>7
    DEF Inv, LeasesAreCounted, ScopesShareTheLease, OneTurnPerExecution, leaseOf,
        RecordingHasLoaded, Resolutions
  <1> QED BY <1>1, <1>4, <1>6, <1>8 DEF Inv

-----------------------------------------------------------------------------
(* Every step of a turn                                                    *)

Holders == [k \in Keys |-> open(k)]

Frozen == [k \in Keys |-> IF leases[k] = None THEN None ELSE leases[k].resolution]

(* A turn either moves without the table, takes its place on a lease, or   *)
(* leaves one.                                                             *)
LEMMA TurnStepsAre ==
  ASSUME Inv, NEW t \in Turns, TurnSteps(t)
  PROVE  /\ UNCHANGED operation
         /\ \/ Inv' /\ UNCHANGED leases /\ \A k \in Keys : open(k)' = open(k)
            \/ \E resolution :
                 /\ scope[t].phase \notin {"open", "closed"} /\ ~inProgress(t)
                 /\ leaseOf(t) = None => resolution \in Resolutions
                 /\ Enter(t, resolution) /\ UNCHANGED <<store, operation>>
            \/ closes(t)
  <1>1. UNCHANGED <<store, operation>>
    BY DEF TurnSteps, Open, SourceAnswers, Abandon, OpenFails, Settle, Close, CloseAbandoned, closes
  <1>2. scope[t] \in TurnAuthorityScope
    BY DEF Inv, TypeOK
  <1>3. ASSUME Refuse(t), scope[t].phase \notin {"open", "closed"}
        PROVE  Inv' /\ \A k \in Keys : open(k)' = open(k)
    <2> DEFINE w == settled("refused", scope[t].resolution)
    <2>1. w \in TurnAuthorityScope /\ w.phase = "refused"
      BY <1>2 DEF settled, TurnAuthorityScope
    <2>2. scope' = [scope EXCEPT ![t] = w] /\ UNCHANGED leases
      BY <1>3 DEF Refuse
    <2> HIDE DEF w
    <2> QED BY <2>1, <2>2, <1>1, <1>3, OutsideKeepsInv
  <1>4. CASE Open(t)
    <2>1. CASE inProgress(t) /\ Refuse(t)
      BY <2>1, <1>1, <1>3, <1>4 DEF Open, Refuse
    <2>2. CASE leaseOf(t) # None /\ ~inProgress(t) /\ Enter(t, None)
      BY <2>2, <1>1, <1>4 DEF Open
    <2>3. CASE scope' = [scope EXCEPT ![t].phase = "loading"] /\ UNCHANGED leases
      <3> DEFINE w == [scope[t] EXCEPT !.phase = "loading"]
      <3>1. w \in TurnAuthorityScope /\ w.phase = "loading"
        BY <1>2 DEF TurnAuthorityScope
      <3>2. scope' = [scope EXCEPT ![t] = w]
        BY <2>3
      <3> HIDE DEF w
      <3> QED BY <3>1, <3>2, <2>3, <1>1, <1>4, OutsideKeepsInv DEF Open
    <2> QED BY <2>1, <2>2, <2>3, <1>4 DEF Open
  <1>5. CASE SourceAnswers(t)
    <2>1. PICK resolution \in {store, Unavailable} :
            scope' = [scope EXCEPT ![t].phase = "recording", ![t].resolution = resolution]
      BY <1>5 DEF SourceAnswers
    <2>2. resolution \in Resolutions
      BY DEF Inv, TypeOK, Resolutions
    <2> DEFINE w == [scope[t] EXCEPT !.phase = "recording", !.resolution = resolution]
    <2>3. w \in TurnAuthorityScope /\ w.phase = "recording" /\ w.resolution \in Resolutions
      BY <1>2, <2>2 DEF TurnAuthorityScope
    <2>4. scope' = [scope EXCEPT ![t] = w]
      BY <2>1, <1>2 DEF Inv, TypeOK, TurnAuthorityScope
    <2> HIDE DEF w
    <2> QED BY <2>3, <2>4, <1>1, <1>5, OutsideKeepsInv DEF SourceAnswers
  <1>6. CASE Abandon(t)
    <2> DEFINE w == [scope[t] EXCEPT !.abandoned = TRUE]
    <2>1. /\ w \in TurnAuthorityScope
          /\ w.phase = scope[t].phase /\ w.resolution = scope[t].resolution
      BY <1>2 DEF TurnAuthorityScope
    <2>2. scope' = [scope EXCEPT ![t] = w]
      BY <1>6 DEF Abandon
    <2> HIDE DEF w
    <2> QED BY <2>1, <2>2, <1>1, <1>6, OutsideKeepsInv DEF Abandon, Inv, RecordingHasLoaded
  <1>7. CASE OpenFails(t)
    <2> DEFINE w == settled("failed", None)
    <2>1. w \in TurnAuthorityScope /\ w.phase = "failed"
      BY DEF settled, TurnAuthorityScope
    <2>2. scope' = [scope EXCEPT ![t] = w]
      BY <1>7 DEF OpenFails
    <2> HIDE DEF w
    <2> QED BY <2>1, <2>2, <1>1, <1>7, OutsideKeepsInv DEF OpenFails
  <1>8. CASE Settle(t)
    <2>1. CASE inProgress(t)
      BY <2>1, <1>1, <1>3, <1>8 DEF Settle, Refuse
    <2>2. CASE ~inProgress(t)
      <3>1. scope[t].resolution \in Resolutions
        BY <1>8 DEF Settle, Inv, RecordingHasLoaded
      <3> QED BY <3>1, <2>2, <1>1, <1>8 DEF Settle
    <2> QED BY <2>1, <2>2
  <1> QED BY <1>1, <1>4, <1>5, <1>6, <1>7, <1>8 DEF TurnSteps, Close, CloseAbandoned

THEOREM InductiveInvariant == Spec => []Inv
  <1>1. Init => Inv
    <2> SUFFICES ASSUME Init PROVE Inv
      OBVIOUS
    <2>1. TypeOK
      BY TurnAuthorityAssumption DEF Init, TypeOK, TurnAuthorityScope, Operation
    <2>2. \A k \in Keys : open(k) = {}
      BY DEF Init, open
    <2> QED
      BY <2>1, <2>2
      DEF Init, Inv, LeasesAreCounted, ScopesShareTheLease, OneTurnPerExecution,
          OnlyTurnsAnswer, TurnsDecideOnOneAuthority, RecordingHasLoaded
  <1>2. Inv /\ [Next]_vars => Inv'
    <2> SUFFICES ASSUME Inv, [Next]_vars PROVE Inv'
      OBVIOUS
    <2>1. ASSUME NEW t \in Turns, TurnSteps(t) PROVE Inv'
      BY <2>1, TurnStepsAre, EnteringKeepsInv, ClosingKeepsInv
    <2>2. ASSUME NEW p \in Operations, OperationSteps(p) PROVE Inv'
      BY <2>2, OperationsKeepInv
    <2>3. CASE StoreChanges \/ UNCHANGED vars
      <3>1. UNCHANGED <<leases, scope, operation>> /\ store' \in Versions
        BY <2>3 DEF StoreChanges, vars, Inv, TypeOK, TurnAuthorityScope, Operation
      <3>2. \A k \in Keys : open(k)' = open(k)
        BY <3>1 DEF open
      <3> QED
        BY <3>1, <3>2
        DEF Inv, TypeOK, TurnAuthorityScope, Operation, LeasesAreCounted, ScopesShareTheLease, OneTurnPerExecution,
            OnlyTurnsAnswer, TurnsDecideOnOneAuthority, RecordingHasLoaded, leaseOf
    <2> QED BY <2>1, <2>2, <2>3 DEF Next
  <1> QED BY <1>1, <1>2, PTL DEF Spec

(* Type correctness of the lease table, the turns and the operations.      *)
THEOREM TypeCorrect == Spec => []TypeOK
  <1>1. Inv => TypeOK
    BY DEF Inv
  <1> QED BY <1>1, InductiveInvariant, PTL

(* A lease is in the table exactly while some turn holds it, and counts    *)
(* them: openTurnAuthority, #releaseTurnAuthority.                         *)
THEOREM LeaseTableCounts == Spec => []LeasesAreCounted
  <1>1. Inv => LeasesAreCounted
    BY DEF Inv
  <1> QED BY <1>1, InductiveInvariant, PTL

(* Whatever is presented inside an open turn is decided on that turn's own *)
(* authority: #resolveAuthority.                                           *)
THEOREM TurnsDecideAsOne == Spec => []TurnsDecideOnOneAuthority
  <1>1. Inv => TurnsDecideOnOneAuthority
    BY DEF Inv
  <1> QED BY <1>1, InductiveInvariant, PTL

-----------------------------------------------------------------------------
(* The table as a set of holders around one authority                      *)

LEMMA EnteringIsHeld ==
  ASSUME Inv, NEW t \in Turns, NEW resolution,
         scope[t].phase \notin {"open", "closed"}, ~inProgress(t),
         leaseOf(t) = None => resolution \in Resolutions,
         Enter(t, resolution)
  PROVE  Held!Next
  <1> DEFINE entry == joined(t, resolution)
  <1>1. /\ leases' = [leases EXCEPT ![KeyOf[t]] = entry]
        /\ entry \in AuthorityLease
        /\ entry.resolution = IF leaseOf(t) = None THEN resolution ELSE leaseOf(t).resolution
        /\ \A k \in Keys : open(k)' = IF k = KeyOf[t] THEN open(k) \union {t} ELSE open(k)
    BY Entering
  <1>2. KeyOf[t] \in Keys /\ leaseOf(t) \in AuthorityLease \union {None}
    BY LeaseTyped DEF Inv
  <1> HIDE DEF entry
  <1>3. leaseOf(t) = None <=> open(KeyOf[t]) = {}
    BY <1>2 DEF Inv, LeasesAreCounted, leaseOf
  <1>4. Holders' = [Holders EXCEPT ![KeyOf[t]] = open(KeyOf[t]) \union {t}]
    BY <1>1, <1>2 DEF Holders
  <1>5. Frozen' = [Frozen EXCEPT ![KeyOf[t]] = entry.resolution]
    BY <1>1, <1>2, NoneIsNoLease DEF Frozen, Inv, TypeOK, TurnAuthorityScope, Operation
  <1>6. CASE leaseOf(t) = None
    <2>1. Held!Begin(t, resolution)
      BY <1>1, <1>2, <1>3, <1>4, <1>5, <1>6 DEF Held!Begin, Holders, Frozen
    <2> QED BY <2>1, <1>6 DEF Held!Next
  <1>7. CASE leaseOf(t) # None
    <2>1. KeyOf[t] \notin Named
      BY <1>7 DEF inProgress
    <2>2. Frozen' = Frozen
      BY <1>1, <1>2, <1>5, <1>7 DEF Frozen, leaseOf
    <2>3. t \notin open(KeyOf[t])
      BY DEF open
    <2>4. Held!Join(t)
      BY <2>1, <2>2, <2>3, <1>2, <1>3, <1>4, <1>7 DEF Held!Join, Holders, Frozen
    <2> QED BY <2>4 DEF Held!Next
  <1> QED BY <1>6, <1>7

LEMMA ClosingIsHeld ==
  ASSUME Inv, NEW t \in Turns, closes(t)
  PROVE  Held!Next
  <1> DEFINE rest == [leaseOf(t) EXCEPT !.refs = @ - 1]
  <1>1. /\ KeyOf[t] \in Keys
        /\ leaseOf(t) \in AuthorityLease
        /\ t \in open(KeyOf[t])
        /\ leaseOf(t).refs = Cardinality(open(KeyOf[t]))
        /\ \A k \in Keys : open(k)' = IF k = KeyOf[t] THEN open(k) \ {t} ELSE open(k)
        /\ leaseOf(t).refs = 1 <=> open(KeyOf[t]) = {t}
        /\ leases' = [leases EXCEPT ![KeyOf[t]] = IF leaseOf(t).refs = 1 THEN None ELSE rest]
    BY Closing
  <1>2. leaseOf(t).refs # 0
    BY <1>1, OpenIsFinite, FS_EmptySet
  <1>3. rest \in AuthorityLease /\ rest.resolution = leaseOf(t).resolution
    BY <1>1, <1>2 DEF AuthorityLease
  <1> HIDE DEF rest
  <1>4. Holders' = [Holders EXCEPT ![KeyOf[t]] = open(KeyOf[t]) \ {t}]
    BY <1>1 DEF Holders
  <1>5. Frozen' = [Frozen EXCEPT ![KeyOf[t]] =
                     IF open(KeyOf[t]) = {t} THEN None ELSE Frozen[KeyOf[t]]]
    BY <1>1, <1>3, NoneIsNoLease DEF Frozen, Inv, TypeOK, TurnAuthorityScope, Operation, leaseOf
  <1>6. Held!Leave(t)
    BY <1>1, <1>4, <1>5 DEF Held!Leave, Holders, Frozen
  <1> QED BY <1>6 DEF Held!Next

(* The counted, re-read table of leases implements HeldAuthority: holders  *)
(* of one identity share one authority, which goes with the last of them,  *)
(* and an execution id has one holder.                                     *)
THEOREM TableHoldsAuthority == Spec => AuthorityIsHeld
  <1>1. Init => Held!Init
    BY DEF Init, Held!Init, open
  <1>2. Inv /\ [Next]_vars => [Held!Next]_<<Holders, Frozen>>
    <2> SUFFICES ASSUME Inv, [Next]_vars, ~UNCHANGED <<Holders, Frozen>> PROVE Held!Next
      OBVIOUS
    <2>1. ASSUME UNCHANGED leases, \A k \in Keys : open(k)' = open(k) PROVE FALSE
      BY <2>1 DEF Holders, Frozen
    <2>2. ASSUME NEW t \in Turns, TurnSteps(t) PROVE Held!Next
      BY <2>1, <2>2, TurnStepsAre, EnteringIsHeld, ClosingIsHeld
    <2>3. ASSUME UNCHANGED <<leases, scope>> PROVE FALSE
      <3>1. \A k \in Keys : open(k)' = open(k)
        BY <2>3 DEF open
      <3> QED BY <3>1, <2>1, <2>3
    <2>4. ASSUME NEW p \in Operations, OperationSteps(p) PROVE FALSE
      BY <2>3, <2>4, OperationsKeepInv
    <2> QED BY <2>2, <2>3, <2>4 DEF Next, StoreChanges, vars
  <1> QED
    BY <1>1, <1>2, InductiveInvariant, PTL DEF Spec, AuthorityIsHeld, Held!Spec, Holders, Frozen

-----------------------------------------------------------------------------
(* The catalogue that the leases of one identity hold (Catalogue).         *)

(* An operation starts a derivation when it first waits, and never again;  *)
(* what it waits on is that one, or one a lease holds.                     *)
StartedOnce ==
    \A p \in Readers :
        /\ op[p].phase \in {"idle", "decided"} =>
              /\ op[p].on = Undefined /\ op[p].outcome = "none"
              /\ derivation[p] = NotStarted
        /\ op[p].phase = "waiting" => op[p].on # Undefined
        /\ op[p].on # Undefined =>
              /\ derivation[op[p].on].state # "none"
              /\ op[p].on = p \/ shared(op[p].on)
        /\ derivation[p].state = "none" => ~shared(p)

(* The lease counts the operations that wait.                              *)
WaitersAreCounted ==
    \A d \in Readers :
        shared(d) => derivation[d].waiting = Cardinality(waiters(d))

(* A lease holds the one derivation started for it, until that is settled  *)
(* as anything but a catalogue.                                            *)
LeaseHoldsIt ==
    /\ \A t \in Leases :
        lease[t].registry # Undefined => derivation[lease[t].registry].lease = t
    /\ \A d \in Readers :
        /\ shared(d) /\ (derivation[d].state = "resolved" \/ ~derivation[d].settled)
              => lease[derivation[d].lease].registry = d
        /\ derivation[d].settled => derivation[d].state \in {"resolved", "failed", "cancelled"}

(* An operation that has its catalogue has one that resolved.              *)
AnswersResolved ==
    \A p \in Readers :
        op[p].outcome = "resolved" =>
            op[p].on # Undefined /\ derivation[op[p].on].state = "resolved"

CatInv ==
    /\ CatalogueTypeOK
    /\ StartedOnce
    /\ WaitersAreCounted
    /\ LeaseHoldsIt
    /\ AnswersResolved
    /\ NoWorkForNobody

LEMMA CatalogueStarts == CatalogueInit => CatInv
BY CatalogueAssumption DEF CatalogueInit, CatInv, CatalogueTypeOK, Lease, HeldRegistry, Progress,
       NotStarted, StartedOnce, WaitersAreCounted, LeaseHoldsIt, AnswersResolved,
       NoWorkForNobody, shared

(* Those waiting on d after a step that moves p alone.                     *)
LEMMA WaitersOf ==
    ASSUME CatalogueTypeOK, NEW p \in Readers,
           \A q \in Readers \ {p} : op'[q] = op[q]
    PROVE  \A d \in Readers :
             /\ IsFiniteSet(waiters(d)) /\ Cardinality(waiters(d)) \in Nat
             /\ waiters(d)' =
                  IF op'[p].phase = "waiting" /\ op'[p].on = d
                  THEN waiters(d) \union {p} ELSE waiters(d) \ {p}
             /\ p \notin waiters(d) =>
                  Cardinality(waiters(d) \union {p}) = Cardinality(waiters(d)) + 1
             /\ p \in waiters(d) =>
                  /\ Cardinality(waiters(d)) >= 1
                  /\ Cardinality(waiters(d) \ {p}) = Cardinality(waiters(d)) - 1
                  /\ Cardinality(waiters(d)) = 1 => waiters(d) \ {p} = {}
<1> TAKE d \in Readers
<1> DEFINE W == waiters(d)
<1>1. W \subseteq Readers /\ IsFiniteSet(Readers)
  BY CatalogueAssumption DEF waiters
<1>2. IsFiniteSet(W) /\ Cardinality(W) \in Nat
  BY <1>1, FS_Subset, FS_CardinalityType
<1>3. W' = IF op'[p].phase = "waiting" /\ op'[p].on = d
           THEN W \union {p} ELSE W \ {p}
  BY DEF waiters
<1>4. p \notin W => Cardinality(W \union {p}) = Cardinality(W) + 1
  BY <1>2, FS_AddElement
<1>5. ASSUME p \in W
      PROVE  /\ Cardinality(W) >= 1
             /\ Cardinality(W \ {p}) = Cardinality(W) - 1
             /\ Cardinality(W) = 1 => W \ {p} = {}
  <2>1. Cardinality(W \ {p}) = Cardinality(W) - 1 /\ IsFiniteSet(W \ {p})
    BY <1>2, <1>5, FS_RemoveElement
  <2>2. Cardinality(W \ {p}) \in Nat
    BY <2>1, FS_CardinalityType
  <2>3. Cardinality(W \ {p}) = 0 => W \ {p} = {}
    BY <2>1, FS_EmptySet
  <2> HIDE DEF W
  <2> QED BY <1>2, <2>1, <2>2, <2>3
<1> QED BY <1>2, <1>3, <1>4, <1>5

(* The same of operations that stay where they are.                        *)
LEMMA WaitersStay ==
    ASSUME UNCHANGED op
    PROVE  \A d \in Readers : waiters(d)' = waiters(d)
BY DEF waiters

(* Steps that leave every derivation, and who waits on it, as they were.   *)
LEMMA AsideKeepsInv ==
    ASSUME CatInv, NEW p \in Readers,
           \/ Begin(p) \/ Publishes(p) \/ Records(p) \/ Throws(p)
           \/ Wakes(p)
           \/ Aborts(p) /\ shared(op[p].on)
    PROVE  CatInv'
<1> USE DEF CatInv
<1> DEFINE Aside ==
      /\ \A q \in Readers \ {p} : op'[q] = op[q]
      /\ op' \in [Readers -> Progress]
      /\ UNCHANGED <<ended, current, derivation>>
      /\ \A t \in Leases : lease'[t].registry = lease[t].registry
      /\ lease' \in [Leases -> Lease]
      /\ op'[p].on = op[p].on
      /\ op'[p].phase = "waiting" <=> op[p].phase = "waiting"
      /\ op'[p].phase \in {"idle", "decided"} => op[p].phase = "idle"
      /\ \/ op'[p].outcome = op[p].outcome
         \/ op[p].phase = "waiting" /\ op'[p].outcome # "resolved"
         \/ op[p].phase = "waiting" /\ op'[p].outcome = derivation[op[p].on].state
<1>1. Aside
  <2> USE DEF CatalogueTypeOK, Progress
  <2>1. CASE Begin(p) \/ Throws(p) \/ Records(p)
    BY <2>1 DEF Begin, Throws, Records, Lease
  <2>2. CASE Publishes(p)
    BY <2>2 DEF Publishes, Lease
  <2>3. CASE Wakes(p)
    <3>1. op[p].on \in Readers
      BY <2>3 DEF Wakes, StartedOnce
    <3>2. derivation[op[p].on].state \in {"resolved", "failed", "cancelled"}
      BY <2>3, <3>1 DEF Wakes, LeaseHoldsIt
    <3> QED BY <2>3, <3>2 DEF Wakes
  <2>4. CASE Aborts(p) /\ shared(op[p].on)
    BY <2>4 DEF Aborts
  <2> QED BY <2>1, <2>2, <2>3, <2>4
<1>2. \A d \in Readers : waiters(d)' = waiters(d)
  BY <1>1 DEF waiters
<1>3. \A d \in Readers : shared(d)' = shared(d)
  BY <1>1 DEF shared
<1>4. CatalogueTypeOK'
  BY <1>1 DEF CatalogueTypeOK
<1>5. StartedOnce'
  BY <1>1, <1>3 DEF StartedOnce, CatalogueTypeOK, Progress, shared, NotStarted
<1>6. WaitersAreCounted' /\ NoWorkForNobody'
  BY <1>1, <1>2, <1>3 DEF WaitersAreCounted, NoWorkForNobody
<1>7. LeaseHoldsIt'
  BY <1>1, <1>3 DEF LeaseHoldsIt, shared, CatalogueTypeOK, HeldRegistry
<1>8. AnswersResolved'
  BY <1>1 DEF AnswersResolved, StartedOnce
<1> QED BY <1>4, <1>5, <1>6, <1>7, <1>8

(* What waiting makes of an operation.                                     *)
LEMMA WaitingOn ==
    ASSUME CatalogueTypeOK, NEW p \in Readers, NEW d \in Readers, waitsOn(p, d)
    PROVE  /\ op' \in [Readers -> Progress]
           /\ \A q \in Readers \ {p} : op'[q] = op[q]
           /\ op'[p].phase = "waiting" /\ op'[p].on = d
           /\ op'[p].outcome = op[p].outcome
<1> DEFINE r == [op[p] EXCEPT !.phase = "waiting", !.on = d]
<1>1. op[p] \in Progress
  BY DEF CatalogueTypeOK
<1>2. /\ r.phase = "waiting" /\ r.on = d /\ r.outcome = op[p].outcome
      /\ r \in Progress
  BY <1>1 DEF Progress
<1>3. op' = [op EXCEPT ![p] = r]
  BY DEF CatalogueTypeOK, waitsOn
<1> HIDE DEF r
<1> QED BY <1>2, <1>3 DEF CatalogueTypeOK

(* A derivation starts, alone or held by the lease.                        *)
LEMMA StartingKeepsInv ==
    ASSUME CatInv, NEW p \in Readers,
           DerivesAlone(p) \/ HoldsRegistry(p)
    PROVE  CatInv'
<1> USE DEF CatInv
<1> DEFINE holder == IF current = Undefined THEN Undefined ELSE current
           waits == IF current = Undefined THEN 0 ELSE 1
<1>1. /\ op[p].phase = "decided" /\ op[p].outcome = "none"
      /\ derivation[p] = NotStarted
      /\ derivation' = [derivation EXCEPT ![p] = started(holder, waits)]
      /\ waitsOn(p, p)
      /\ UNCHANGED <<ended, current>>
  BY DEF DerivesAlone, HoldsRegistry, StartedOnce
<1>2. /\ current = Undefined => UNCHANGED lease
      /\ current # Undefined =>
           /\ current \in Leases /\ lease[current].registry = Undefined
           /\ lease' = [lease EXCEPT ![current].registry = p]
  BY DEF DerivesAlone, HoldsRegistry, CatalogueTypeOK
<1>3. /\ derivation'[p] = started(holder, waits)
      /\ \A d \in Readers \ {p} : derivation'[d] = derivation[d]
      /\ \A q \in Readers \ {p} : op'[q] = op[q]
      /\ op'[p].phase = "waiting" /\ op'[p].on = p /\ op'[p].outcome = "none"
  BY <1>1, WaitingOn DEF CatalogueTypeOK
<1>4. CatalogueTypeOK'
  <2>1. holder \in Leases \union {Undefined} /\ waits \in Nat
    BY DEF CatalogueTypeOK
  <2>2. derivation' \in [Readers -> HeldRegistry]
    <3>1. started(holder, waits) \in HeldRegistry
      BY <2>1 DEF started, HeldRegistry
    <3> QED BY <1>1, <3>1 DEF CatalogueTypeOK
  <2>3. op' \in [Readers -> Progress]
    BY <1>1, WaitingOn
  <2>4. lease' \in [Leases -> Lease]
    BY <1>2 DEF CatalogueTypeOK, Lease
  <2> QED BY <1>1, <2>2, <2>3, <2>4 DEF CatalogueTypeOK
<1>5. /\ shared(p)' <=> current # Undefined
      /\ ~shared(p)
      /\ \A d \in Readers \ {p} : shared(d)' = shared(d)
  BY <1>1, <1>3 DEF shared, started, NotStarted
<1>6. \A q \in Readers : op[q].on # p
  BY CatalogueAssumption, <1>1 DEF StartedOnce, NotStarted, CatalogueTypeOK, Progress
<1>7. /\ waiters(p) = {} /\ waiters(p)' = {p}
      /\ \A d \in Readers \ {p} : waiters(d)' = waiters(d)
  <2>1. \A d \in Readers : p \notin waiters(d)
    BY <1>1 DEF waiters
  <2>2. waiters(p) = {}
    BY <1>6 DEF waiters
  <2>3. \A d \in Readers :
            waiters(d)' = IF op'[p].phase = "waiting" /\ op'[p].on = d
                              THEN waiters(d) \union {p} ELSE waiters(d) \ {p}
    BY <1>3, WaitersOf
  <2> QED BY <1>3, <2>1, <2>2, <2>3
<1>8. StartedOnce'
  <2> SUFFICES ASSUME NEW q \in Readers
               PROVE  /\ op'[q].phase \in {"idle", "decided"} =>
                            /\ op'[q].on = Undefined /\ op'[q].outcome = "none"
                            /\ derivation'[q] = NotStarted
                      /\ op'[q].phase = "waiting" => op'[q].on # Undefined
                      /\ op'[q].on # Undefined =>
                            /\ derivation'[op'[q].on].state # "none"
                            /\ op'[q].on = q \/ derivation'[op'[q].on].lease # Undefined
                      /\ derivation'[q].state = "none" => derivation'[q].lease = Undefined
    BY DEF StartedOnce, NotStarted, shared
  <2>1. CASE q = p
    BY CatalogueAssumption, <1>3, <2>1 DEF started
  <2>2. CASE q # p
    <3>1. op[q].on # Undefined => op[q].on \in Readers \ {p}
      BY <1>6 DEF CatalogueTypeOK, Progress
    <3> QED BY <1>3, <1>5, <2>2, <3>1 DEF StartedOnce, shared
  <2> QED BY <2>1, <2>2
<1>9. WaitersAreCounted'
  <2>1. Cardinality({p}) = 1
    BY FS_Singleton
  <2> QED BY <1>3, <1>5, <1>7, <2>1 DEF WaitersAreCounted, started
<1>10. LeaseHoldsIt'
  <2>1. \A t \in Leases : lease[t].registry # p
    BY CatalogueAssumption, <1>1, <1>5 DEF LeaseHoldsIt, shared
  <2>2. \A t \in Leases : lease'[t].registry # Undefined => derivation'[lease'[t].registry].lease = t
    BY <1>2, <1>3, <2>1 DEF LeaseHoldsIt, started, CatalogueTypeOK, Lease
  <2>3. ASSUME NEW d \in Readers, shared(d)', derivation'[d].state = "resolved" \/ ~derivation'[d].settled
        PROVE  lease'[derivation'[d].lease].registry = d
    <3>1. CASE d = p
      <4>1. current # Undefined /\ derivation'[d].lease = current
        BY <1>3, <1>5, <2>3, <3>1 DEF started
      <4> QED BY <1>2, <3>1, <4>1 DEF CatalogueTypeOK, Lease
    <3>2. CASE d # p
      <4>1. lease[derivation[d].lease].registry = d /\ derivation[d].lease \in Leases
        BY <1>3, <1>5, <2>3, <3>2 DEF LeaseHoldsIt, shared, CatalogueTypeOK, HeldRegistry
      <4>2. d # Undefined
        BY CatalogueAssumption
      <4> QED BY <1>2, <1>3, <3>2, <4>1, <4>2 DEF CatalogueTypeOK
    <3> QED BY <3>1, <3>2
  <2>4. \A d \in Readers : derivation'[d].settled => derivation'[d].state \in {"resolved", "failed", "cancelled"}
    BY <1>3 DEF LeaseHoldsIt, started
  <2> QED BY <2>2, <2>3, <2>4 DEF LeaseHoldsIt, shared
<1>11. AnswersResolved'
  BY <1>3, <1>6 DEF AnswersResolved, CatalogueTypeOK, Progress
<1>12. NoWorkForNobody'
  BY <1>3, <1>5, <1>7 DEF NoWorkForNobody
<1> QED BY <1>4, <1>8, <1>9, <1>10, <1>11, <1>12

(* An operation joins the derivation the lease holds.                      *)
LEMMA JoiningKeepsInv ==
    ASSUME CatInv, NEW p \in Readers, JoinsRegistry(p)
    PROVE  CatInv'
<1> USE DEF CatInv
<1>1. PICK d0 \in Readers :
      /\ current \in Leases /\ d0 = lease[current].registry
      /\ op[p].phase = "decided" /\ op[p].outcome = "none"
      /\ UNCHANGED <<ended, current, lease>>
      /\ derivation' = [derivation EXCEPT ![d0] = joining(derivation[d0])]
      /\ waitsOn(p, d0)
  <2>1. current \in Leases /\ lease[current].registry \in Readers
    BY DEF JoinsRegistry, CatalogueTypeOK, Lease
  <2>2. op[p].phase = "decided" /\ op[p].outcome = "none"
    BY DEF JoinsRegistry, StartedOnce
  <2>3. /\ derivation' = [derivation EXCEPT ![lease[current].registry] = joining(@)]
        /\ waitsOn(p, lease[current].registry)
        /\ UNCHANGED <<ended, current, lease>>
    BY DEF JoinsRegistry
  <2> QED BY <2>1, <2>2, <2>3
<1>2. /\ derivation'[d0] = [derivation[d0] EXCEPT !.waiting = derivation[d0].waiting + 1]
      /\ \A d \in Readers \ {d0} : derivation'[d] = derivation[d]
  BY <1>1 DEF CatalogueTypeOK, joining
<1>3. /\ op' \in [Readers -> Progress]
      /\ \A q \in Readers \ {p} : op'[q] = op[q]
      /\ op'[p].phase = "waiting" /\ op'[p].on = d0 /\ op'[p].outcome = "none"
  BY <1>1, WaitingOn
<1>4. /\ derivation'[d0] \in HeldRegistry
      /\ derivation'[d0].waiting = derivation[d0].waiting + 1
      /\ \A d \in Readers :
           /\ derivation'[d].lease = derivation[d].lease
           /\ derivation'[d].state = derivation[d].state
           /\ derivation'[d].settled = derivation[d].settled
           /\ derivation'[d].aborted = derivation[d].aborted
  BY <1>1, <1>2 DEF CatalogueTypeOK, HeldRegistry
<1>5. CatalogueTypeOK'
  BY <1>1, <1>2, <1>3, <1>4 DEF CatalogueTypeOK
<1>6. /\ derivation[d0].lease = current /\ current # Undefined
      /\ shared(d0) /\ derivation[d0].state # "none"
      /\ \A d \in Readers : shared(d)' = shared(d)
  BY CatalogueAssumption, <1>1, <1>4 DEF LeaseHoldsIt, StartedOnce, shared
<1>7. /\ waiters(d0)' = waiters(d0) \union {p} /\ p \notin waiters(d0)
      /\ \A d \in Readers \ {d0} : waiters(d)' = waiters(d)
  <2>1. \A d \in Readers : p \notin waiters(d)
    BY <1>1 DEF waiters
  <2>2. \A d \in Readers :
            waiters(d)' = IF op'[p].phase = "waiting" /\ op'[p].on = d
                              THEN waiters(d) \union {p} ELSE waiters(d) \ {p}
    BY <1>3, WaitersOf
  <2>3. waiters(d0)' = waiters(d0) \union {p}
    BY <1>3, <2>2 DEF CatalogueTypeOK
  <2>4. ASSUME NEW d \in Readers \ {d0} PROVE waiters(d)' = waiters(d)
    BY <1>3, <2>1, <2>2
  <2> QED BY <2>1, <2>3, <2>4
<1>8. StartedOnce'
  <2> SUFFICES ASSUME NEW q \in Readers
               PROVE  /\ op'[q].phase \in {"idle", "decided"} =>
                            /\ op'[q].on = Undefined /\ op'[q].outcome = "none"
                            /\ derivation'[q] = NotStarted
                      /\ op'[q].phase = "waiting" => op'[q].on # Undefined
                      /\ op'[q].on # Undefined =>
                            /\ derivation'[op'[q].on].state # "none"
                            /\ op'[q].on = q \/ derivation'[op'[q].on].lease # Undefined
                      /\ derivation'[q].state = "none" => derivation'[q].lease = Undefined
    BY DEF StartedOnce, NotStarted, shared
  <2>1. CASE q = p
    BY CatalogueAssumption, <1>1, <1>3, <1>4, <1>6, <2>1 DEF StartedOnce, shared
  <2>2. CASE q # p
    <3>1. op[q].on # Undefined => op[q].on \in Readers
      BY DEF CatalogueTypeOK, Progress
    <3>2. derivation[q] = NotStarted => q # d0
      BY <1>6 DEF NotStarted
    <3> QED BY <1>2, <1>3, <1>4, <2>2, <3>1, <3>2 DEF StartedOnce, shared
  <2> QED BY <2>1, <2>2
<1>9. WaitersAreCounted'
  <2>1. Cardinality(waiters(d0) \union {p}) = Cardinality(waiters(d0)) + 1
    BY <1>3, <1>7, WaitersOf
  <2>2. ASSUME NEW d \in Readers, shared(d)
        PROVE  derivation'[d].waiting = Cardinality(waiters(d)')
    <3>1. CASE d = d0
      BY <1>4, <1>7, <2>1, <2>2, <3>1 DEF WaitersAreCounted
    <3>2. CASE d # d0
      BY <1>2, <1>7, <2>2, <3>2 DEF WaitersAreCounted
    <3> QED BY <3>1, <3>2
  <2> QED BY <1>6, <2>2 DEF WaitersAreCounted
<1>10. LeaseHoldsIt'
  BY <1>1, <1>4 DEF LeaseHoldsIt, shared, CatalogueTypeOK, Lease
<1>11. AnswersResolved'
  BY <1>3, <1>4 DEF AnswersResolved, CatalogueTypeOK, Progress
<1>12. NoWorkForNobody'
  BY <1>4, <1>6, <1>7 DEF NoWorkForNobody
<1> QED BY <1>5, <1>8, <1>9, <1>10, <1>11, <1>12

(* An operation leaves; the last to leave ends what it leaves behind.      *)
LEMMA LeavingKeepsInv ==
    ASSUME CatInv, NEW p \in Readers, Leaves(p)
    PROVE  CatInv'
<1> USE DEF CatInv
<1>1. /\ op[p].phase = "waiting" /\ op[p].on \in Readers
      /\ UNCHANGED <<ended, current, lease>>
  BY DEF Leaves, CatalogueTypeOK, Progress, StartedOnce
<1>2. /\ op' \in [Readers -> Progress]
      /\ \A q \in Readers \ {p} : op'[q] = op[q]
      /\ op'[p].phase \in {"thrown", "answered"}
      /\ op'[p].on = op[p].on /\ op'[p].outcome = op[p].outcome
  BY DEF Leaves, CatalogueTypeOK, Progress
<1>3. PICK d0 \in Readers : d0 = op[p].on
  BY <1>1
<1>4. /\ p \in waiters(d0) /\ waiters(d0)' = waiters(d0) \ {p}
      /\ \A d \in Readers \ {d0} : waiters(d)' = waiters(d)
  <2>1. \A d \in Readers : p \in waiters(d) <=> d = d0
    BY <1>1, <1>3 DEF waiters
  <2>2. \A d \in Readers :
            waiters(d)' = IF op'[p].phase = "waiting" /\ op'[p].on = d
                              THEN waiters(d) \union {p} ELSE waiters(d) \ {p}
    BY <1>2, WaitersOf
  <2> QED BY <1>2, <2>1, <2>2
<1>5. /\ Cardinality(waiters(d0)) >= 1 /\ Cardinality(waiters(d0)) \in Nat
      /\ Cardinality(waiters(d0)') = Cardinality(waiters(d0)) - 1
      /\ Cardinality(waiters(d0)) = 1 => waiters(d0)' = {}
  BY <1>2, <1>4, WaitersOf
<1>6. \A d \in Readers \ {d0} : derivation'[d] = derivation[d]
  BY <1>3 DEF Leaves, CatalogueTypeOK
<1>7. /\ ~shared(d0) => derivation' = derivation
      /\ shared(d0) => derivation'[d0] = left(derivation[d0])
      /\ derivation' \in [Readers -> HeldRegistry]
  <2>1. ~shared(d0) => derivation' = derivation
    BY <1>3 DEF Leaves
  <2>2. shared(d0) => derivation' = [derivation EXCEPT ![d0] = left(derivation[d0])]
    BY <1>3 DEF Leaves
  <2>3. ASSUME shared(d0) PROVE left(derivation[d0]) \in HeldRegistry
    <3>1. derivation[d0].waiting - 1 \in Nat
      BY <1>5, <2>3 DEF WaitersAreCounted
    <3>2. derivation[d0] \in HeldRegistry
      BY DEF CatalogueTypeOK
    <3> QED BY <3>1, <3>2 DEF left, HeldRegistry
  <2> QED BY <2>1, <2>2, <2>3 DEF CatalogueTypeOK
<1>8. /\ shared(d0) => /\ derivation'[d0].waiting = derivation[d0].waiting - 1
                       /\ derivation[d0].waiting = 1 /\ ~derivation[d0].settled =>
                             derivation'[d0].aborted
      /\ \A d \in Readers :
           /\ derivation'[d].lease = derivation[d].lease
           /\ derivation'[d].state = derivation[d].state
           /\ derivation'[d].settled = derivation[d].settled
           /\ derivation[d].aborted => derivation'[d].aborted
  <2>1. derivation[d0] \in HeldRegistry
    BY DEF CatalogueTypeOK
  <2> DEFINE l == left(derivation[d0])
  <2>2. /\ l.waiting = derivation[d0].waiting - 1
        /\ derivation[d0].waiting = 1 /\ ~derivation[d0].settled => l.aborted
        /\ l.lease = derivation[d0].lease /\ l.state = derivation[d0].state
        /\ l.settled = derivation[d0].settled
        /\ derivation[d0].aborted => l.aborted
    BY <2>1 DEF left, HeldRegistry
  <2> HIDE DEF l
  <2>3. shared(d0) => derivation'[d0] = l
    BY <1>7 DEF l
  <2> QED BY <1>6, <1>7, <2>2, <2>3
<1>9. \A d \in Readers : shared(d)' = shared(d)
  BY <1>8 DEF shared
<1>10. CatalogueTypeOK'
  BY <1>1, <1>2, <1>7 DEF CatalogueTypeOK
<1>11. StartedOnce'
  <2> SUFFICES ASSUME NEW q \in Readers
               PROVE  /\ op'[q].phase \in {"idle", "decided"} =>
                            /\ op'[q].on = Undefined /\ op'[q].outcome = "none"
                            /\ derivation'[q] = NotStarted
                      /\ op'[q].phase = "waiting" => op'[q].on # Undefined
                      /\ op'[q].on # Undefined =>
                            /\ derivation'[op'[q].on].state # "none"
                            /\ op'[q].on = q \/ derivation'[op'[q].on].lease # Undefined
                      /\ derivation'[q].state = "none" => derivation'[q].lease = Undefined
    BY DEF StartedOnce, NotStarted, shared
  <2>1. op[q].on # Undefined => op[q].on \in Readers
    BY DEF CatalogueTypeOK, Progress
  <2>2. derivation[q] = NotStarted => ~shared(q)
    BY DEF NotStarted, shared
  <2>3. derivation[q] = NotStarted => derivation'[q] = derivation[q]
    BY <1>6, <1>7, <2>2
  <2> QED BY <1>2, <1>8, <2>1, <2>3 DEF StartedOnce, shared
<1>12. WaitersAreCounted'
  <2>1. ASSUME NEW d \in Readers, shared(d)
        PROVE  derivation'[d].waiting = Cardinality(waiters(d)')
    <3>1. CASE d = d0
      BY <1>5, <1>8, <2>1, <3>1 DEF WaitersAreCounted
    <3>2. CASE d # d0
      BY <1>4, <1>6, <2>1, <3>2 DEF WaitersAreCounted
    <3> QED BY <3>1, <3>2
  <2> QED BY <1>9, <2>1 DEF WaitersAreCounted
<1>13. LeaseHoldsIt'
  BY <1>1, <1>8 DEF LeaseHoldsIt, shared, CatalogueTypeOK, Lease
<1>14. AnswersResolved'
  BY <1>2, <1>8 DEF AnswersResolved, CatalogueTypeOK, Progress
<1>15. NoWorkForNobody'
  <2>1. ASSUME NEW d \in Readers, shared(d), derivation[d].state = "deriving",
               waiters(d)' = {}
        PROVE  derivation'[d].aborted
    <3>1. CASE d = d0
      <4>1. ~derivation[d].settled
        BY <2>1 DEF LeaseHoldsIt
      <4>2. derivation[d0].waiting = 1
        <5>1. Cardinality(waiters(d0)') = 0
          BY <2>1, <3>1, FS_EmptySet
        <5> QED BY <1>5, <2>1, <3>1, <5>1 DEF WaitersAreCounted
      <4> QED BY <1>8, <2>1, <3>1, <4>1, <4>2
    <3>2. CASE d # d0
      BY <1>4, <1>6, <2>1, <3>2 DEF NoWorkForNobody
    <3> QED BY <3>1, <3>2
  <2> QED BY <1>8, <1>9, <2>1 DEF NoWorkForNobody
<1> QED BY <1>10, <1>11, <1>12, <1>13, <1>14, <1>15

(* A derivation ends, or its promise settles; an operation that derives    *)
(* alone hands its signal on.                                              *)
LEMMA EndingKeepsInv ==
    ASSUME CatInv, NEW d0 \in Readers,
           \/ Ends(d0) \/ Settles(d0)
           \/ Aborts(d0) /\ ~shared(op[d0].on)
    PROVE  CatInv'
<1> USE DEF CatInv
<1>1. /\ UNCHANGED <<ended, current, op>>
      /\ \A d \in Readers \ {d0} : derivation'[d] = derivation[d]
      /\ derivation[d0].state # "none" /\ derivation'[d0] \in HeldRegistry
      /\ derivation' \in [Readers -> HeldRegistry]
      /\ derivation'[d0].lease = derivation[d0].lease
      /\ derivation'[d0].waiting = derivation[d0].waiting
      /\ derivation'[d0].state # "none"
      /\ derivation'[d0].state = derivation[d0].state \/ derivation[d0].state = "deriving"
      /\ derivation'[d0].state = "deriving" => derivation[d0].state = "deriving"
      /\ derivation[d0].settled => derivation'[d0].settled
      /\ derivation'[d0].settled =>
            derivation'[d0].state \in {"resolved", "failed", "cancelled"}
      /\ shared(d0) => derivation'[d0].aborted = derivation[d0].aborted
  <2>1. CASE Ends(d0)
    <3>1. PICK state \in {"resolved", "failed", "cancelled"} :
             derivation' = [derivation EXCEPT ![d0].state = state]
      BY <2>1 DEF Ends
    <3> QED BY <2>1, <3>1 DEF Ends, CatalogueTypeOK, HeldRegistry
  <2>2. CASE Settles(d0)
    BY <2>2 DEF Settles, CatalogueTypeOK, HeldRegistry
  <2>3. CASE Aborts(d0) /\ ~shared(op[d0].on)
    <3>1. op[d0].on = d0 /\ derivation[d0].state # "none"
      BY <2>3 DEF Aborts, StartedOnce, CatalogueTypeOK, Progress
    <3>2. derivation' = [derivation EXCEPT ![d0].aborted = TRUE] /\ ~shared(d0)
      BY <2>3, <3>1 DEF Aborts
    <3>3. derivation[d0].settled => derivation[d0].state \in {"resolved", "failed", "cancelled"}
      BY DEF LeaseHoldsIt
    <3> QED BY <2>3, <3>1, <3>2, <3>3 DEF Aborts, CatalogueTypeOK, HeldRegistry
  <2> QED BY <2>1, <2>2, <2>3
<1>2. /\ lease' \in [Leases -> Lease]
      /\ \A t \in Leases :
           \/ lease'[t].registry = lease[t].registry
           \/ /\ lease'[t].registry = Undefined /\ lease[t].registry = d0
              /\ derivation'[d0].settled /\ derivation'[d0].state # "resolved"
  <2>1. CASE UNCHANGED lease
    BY <2>1 DEF CatalogueTypeOK
  <2>2. CASE Settles(d0) /\ shared(d0)
    <3>1. derivation[d0].lease \in Leases
      BY <2>2 DEF shared, CatalogueTypeOK, HeldRegistry
    <3>2. /\ lease' = [lease EXCEPT ![derivation[d0].lease].registry = keeping(@, d0)]
          /\ derivation'[d0].settled /\ derivation'[d0].state = derivation[d0].state
      BY <2>2, <1>1 DEF Settles, CatalogueTypeOK, HeldRegistry
    <3> QED BY <3>1, <3>2 DEF keeping, CatalogueTypeOK, Lease
  <2> QED BY <2>1, <2>2 DEF Ends, Settles, Aborts
<1>3. \A d \in Readers : shared(d)' = shared(d) /\ waiters(d)' = waiters(d)
  BY <1>1, WaitersStay DEF shared
<1>4. CatalogueTypeOK'
  BY <1>1, <1>2 DEF CatalogueTypeOK
<1>5. StartedOnce'
  <2>1. \A q \in Readers : op[q].on # Undefined => op[q].on \in Readers
    BY DEF CatalogueTypeOK, Progress
  <2>2. derivation[d0] # NotStarted
    BY <1>1 DEF NotStarted
  <2> QED BY <1>1, <1>3, <2>1, <2>2 DEF StartedOnce, shared, NotStarted
<1>6. WaitersAreCounted'
  <2>1. \A d \in Readers : derivation'[d].waiting = derivation[d].waiting
    BY <1>1
  <2> QED BY <1>3, <2>1 DEF WaitersAreCounted
<1>7. LeaseHoldsIt'
  <2>1. \A d \in Readers : derivation'[d].lease = derivation[d].lease
    BY <1>1
  <2>2. \A t \in Leases : lease'[t].registry # Undefined => derivation'[lease'[t].registry].lease = t
    BY <1>2, <2>1 DEF LeaseHoldsIt, CatalogueTypeOK, Lease
  <2>3. ASSUME NEW d \in Readers, shared(d), derivation'[d].state = "resolved" \/ ~derivation'[d].settled
        PROVE  lease'[derivation[d].lease].registry = d
    <3>1. derivation[d].lease \in Leases
      BY <2>3 DEF shared, CatalogueTypeOK, HeldRegistry
    <3>2. derivation[d].state = "resolved" \/ ~derivation[d].settled
      BY <1>1, <2>3 DEF LeaseHoldsIt, CatalogueTypeOK, HeldRegistry
    <3>3. lease[derivation[d].lease].registry = d
      BY <2>3, <3>2 DEF LeaseHoldsIt
    <3> QED BY <1>2, <2>3, <3>1, <3>3
  <2>4. \A d \in Readers : derivation'[d].settled => derivation'[d].state \in {"resolved", "failed", "cancelled"}
    BY <1>1 DEF LeaseHoldsIt
  <2> QED BY <1>3, <2>1, <2>2, <2>3, <2>4 DEF LeaseHoldsIt
<1>8. AnswersResolved'
  BY <1>1 DEF AnswersResolved, CatalogueTypeOK, Progress
<1>9. NoWorkForNobody'
  BY <1>1, <1>3 DEF NoWorkForNobody
<1> QED BY <1>4, <1>5, <1>6, <1>7, <1>8, <1>9

(* The table changes hands.                                                *)
LEMMA TurnsKeepInv ==
    ASSUME CatInv,
           \/ (\E t \in Leases : TurnOpens(t)) \/ TurnCloses \/ UNCHANGED catalogueVars
    PROVE  CatInv'
<1>1. UNCHANGED <<lease, derivation, op>>
  BY DEF TurnOpens, TurnCloses, catalogueVars
<1>2. ended' \subseteq Leases /\ current' \in Leases \union {Undefined}
  BY DEF CatInv, CatalogueTypeOK, TurnOpens, TurnCloses, catalogueVars
<1>3. CatalogueTypeOK'
  BY <1>1, <1>2 DEF CatInv, CatalogueTypeOK
<1> QED
  BY <1>1, <1>3 DEF CatInv, StartedOnce, WaitersAreCounted, LeaseHoldsIt, AnswersResolved,
                    NoWorkForNobody, waiters, shared

LEMMA CatNextKeepsInv ==
    ASSUME CatInv, [CatalogueNext]_catalogueVars
    PROVE  CatInv'
<1>1. CASE \E t \in Leases : TurnOpens(t)
  BY <1>1, TurnsKeepInv
<1>2. CASE TurnCloses \/ UNCHANGED catalogueVars
  BY <1>2, TurnsKeepInv
<1>3. ASSUME NEW p \in Readers, ReaderSteps(p) PROVE CatInv'
  <2>1. CASE DerivesAlone(p) \/ HoldsRegistry(p)
    BY <2>1, StartingKeepsInv
  <2>2. CASE JoinsRegistry(p)
    BY <2>2, JoiningKeepsInv
  <2>3. CASE Leaves(p)
    BY <2>3, LeavingKeepsInv
  <2>4. CASE Aborts(p)
    BY <2>4, AsideKeepsInv, EndingKeepsInv
  <2>5. CASE Begin(p) \/ Wakes(p) \/ Publishes(p) \/ Records(p) \/ Throws(p)
    BY <2>5, AsideKeepsInv
  <2> QED BY <1>3, <2>1, <2>2, <2>3, <2>4, <2>5 DEF ReaderSteps
<1>4. ASSUME NEW d \in Readers, Ends(d) \/ Settles(d) PROVE CatInv'
  BY <1>4, EndingKeepsInv
<1> QED BY <1>1, <1>2, <1>3, <1>4 DEF CatalogueNext

(* However operations abort, join and retry, a derivation under way is     *)
(* awaited or has been told to stop (#resolveToolRegistry).                *)
THEOREM NoDerivationIsOrphaned == CatalogueSpec => []NoWorkForNobody
<1>1. CatInv => NoWorkForNobody
  BY DEF CatInv
<1> QED BY <1>1, CatalogueStarts, CatNextKeepsInv, PTL DEF CatalogueSpec

LEMMA ResolvedIsHeld ==
    ASSUME CatInv
    PROVE  TurnReadsOneCatalogue
<1> SUFFICES ASSUME NEW p \in Readers, NEW q \in Readers,
                    op[p].outcome = "resolved", op[q].outcome = "resolved",
                    shared(op[p].on),
                    derivation[op[p].on].lease = derivation[op[q].on].lease
             PROVE  op[p].on = op[q].on
  BY DEF TurnReadsOneCatalogue
<1>1. op[p].on \in Readers /\ op[q].on \in Readers
  BY DEF CatInv, AnswersResolved, CatalogueTypeOK, Progress
<1>2. shared(op[q].on)
  BY DEF shared
<1> QED BY <1>1, <1>2 DEF CatInv, AnswersResolved, LeaseHoldsIt

(* The lease keeps the derivation that resolved, so all that a turn's      *)
(* operations were answered came of that one (#holdRegistry).              *)
THEOREM OneCataloguePerTurn == CatalogueSpec => []TurnReadsOneCatalogue
<1> QED BY ResolvedIsHeld, CatalogueStarts, CatNextKeepsInv, PTL DEF CatalogueSpec

LEMMA CancelsBehindTheLast ==
    ASSUME CatInv, [CatalogueNext]_catalogueVars, NEW d \in Readers,
           shared(d), ~derivation[d].aborted, derivation'[d].aborted
    PROVE  waiters(d)' = {} /\ ~derivation[d].settled
<1>1. derivation[d] \in HeldRegistry /\ derivation \in [Readers -> HeldRegistry]
  BY DEF CatInv, CatalogueTypeOK
<1>2. ASSUME UNCHANGED derivation PROVE FALSE
  BY <1>2
<1>3. ASSUME NEW p \in Readers, DerivesAlone(p) \/ HoldsRegistry(p) PROVE FALSE
  <2>1. derivation'[p].aborted = FALSE
    BY <1>1, <1>3 DEF DerivesAlone, HoldsRegistry, started
  <2>2. p # d => derivation'[d] = derivation[d]
    BY <1>1, <1>3 DEF DerivesAlone, HoldsRegistry
  <2> QED BY <2>1, <2>2
<1>4. ASSUME NEW p \in Readers, JoinsRegistry(p) PROVE FALSE
  <2>1. derivation'[d] = derivation[d] \/ derivation'[d] = joining(derivation[d])
    BY <1>1, <1>4 DEF JoinsRegistry
  <2> QED BY <1>1, <2>1 DEF joining, HeldRegistry
<1>5. ASSUME NEW p \in Readers, Aborts(p) PROVE FALSE
  <2>1. op[p].on # Undefined => op[p].on = p \/ shared(op[p].on)
    BY DEF CatInv, StartedOnce
  <2>2. op[p].on # Undefined
    BY <1>5 DEF Aborts, CatInv, StartedOnce
  <2>3. CASE shared(op[p].on)
    BY <1>2, <1>5, <2>3 DEF Aborts
  <2>4. CASE ~shared(op[p].on)
    <3>1. p # d
      BY <2>1, <2>2, <2>4
    <3> QED BY <1>1, <1>5, <2>4, <3>1 DEF Aborts
  <2> QED BY <2>3, <2>4
<1>6. ASSUME NEW p \in Readers, Leaves(p)
      PROVE  waiters(d)' = {} /\ ~derivation[d].settled
  <2>1. shared(op[p].on) /\ op[p].on = d
    BY <1>1, <1>6 DEF Leaves, CatInv, CatalogueTypeOK, Progress, StartedOnce
  <2>2. derivation'[d] = left(derivation[d])
    BY <1>1, <1>6, <2>1 DEF Leaves
  <2>3. derivation[d].waiting = 1 /\ ~derivation[d].settled
    BY <1>1, <2>2 DEF left, HeldRegistry
  <2>4. /\ \A q \in Readers \ {p} : op'[q] = op[q]
        /\ op[p].phase = "waiting" /\ op'[p].phase # "waiting"
    BY <1>6 DEF Leaves, CatInv, CatalogueTypeOK, Progress
  <2>5. p \in waiters(d) /\ Cardinality(waiters(d)) = 1
    BY <2>1, <2>3, <2>4 DEF CatInv, WaitersAreCounted, waiters
  <2>6. waiters(d)' = waiters(d) \ {p} /\ waiters(d) \ {p} = {}
    BY <2>4, <2>5, WaitersOf DEF CatInv
  <2> QED BY <2>3, <2>6
<1>7. ASSUME NEW c \in Readers, Ends(c) \/ Settles(c) PROVE FALSE
  <2>1. derivation'[d].aborted = derivation[d].aborted
    BY <1>1, <1>7 DEF Ends, Settles, HeldRegistry
  <2> QED BY <2>1
<1> QED
  BY <1>2, <1>3, <1>4, <1>5, <1>6, <1>7
  DEF CatalogueNext, ReaderSteps, catalogueVars, TurnOpens, TurnCloses, Begin,
      Wakes, Publishes, Records, Throws

(* One caller's abort is not another's: a shared derivation is cancelled   *)
(* by the last of those that waited on it, and before it has settled.      *)
THEOREM CancelledByTheLastToLeave == CatalogueSpec => CancelledOnceAllHaveGone
<1>1. CatInv /\ [CatalogueNext]_catalogueVars =>
        [\A d \in Readers : shared(d) /\ ~derivation[d].aborted /\ derivation'[d].aborted
            => waiters(d)' = {} /\ ~derivation[d].settled]_catalogueVars
  BY CancelsBehindTheLast
<1> QED
  BY <1>1, CatalogueStarts, CatNextKeepsInv, PTL DEF CatalogueSpec, CancelledOnceAllHaveGone

=============================================================================
