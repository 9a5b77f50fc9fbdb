-------------------------- MODULE InvocationProofs --------------------------
(***************************************************************************)
(* Invocation, for any number of calls nested in any way: what is acted on *)
(* was recorded, what claims no effect had none, uses bind, and the trail  *)
(* is complete and agrees with what callers were told.                     *)
(***************************************************************************)
EXTENDS Invocation, FiniteSetTheorems, TLAPS

early == {"idle", "checking", "deciding"}

(* One operation and its records, from what it has come to.                *)
Sound(o, t, isReported) ==
    /\ o.phase = "idle" <=> o.kind = None
    /\ o.phase \in {"idle", "checking"} => o.grant = "none"
    /\ o.phase \in early => o.port = "none" /\ t.outcome = "none" /\ o.kind # "dispatch"
    /\ o.phase \in {"allowed", "running", "closing"} => t.outcome = "none"
    /\ o.phase \in {"allowed", "running"} =>
           o.kind = "dispatch" \/ t.decision = "allowed"
    /\ o.phase = "allowed" => o.port = "none"
    /\ o.phase = "running" => o.port # "none"
    /\ o.port # "none" => o.kind = "dispatch" \/ t.decision = "allowed"
    /\ o.answer = "audit_none" => o.port = "none"
    /\ t.outcome # "none" => o.answer # None /\ t.outcome = outcomeOf(o.answer)
    /\ o.phase = "reporting" => isReported
    /\ o.phase = "ended" =>
           \/ t.outcome # "none" \/ isReported \/ ~host.hook \/ o.kind = "admit"
           \/ o.port = "none" /\ o.answer \in {"aborted", "audit_none"}

(* A nested operation has begun only because its outer port was entered.   *)
Nested(c) ==
    /\ op[c].phase # "idle" /\ OuterOf[c] # None => op[OuterOf[c]].port # "none"
    /\ op[c].kind = "dispatch" => OuterOf[c] # None /\ op[OuterOf[c]].kind = "tool"

(* Uses are spent by decisions, one each. *)
onBounded == {c \in Calls : op[c].grant = "bounded"}

(* Operations whose record is late have an answer to be recorded.          *)
LateAreAnswered == \A c \in late : op[c].answer # None /\ op[c].phase \in {"reporting", "ended"}

IInv ==
    /\ TypeOK
    /\ \A c \in Calls : Sound(op[c], trail[c], c \in reported)
    /\ \A c \in Calls : Nested(c)
    /\ LateAreAnswered
    /\ used = Cardinality(onBounded)

-----------------------------------------------------------------------------
(* One operation moves                                                     *)

(* What begins, begins inside a port that was entered. *)
BeginsInside(c, o) ==
    /\ OuterOf[c] # None => op[OuterOf[c]].port # "none"
    /\ o.kind = "dispatch" => OuterOf[c] # None /\ op[OuterOf[c]].kind = "tool"

(* A move of one operation that forgets neither its kind nor its port and  *)
(* leaves it sound leaves all of them sound.                               *)
LEMMA OperationMoves ==
    ASSUME IInv, NEW c \in Calls, NEW o \in Operation, NEW t \in Trail,
           op' = [op EXCEPT ![c] = o], trail' = [trail EXCEPT ![c] = t],
           host' = host, aborted' \subseteq Signals, used' \in 0..MaxUses,
           late' \subseteq late \union {c}, reported' \subseteq Calls,
           \A d \in Calls \ {c} : d \in reported' <=> d \in reported,
           o.phase \in {"closing", "reporting", "ended"} <=> o.answer # None,
           Sound(o, t, c \in reported'),
           op[c].kind # None => o.kind = op[c].kind,
           op[c].port # "none" => o.port # "none",
           op[c].phase # "idle" \/ BeginsInside(c, o),
           c \in late' => o.phase \in {"reporting", "ended"}
    PROVE  /\ TypeOK'
           /\ \A d \in Calls : Sound(op[d], trail[d], d \in reported)'
           /\ \A d \in Calls : Nested(d)'
           /\ LateAreAnswered'
<1> USE DEF IInv
<1>1. op'[c] = o /\ trail'[c] = t
  BY DEF TypeOK
<1>2. \A d \in Calls \ {c} : op'[d] = op[d] /\ trail'[d] = trail[d]
  BY DEF TypeOK
<1>3. TypeOK'
  <2>1. op' \in [Calls -> Operation] /\ trail' \in [Calls -> Trail]
    BY DEF TypeOK
  <2>2. \A d \in Calls :
          op'[d].phase \in {"closing", "reporting", "ended"} <=> op'[d].answer # None
    BY <1>1, <1>2 DEF TypeOK
  <2> QED
    BY <2>1, <2>2 DEF TypeOK
<1>4. ASSUME NEW d \in Calls PROVE Sound(op[d], trail[d], d \in reported)'
  <2>1. CASE d = c
    BY <2>1, <1>1 DEF Sound
  <2>2. CASE d # c
    BY <2>2, <1>2 DEF Sound
  <2> QED
    BY <2>1, <2>2
<1>5. ASSUME NEW d \in Calls PROVE Nested(d)'
  <2>1. \A e \in Calls : op[e].port # "none" => op'[e].port # "none"
    BY <1>1, <1>2
  <2>2. \A e \in Calls : op[e].kind = "tool" => op'[e].kind = "tool"
    <3>1. "tool" # None
      BY InvocationAssumption DEF Kinds
    <3> QED
      BY <1>1, <1>2, <3>1
  <2>3. OuterOf[d] \in Calls \union {None}
    BY InvocationAssumption
  <2>4. CASE d = c
    <3>1. BeginsInside(c, o)
      <4>1. CASE op[c].phase # "idle"
        <5>1. op[c].kind # None
          BY <4>1 DEF Sound
        <5> QED
          BY <4>1, <5>1 DEF Nested, BeginsInside
      <4> QED
        BY <4>1
    <3> QED
      BY <2>1, <2>2, <2>3, <2>4, <3>1, <1>1 DEF Nested, BeginsInside
  <2>5. CASE d # c
    BY <2>1, <2>2, <2>3, <2>5, <1>2 DEF Nested
  <2> QED
    BY <2>4, <2>5
<1>6. LateAreAnswered'
  BY <1>1, <1>2, <1>3 DEF LateAreAnswered, TypeOK
<1> QED
  BY <1>3, <1>4, <1>5, <1>6

(* A move that spends nothing leaves the count as it was.                  *)
LEMMA CountKept ==
    ASSUME IInv, NEW c \in Calls, NEW o \in Operation,
           op' = [op EXCEPT ![c] = o], o.grant = op[c].grant, used' = used
    PROVE  used' = Cardinality(onBounded)'
<1>1. \A d \in Calls : op'[d].grant = op[d].grant
  BY DEF IInv, TypeOK
<1>2. onBounded' = onBounded
  BY <1>1 DEF onBounded
<1> QED
  BY <1>2 DEF IInv

(* A move that writes no record and has no late one.                       *)
LEMMA QuietMove ==
    ASSUME IInv, NEW c \in Calls, NEW o \in Operation, Becomes(c, o),
           UNCHANGED <<host, aborted, used, trail, late, reported>>,
           o.grant = op[c].grant,
           o.phase \in {"closing", "reporting", "ended"} <=> o.answer # None,
           Sound(o, trail[c], c \in reported),
           op[c].kind # None => o.kind = op[c].kind,
           op[c].port # "none" => o.port # "none",
           op[c].phase # "idle" \/ BeginsInside(c, o),
           c \in late => o.phase \in {"reporting", "ended"}
    PROVE  IInv'
<1>1. op' = [op EXCEPT ![c] = o]
  BY DEF Becomes
<1>2. trail[c] \in Trail /\ trail' = [trail EXCEPT ![c] = trail[c]]
  BY DEF IInv, TypeOK
<1>3. aborted' \subseteq Signals /\ used' \in 0..MaxUses /\ late' \subseteq late \union {c}
      /\ reported' \subseteq Calls
  BY DEF IInv, TypeOK
<1>4. /\ TypeOK'
      /\ \A d \in Calls : Sound(op[d], trail[d], d \in reported)'
      /\ \A d \in Calls : Nested(d)'
      /\ LateAreAnswered'
  BY <1>1, <1>2, <1>3, OperationMoves
<1>5. used' = Cardinality(onBounded)'
  BY <1>1, CountKept
<1> QED
  BY <1>4, <1>5 DEF IInv

LEMMA Typed ==
    ASSUME IInv, NEW c \in Calls
    PROVE  /\ op[c] \in Operation
           /\ trail[c] \in Trail
           /\ Sound(op[c], trail[c], c \in reported)
           /\ Nested(c)
           /\ op[c].phase \in {"closing", "reporting", "ended"} <=> op[c].answer # None
           /\ c \in late => op[c].phase \in {"reporting", "ended"}
BY DEF IInv, TypeOK, LateAreAnswered

LEMMA BeginKeeps ==
    ASSUME IInv, NEW c \in Calls, NEW kind \in Kinds, Begin(c, kind)
    PROVE  IInv'
<1> DEFINE b == [op[c] EXCEPT !.kind = kind,
                              !.phase = IF kind = "dispatch" THEN "allowed" ELSE "checking"]
           o == IF stopped(c) /\ kind # "dispatch" THEN ending(b, "aborted") ELSE b
<1>1. op[c].phase = "idle" /\ mayBegin(c, kind) /\ Becomes(c, o)
      /\ UNCHANGED <<host, aborted, used, trail, late, reported>>
  BY DEF Begin
<1>2. kind # None /\ "aborted" # None
  BY InvocationAssumption DEF Answers
<1>3. o \in Operation /\ o.grant = op[c].grant /\ o.kind = kind /\ o.port = op[c].port
  BY Typed DEF Operation, ending, Answers, Results
<1>4. o.phase \in {"closing", "reporting", "ended"} <=> o.answer # None
  BY <1>1, <1>2, Typed DEF Operation, ending
<1>5. Sound(o, trail[c], c \in reported)
  BY <1>1, <1>2, Typed DEF Operation, Trail, ending, Sound, early
<1>6. BeginsInside(c, o)
  <2>1. OuterOf[c] # None => OuterOf[c] \in Calls /\ op[OuterOf[c]].port # "none"
    BY <1>1, InvocationAssumption, Typed DEF mayBegin, Sound
  <2> QED
    BY <1>1, <1>3, <2>1 DEF mayBegin, BeginsInside
<1>7. op[c].kind = None /\ c \notin late /\ op[c].port = "none"
  BY <1>1, Typed DEF Sound, early
<1> HIDE DEF o
<1> QED
  BY <1>1, <1>3, <1>4, <1>5, <1>6, <1>7, QuietMove

LEMMA RefusesKeeps ==
    ASSUME IInv, NEW c \in Calls, Refuses(c)
    PROVE  IInv'
<1>1. PICK o : Becomes(c, o) /\ \E answer \in {"denied", "failed"} : o = closing(op[c], answer)
  BY DEF Refuses
<1>2. op[c].phase = "checking" /\ op[c].kind # "admit"
  BY DEF Refuses
<1>3. UNCHANGED <<host, aborted, used, trail, late, reported>>
  BY DEF Refuses
<1>4. "aborted" # None /\ "audit_none" # None /\ "audit_unknown" # None
      /\ \A result \in Results : result # None
  BY InvocationAssumption DEF Answers
<1>5. o \in Operation /\ o.grant = op[c].grant /\ o.kind = op[c].kind
  BY <1>1, Typed DEF Operation, Answers, Results, closing, ending
<1>6. o.phase \in {"closing", "reporting", "ended"} <=> o.answer # None
  BY <1>1, <1>2, <1>4, Typed DEF Operation, closing, ending, Results
<1>7. op[c].port # "none" => o.port # "none"
  BY <1>1, Typed DEF Operation, closing, ending
<1>8. Sound(o, trail[c], c \in reported)
  BY <1>1, <1>2, <1>4, Typed DEF Operation, Trail, closing, ending, Sound, early, outcomeOf, Results
<1>9. op[c].phase # "idle" /\ (c \in late => o.phase \in {"reporting", "ended"})
  BY <1>2, Typed
<1> QED
  BY <1>1, <1>3, <1>5, <1>6, <1>7, <1>8, <1>9, QuietMove

LEMMA ThrowsEarlyKeeps ==
    ASSUME IInv, NEW c \in Calls, ThrowsEarly(c)
    PROVE  IInv'
<1>1. PICK o : Becomes(c, o) /\ (o = ending(op[c], "audit_none") \/ o = ending(op[c], "aborted"))
  BY DEF ThrowsEarly
<1>2. op[c].phase = "checking"
  BY DEF ThrowsEarly
<1>3. UNCHANGED <<host, aborted, used, trail, late, reported>>
  BY DEF ThrowsEarly
<1>4. "aborted" # None /\ "audit_none" # None /\ "audit_unknown" # None
      /\ \A result \in Results : result # None
  BY InvocationAssumption DEF Answers
<1>5. o \in Operation /\ o.grant = op[c].grant /\ o.kind = op[c].kind
  BY <1>1, Typed, ZenonT(60) DEF Operation, Answers, Results, closing, ending
<1>6. o.phase \in {"closing", "reporting", "ended"} <=> o.answer # None
  BY <1>1, <1>2, <1>4, Typed DEF Operation, closing, ending, Results
<1>7. op[c].port # "none" => o.port # "none"
  BY <1>1, Typed DEF Operation, closing, ending
<1>8. Sound(o, trail[c], c \in reported)
  BY <1>1, <1>2, <1>4, Typed, ZenonT(60)
     DEF Operation, Trail, closing, ending, Sound, early, outcomeOf, Results
<1>9. op[c].phase # "idle" /\ (c \in late => o.phase \in {"reporting", "ended"})
  BY <1>2, Typed
<1> QED
  BY <1>1, <1>3, <1>5, <1>6, <1>7, <1>8, <1>9, QuietMove

LEMMA NoPortKeeps ==
    ASSUME IInv, NEW c \in Calls, NoPort(c)
    PROVE  IInv'
<1>1. PICK o : Becomes(c, o) /\ o = closing(op[c], "failed")
  BY DEF NoPort
<1>2. op[c].phase = "allowed"
  BY DEF NoPort
<1>3. UNCHANGED <<host, aborted, used, trail, late, reported>>
  BY DEF NoPort
<1>4. "aborted" # None /\ "audit_none" # None /\ "audit_unknown" # None
      /\ \A result \in Results : result # None
  BY InvocationAssumption DEF Answers
<1>5. o \in Operation /\ o.grant = op[c].grant /\ o.kind = op[c].kind
  BY <1>1, Typed DEF Operation, Answers, Results, closing, ending
<1>6. o.phase \in {"closing", "reporting", "ended"} <=> o.answer # None
  BY <1>1, <1>2, <1>4, Typed DEF Operation, closing, ending, Results
<1>7. op[c].port # "none" => o.port # "none"
  BY <1>1, Typed DEF Operation, closing, ending
<1>8. Sound(o, trail[c], c \in reported)
  BY <1>1, <1>2, <1>4, Typed DEF Operation, Trail, closing, ending, Sound, early, outcomeOf, Results
<1>9. op[c].phase # "idle" /\ (c \in late => o.phase \in {"reporting", "ended"})
  BY <1>2, Typed
<1> QED
  BY <1>1, <1>3, <1>5, <1>6, <1>7, <1>8, <1>9, QuietMove

LEMMA EntersPortKeeps ==
    ASSUME IInv, NEW c \in Calls, EntersPort(c)
    PROVE  IInv'
<1>1. PICK o : Becomes(c, o) /\ (\/ o = ending(op[c], "aborted")
                                 \/ o = [op[c] EXCEPT !.phase = "running", !.port = "entered"])
  BY DEF EntersPort
<1>2. op[c].phase = "allowed"
  BY DEF EntersPort
<1>3. UNCHANGED <<host, aborted, used, trail, late, reported>>
  BY DEF EntersPort
<1>4. "aborted" # None /\ "audit_none" # None /\ "audit_unknown" # None
      /\ \A result \in Results : result # None
  BY InvocationAssumption DEF Answers
<1>5. o \in Operation /\ o.grant = op[c].grant /\ o.kind = op[c].kind
  BY <1>1, Typed, ZenonT(60) DEF Operation, Answers, Results, closing, ending
<1>6. o.phase \in {"closing", "reporting", "ended"} <=> o.answer # None
  BY <1>1, <1>2, <1>4, Typed DEF Operation, closing, ending, Results
<1>7. op[c].port # "none" => o.port # "none"
  BY <1>1, Typed DEF Operation, closing, ending
<1>8. Sound(o, trail[c], c \in reported)
  BY <1>1, <1>2, <1>4, Typed, ZenonT(60)
     DEF Operation, Trail, closing, ending, Sound, early, outcomeOf, Results
<1>9. op[c].phase # "idle" /\ (c \in late => o.phase \in {"reporting", "ended"})
  BY <1>2, Typed
<1> QED
  BY <1>1, <1>3, <1>5, <1>6, <1>7, <1>8, <1>9, QuietMove

LEMMA PortActsKeeps ==
    ASSUME IInv, NEW c \in Calls, PortActs(c)
    PROVE  IInv'
<1>1. PICK o : Becomes(c, o) /\ o = [op[c] EXCEPT !.port = "acted"]
  BY DEF PortActs
<1>2. op[c].phase = "running"
  BY DEF PortActs
<1>3. UNCHANGED <<host, aborted, used, trail, late, reported>>
  BY DEF PortActs
<1>4. "aborted" # None /\ "audit_none" # None /\ "audit_unknown" # None
      /\ \A result \in Results : result # None
  BY InvocationAssumption DEF Answers
<1>5. o \in Operation /\ o.grant = op[c].grant /\ o.kind = op[c].kind
  BY <1>1, Typed DEF Operation, Answers, Results, closing, ending
<1>6. o.phase \in {"closing", "reporting", "ended"} <=> o.answer # None
  BY <1>1, <1>2, <1>4, Typed DEF Operation, closing, ending, Results
<1>7. op[c].port # "none" => o.port # "none"
  BY <1>1, Typed DEF Operation, closing, ending
<1>8. Sound(o, trail[c], c \in reported)
  BY <1>1, <1>2, <1>4, Typed DEF Operation, Trail, closing, ending, Sound, early, outcomeOf, Results
<1>9. op[c].phase # "idle" /\ (c \in late => o.phase \in {"reporting", "ended"})
  BY <1>2, Typed
<1> QED
  BY <1>1, <1>3, <1>5, <1>6, <1>7, <1>8, <1>9, QuietMove

LEMMA PortReturnsKeeps ==
    ASSUME IInv, NEW c \in Calls, PortReturns(c)
    PROVE  IInv'
<1>1. PICK o : Becomes(c, o) /\ \E answer \in Results : o = closing(op[c], answer)
  BY DEF PortReturns
<1>2. op[c].phase = "running"
  BY DEF PortReturns
<1>3. UNCHANGED <<host, aborted, used, trail, late, reported>>
  BY DEF PortReturns
<1>4. "aborted" # None /\ "audit_none" # None /\ "audit_unknown" # None
      /\ \A result \in Results : result # None
  BY InvocationAssumption DEF Answers
<1>5. o \in Operation /\ o.grant = op[c].grant /\ o.kind = op[c].kind
  BY <1>1, Typed DEF Operation, Answers, Results, closing, ending
<1>6. o.phase \in {"closing", "reporting", "ended"} <=> o.answer # None
  BY <1>1, <1>2, <1>4, Typed DEF Operation, closing, ending, Results
<1>7. op[c].port # "none" => o.port # "none"
  BY <1>1, Typed DEF Operation, closing, ending
<1>8. Sound(o, trail[c], c \in reported)
  BY <1>1, <1>2, <1>4, Typed DEF Operation, Trail, closing, ending, Sound, early, outcomeOf, Results
<1>9. op[c].phase # "idle" /\ (c \in late => o.phase \in {"reporting", "ended"})
  BY <1>2, Typed
<1> QED
  BY <1>1, <1>3, <1>5, <1>6, <1>7, <1>8, <1>9, QuietMove

LEMMA PortThrowsKeeps ==
    ASSUME IInv, NEW c \in Calls, PortThrows(c)
    PROVE  IInv'
<1>1. PICK o : Becomes(c, o) /\ \E answer \in {"aborted", "failed"} : o = closing(op[c], answer)
  BY DEF PortThrows, throws
<1>2. op[c].phase = "running"
  BY DEF PortThrows
<1>3. UNCHANGED <<host, aborted, used, trail, late, reported>>
  BY DEF PortThrows, throws
<1>4. "aborted" # None /\ "audit_none" # None /\ "audit_unknown" # None
      /\ \A result \in Results : result # None
  BY InvocationAssumption DEF Answers
<1>5. o \in Operation /\ o.grant = op[c].grant /\ o.kind = op[c].kind
  BY <1>1, Typed DEF Operation, Answers, Results, closing, ending
<1>6. o.phase \in {"closing", "reporting", "ended"} <=> o.answer # None
  BY <1>1, <1>2, <1>4, Typed DEF Operation, closing, ending, Results
<1>7. op[c].port # "none" => o.port # "none"
  BY <1>1, Typed DEF Operation, closing, ending
<1>8. Sound(o, trail[c], c \in reported)
  BY <1>1, <1>2, <1>4, Typed DEF Operation, Trail, closing, ending, Sound, early, outcomeOf, Results
<1>9. op[c].phase # "idle" /\ (c \in late => o.phase \in {"reporting", "ended"})
  BY <1>2, Typed
<1> QED
  BY <1>1, <1>3, <1>5, <1>6, <1>7, <1>8, <1>9, QuietMove

LEMMA PortLosesAuditKeeps ==
    ASSUME IInv, NEW c \in Calls, PortLosesAudit(c)
    PROVE  IInv'
<1>1. PICK o : Becomes(c, o) /\ o = closing(op[c], "audit_unknown")
  BY DEF PortLosesAudit, losesAudit
<1>2. op[c].phase = "running"
  BY DEF PortLosesAudit
<1>3. UNCHANGED <<host, aborted, used, trail, late, reported>>
  BY DEF PortLosesAudit, losesAudit
<1>4. "aborted" # None /\ "audit_none" # None /\ "audit_unknown" # None
      /\ \A result \in Results : result # None
  BY InvocationAssumption DEF Answers
<1>5. o \in Operation /\ o.grant = op[c].grant /\ o.kind = op[c].kind
  BY <1>1, Typed DEF Operation, Answers, Results, closing, ending
<1>6. o.phase \in {"closing", "reporting", "ended"} <=> o.answer # None
  BY <1>1, <1>2, <1>4, Typed DEF Operation, closing, ending, Results
<1>7. op[c].port # "none" => o.port # "none"
  BY <1>1, Typed DEF Operation, closing, ending
<1>8. Sound(o, trail[c], c \in reported)
  BY <1>1, <1>2, <1>4, Typed DEF Operation, Trail, closing, ending, Sound, early, outcomeOf, Results
<1>9. op[c].phase # "idle" /\ (c \in late => o.phase \in {"reporting", "ended"})
  BY <1>2, Typed
<1> QED
  BY <1>1, <1>3, <1>5, <1>6, <1>7, <1>8, <1>9, QuietMove

LEMMA DecidesKeeps ==
    ASSUME IInv, NEW c \in Calls, NEW decision \in {"allowed", "denied"},
           NEW grant \in {"none", "bounded", "unbounded"}, Decides(c, decision, grant)
    PROVE  IInv'
<1> DEFINE o == [op[c] EXCEPT !.phase = "deciding", !.decision = decision, !.grant = grant]
<1>1. /\ op[c].phase = "checking"
      /\ op' = [op EXCEPT ![c] = o]
      /\ grant = "bounded" => used < MaxUses
      /\ used' = IF grant = "bounded" THEN used + 1 ELSE used
      /\ UNCHANGED <<host, aborted, trail, late, reported>>
  BY DEF Decides, spends, Becomes
<1>2. used \in 0..MaxUses /\ used' \in 0..MaxUses
  <2>1. used \in 0..MaxUses /\ MaxUses \in Nat
    BY InvocationAssumption DEF IInv, TypeOK
  <2> QED
    BY <1>1, <2>1
<1>3. o \in Operation /\ o.kind = op[c].kind /\ o.port = op[c].port /\ o.grant = grant
      /\ o.phase = "deciding" /\ o.answer = op[c].answer
  BY Typed DEF Operation
<1>4. Sound(o, trail[c], c \in reported) /\ o.answer = None
  BY <1>1, <1>3, Typed DEF Operation, Trail, Sound, early
<1>5. trail[c] \in Trail /\ trail' = [trail EXCEPT ![c] = trail[c]] /\ aborted' \subseteq Signals
      /\ late' \subseteq late \union {c} /\ reported' \subseteq Calls
  BY <1>1 DEF IInv, TypeOK
<1>6. c \notin late
  BY <1>1, Typed
<1>7. op'[c].grant = grant /\ \A d \in Calls \ {c} : op'[d].grant = op[d].grant
  BY <1>1, <1>3 DEF IInv, TypeOK
<1>8. used' = Cardinality(onBounded)'
  <2>1. op[c].grant = "none"
    BY <1>1, Typed DEF Sound
  <2>2. IsFiniteSet(onBounded) /\ used = Cardinality(onBounded)
    BY InvocationAssumption, FS_Subset DEF onBounded, IInv
  <2>3. CASE grant = "bounded"
    <3>1. onBounded' = onBounded \union {c} /\ c \notin onBounded
      BY <1>7, <2>1, <2>3 DEF onBounded
    <3>2. Cardinality(onBounded \union {c}) = Cardinality(onBounded) + 1
      BY <2>2, <3>1, FS_AddElement
    <3> QED
      BY <1>1, <2>2, <2>3, <3>1, <3>2
  <2>4. CASE grant # "bounded"
    <3>1. onBounded' = onBounded
      BY <1>7, <2>1, <2>4 DEF onBounded
    <3> QED
      BY <1>1, <2>2, <2>4, <3>1
  <2> QED
    BY <2>3, <2>4
<1> HIDE DEF o
<1>9. /\ TypeOK'
      /\ \A d \in Calls : Sound(op[d], trail[d], d \in reported)'
      /\ \A d \in Calls : Nested(d)'
      /\ LateAreAnswered'
  BY <1>1, <1>2, <1>3, <1>4, <1>5, <1>6, OperationMoves
<1> QED
  BY <1>8, <1>9 DEF IInv

(* A move that writes the trail.                                           *)
LEMMA RecordingMove ==
    ASSUME IInv, NEW c \in Calls, NEW o \in Operation, NEW t \in Trail, Becomes(c, o),
           trail' = [trail EXCEPT ![c] = t],
           UNCHANGED <<host, aborted, used>>,
           late' \subseteq late \union {c}, reported' \subseteq Calls,
           \A d \in Calls \ {c} : d \in reported' <=> d \in reported,
           o.grant = op[c].grant, o.kind = op[c].kind, o.port = op[c].port,
           op[c].phase # "idle",
           o.phase \in {"closing", "reporting", "ended"} <=> o.answer # None,
           Sound(o, t, c \in reported'),
           c \in late' => o.phase \in {"reporting", "ended"}
    PROVE  IInv'
<1>1. op' = [op EXCEPT ![c] = o]
  BY DEF Becomes
<1>2. aborted' \subseteq Signals /\ used' \in 0..MaxUses
  BY DEF IInv, TypeOK
<1>3. /\ TypeOK'
      /\ \A d \in Calls : Sound(op[d], trail[d], d \in reported)'
      /\ \A d \in Calls : Nested(d)'
      /\ LateAreAnswered'
  BY <1>1, <1>2, OperationMoves
<1>4. used' = Cardinality(onBounded)'
  BY <1>1, CountKept
<1> QED
  BY <1>3, <1>4 DEF IInv

LEMMA DecisionRecordedKeeps ==
    ASSUME IInv, NEW c \in Calls, DecisionRecorded(c)
    PROVE  IInv'
<1> DEFINE o == decided(op[c])
           t == [trail[c] EXCEPT !.decision = op[c].decision]
<1>1. op[c].phase = "deciding" /\ Becomes(c, o) /\ trail' = [trail EXCEPT ![c] = t]
      /\ UNCHANGED <<host, aborted, used, late, reported>>
  BY DEF DecisionRecorded
<1>2. \A result \in Results : result # None
  BY InvocationAssumption DEF Answers
<1>3. o \in Operation /\ o.grant = op[c].grant /\ o.kind = op[c].kind /\ o.port = op[c].port
  BY Typed DEF Operation, decided, closing, ending, Answers, Results
<1>4. t \in Trail /\ t.decision = op[c].decision /\ t.outcome = trail[c].outcome
  BY Typed DEF Operation, Trail
<1>5. o.phase \in {"closing", "reporting", "ended"} <=> o.answer # None
  BY <1>1, <1>2, Typed DEF Operation, decided, closing, ending, Results
<1>6. Sound(o, t, c \in reported)
  BY <1>1, <1>2, <1>4, Typed DEF Operation, decided, closing, ending, Sound, early, Results
<1>7. c \notin late /\ reported \subseteq Calls
  BY <1>1, Typed DEF IInv, TypeOK
<1> HIDE DEF o, t
<1> QED
  BY <1>1, <1>3, <1>4, <1>5, <1>6, <1>7, RecordingMove

LEMMA DecisionUnrecordedKeeps ==
    ASSUME IInv, NEW c \in Calls, DecisionUnrecorded(c)
    PROVE  IInv'
<1>1. op[c].phase = "deciding" /\ Becomes(c, ending(op[c], "audit_none"))
      /\ UNCHANGED <<host, aborted, used, late, reported>>
  BY DEF DecisionUnrecorded, undecided
<1>2. PICK written \in {"none", op[c].decision} :
         trail' = [trail EXCEPT ![c] = [trail[c] EXCEPT !.decision = written]]
  BY DEF DecisionUnrecorded
<1> DEFINE o == ending(op[c], "audit_none")
           t == [trail[c] EXCEPT !.decision = written]
<1>3. o \in Operation /\ o.grant = op[c].grant /\ o.kind = op[c].kind /\ o.port = op[c].port
      /\ o.phase = "ended" /\ o.answer = "audit_none"
  BY Typed DEF Operation, ending, Answers
<1>4. t \in Trail /\ t.outcome = trail[c].outcome
  BY Typed DEF Operation, Trail
<1>5. "audit_none" # None
  BY InvocationAssumption DEF Answers
<1>6. Sound(o, t, c \in reported)
  BY <1>1, <1>3, <1>4, <1>5, Typed DEF Sound, early
<1>7. c \notin late /\ reported \subseteq Calls
  BY <1>1, Typed DEF IInv, TypeOK
<1> HIDE DEF o
<1> QED
  BY <1>1, <1>2, <1>3, <1>4, <1>5, <1>6, <1>7, RecordingMove DEF o

(* What is recorded of an answer is never nothing.                         *)
LEMMA OutcomeTyped ==
    ASSUME NEW answer \in Answers
    PROVE  outcomeOf(answer) \in Results \union {"interrupted"} /\ outcomeOf(answer) # "none"
BY DEF outcomeOf, Results

LEMMA OutcomeRecordedKeeps ==
    ASSUME IInv, NEW c \in Calls, OutcomeRecorded(c)
    PROVE  IInv'
<1> DEFINE o == ending(op[c], op[c].answer)
           t == [trail[c] EXCEPT !.outcome = outcomeOf(op[c].answer)]
<1>1. op[c].phase = "closing" /\ Becomes(c, o) /\ trail' = [trail EXCEPT ![c] = t]
      /\ UNCHANGED <<host, aborted, used, late, reported>>
  BY DEF OutcomeRecorded
<1>2. op[c].answer # None /\ op[c].answer \in Answers
  BY <1>1, Typed DEF Operation
<1>3. o \in Operation /\ o.grant = op[c].grant /\ o.kind = op[c].kind /\ o.port = op[c].port
      /\ o.phase = "ended" /\ o.answer = op[c].answer
  BY Typed DEF Operation, ending
<1>4. t \in Trail /\ t.decision = trail[c].decision /\ t.outcome = outcomeOf(op[c].answer)
      /\ t.outcome # "none"
  BY <1>2, Typed, OutcomeTyped DEF Trail
<1>5. Sound(o, t, c \in reported)
  BY <1>1, <1>2, <1>3, <1>4, Typed DEF Sound, early
<1>6. c \notin late /\ reported \subseteq Calls
  BY <1>1, Typed DEF IInv, TypeOK
<1> HIDE DEF o, t
<1> QED
  BY <1>1, <1>2, <1>3, <1>4, <1>5, <1>6, RecordingMove

(* Losing a record changes where an operation is, and who has been told.   *)
LEMMA UnrecordedIsSound ==
    ASSUME IInv, NEW c \in Calls, op[c].phase = "closing", Unrecorded(c),
           NEW t \in Trail, t.decision = trail[c].decision,
           t.outcome = trail[c].outcome \/ t.outcome = outcomeOf(op[c].answer)
    PROVE  /\ unrecorded(op[c]) \in Operation
           /\ unrecorded(op[c]).grant = op[c].grant /\ unrecorded(op[c]).kind = op[c].kind
           /\ unrecorded(op[c]).port = op[c].port
           /\ unrecorded(op[c]).phase \in {"reporting", "ended"}
           /\ unrecorded(op[c]).answer # None
           /\ reported' \subseteq Calls
           /\ \A d \in Calls \ {c} : d \in reported' <=> d \in reported
           /\ Sound(unrecorded(op[c]), t, c \in reported')
<1> DEFINE o == unrecorded(op[c])
<1>1. op[c].answer # None
  BY Typed
<1>2. o \in Operation /\ o.grant = op[c].grant /\ o.kind = op[c].kind /\ o.port = op[c].port
      /\ o.answer = op[c].answer /\ o.phase = IF host.hook THEN "reporting" ELSE "ended"
  BY Typed DEF Operation, unrecorded
<1>3. reported' = IF host.hook THEN reported \union {c} ELSE reported
  BY DEF Unrecorded
<1>4. reported \subseteq Calls
  BY DEF IInv, TypeOK
<1>5. Sound(o, t, c \in reported')
  BY <1>1, <1>2, <1>3, Typed DEF Sound, early
<1> HIDE DEF o
<1> QED
  BY <1>1, <1>2, <1>3, <1>4, <1>5 DEF o

LEMMA OutcomeFailsKeeps ==
    ASSUME IInv, NEW c \in Calls, OutcomeFails(c)
    PROVE  IInv'
<1>1. op[c].phase = "closing" /\ Unrecorded(c) /\ Becomes(c, unrecorded(op[c]))
      /\ UNCHANGED <<host, aborted, used, late>>
  BY DEF OutcomeFails, Unrecorded
<1>2. PICK written \in {"none", outcomeOf(op[c].answer)} :
         trail' = [trail EXCEPT ![c] = [trail[c] EXCEPT !.outcome = written]]
  BY DEF OutcomeFails
<1> DEFINE t == [trail[c] EXCEPT !.outcome = written]
<1>3. op[c].answer \in Answers /\ trail[c].outcome = "none"
  BY <1>1, Typed DEF Operation, Sound
<1>4. t \in Trail /\ t.decision = trail[c].decision /\ t.outcome = written
  BY <1>3, Typed, OutcomeTyped DEF Trail
<1>5. c \notin late
  BY <1>1, Typed
<1> HIDE DEF t
<1> QED
  BY <1>1, <1>2, <1>3, <1>4, <1>5, UnrecordedIsSound, RecordingMove DEF t

LEMMA OutcomeLateKeeps ==
    ASSUME IInv, NEW c \in Calls, OutcomeLate(c)
    PROVE  IInv'
<1>1. op[c].phase = "closing" /\ Unrecorded(c) /\ Becomes(c, unrecorded(op[c]))
      /\ late' = late \union {c} /\ UNCHANGED <<host, aborted, used, trail>>
  BY DEF OutcomeLate, Unrecorded
<1>2. trail[c] \in Trail /\ trail' = [trail EXCEPT ![c] = trail[c]]
  BY <1>1 DEF IInv, TypeOK
<1> QED
  BY <1>1, <1>2, UnrecordedIsSound, RecordingMove

LEMMA LateWriteKeeps ==
    ASSUME IInv, NEW c \in Calls, LateWrite(c)
    PROVE  IInv'
<1> DEFINE t == [trail[c] EXCEPT !.outcome = outcomeOf(op[c].answer)]
<1>1. c \in late /\ late' = late \ {c} /\ trail' = [trail EXCEPT ![c] = t]
      /\ UNCHANGED <<host, aborted, used, op, reported>>
  BY DEF LateWrite
<1>2. op[c].answer # None /\ op[c].answer \in Answers /\ op[c].phase \in {"reporting", "ended"}
  BY <1>1, Typed DEF Operation
<1>3. t \in Trail /\ t.decision = trail[c].decision /\ t.outcome = outcomeOf(op[c].answer)
      /\ t.outcome # "none"
  BY <1>2, Typed, OutcomeTyped DEF Trail
<1>4. Sound(op[c], t, c \in reported)
  BY <1>2, <1>3, Typed DEF Sound, early
<1>5. Becomes(c, op[c]) /\ reported \subseteq Calls
  BY <1>1 DEF Becomes, IInv, TypeOK
<1> HIDE DEF t
<1> QED
  BY <1>1, <1>2, <1>3, <1>4, <1>5, Typed, RecordingMove

LEMMA ReportingEndsKeeps ==
    ASSUME IInv, NEW c \in Calls, reportingEnds(c)
    PROVE  IInv'
<1> DEFINE o == ending(op[c], op[c].answer)
<1>1. op[c].phase = "reporting" /\ Becomes(c, o)
      /\ UNCHANGED <<host, aborted, used, trail, late, reported>>
  BY DEF reportingEnds
<1>2. o \in Operation /\ o.grant = op[c].grant /\ o.kind = op[c].kind /\ o.port = op[c].port
      /\ o.phase = "ended" /\ o.answer = op[c].answer
  BY Typed DEF Operation, ending
<1>3. op[c].answer # None
  BY <1>1, Typed
<1>4. Sound(o, trail[c], c \in reported)
  BY <1>1, <1>2, Typed DEF Sound, early
<1> HIDE DEF o
<1> QED
  BY <1>1, <1>2, <1>3, <1>4, QuietMove

LEMMA AbortKeeps ==
    ASSUME IInv, NEW signal \in Signals, Abort(signal)
    PROVE  IInv'
<1>1. aborted' \subseteq Signals
  BY DEF Abort, IInv, TypeOK
<1>2. UNCHANGED <<host, used, op, trail, late, reported>>
  BY DEF Abort
<1> QED
  BY <1>1, <1>2 DEF IInv, TypeOK, Sound, Nested, LateAreAnswered, onBounded

-----------------------------------------------------------------------------
(* The invariant, and what follows from it                                 *)

LEMMA InitIsSound == Init => IInv
<1> SUFFICES ASSUME Init PROVE IInv
  OBVIOUS
<1>1. \A c \in Calls : op[c] = [phase |-> "idle", kind |-> None, decision |-> "none",
                                grant |-> "none", port |-> "none", answer |-> None]
  BY DEF Init
<1>2. \A c \in Calls : trail[c] = [decision |-> "none", outcome |-> "none"]
  BY DEF Init
<1>3. None # "dispatch" /\ None # "audit_none"
  BY InvocationAssumption DEF Kinds, Answers
<1>4. TypeOK
  BY InvocationAssumption DEF Init, TypeOK, Operation, Trail
<1>5. \A c \in Calls : Sound(op[c], trail[c], c \in reported) /\ Nested(c)
  BY <1>1, <1>2, <1>3 DEF Sound, Nested, early
<1>6. onBounded = {}
  BY <1>1 DEF onBounded
<1>7. used = Cardinality(onBounded)
  BY <1>6, FS_EmptySet DEF Init
<1> QED
  BY <1>4, <1>5, <1>7 DEF IInv, LateAreAnswered, Init

(* Every step of every operation, and every abort, keeps the invariant.    *)
THEOREM InductiveInvariant == Spec => []IInv
<1>1. ASSUME IInv, [Next]_vars PROVE IInv'
  <2>1. CASE \E signal \in Signals : Abort(signal)
    BY <1>1, <2>1, AbortKeeps
  <2>2. CASE \E c \in Calls : Steps(c)
    <3> PICK c \in Calls : Steps(c)
      BY <2>2
    <3>1. CASE \E kind \in Kinds : Begin(c, kind)
      BY <1>1, <3>1, BeginKeeps
    <3>2. CASE \E decision \in {"allowed", "denied"}, grant \in {"none", "bounded", "unbounded"} :
                 Decides(c, decision, grant)
      BY <1>1, <3>2, DecidesKeeps
    <3>3. CASE Refuses(c) \/ ThrowsEarly(c) \/ NoPort(c) \/ EntersPort(c)
      BY <1>1, <3>3, RefusesKeeps, ThrowsEarlyKeeps, NoPortKeeps, EntersPortKeeps
    <3>4. CASE PortActs(c) \/ PortReturns(c) \/ PortThrows(c) \/ PortLosesAudit(c)
      BY <1>1, <3>4, PortActsKeeps, PortReturnsKeeps, PortThrowsKeeps, PortLosesAuditKeeps
    <3>5. CASE DecisionRecorded(c) \/ DecisionUnrecorded(c)
      BY <1>1, <3>5, DecisionRecordedKeeps, DecisionUnrecordedKeeps
    <3>6. CASE OutcomeRecorded(c) \/ OutcomeFails(c) \/ OutcomeLate(c) \/ LateWrite(c)
      BY <1>1, <3>6, OutcomeRecordedKeeps, OutcomeFailsKeeps, OutcomeLateKeeps, LateWriteKeeps
    <3>7. CASE HookEnds(c) \/ HookLate(c)
      BY <1>1, <3>7, ReportingEndsKeeps DEF HookEnds, HookLate
    <3> QED
      BY <3>1, <3>2, <3>3, <3>4, <3>5, <3>6, <3>7 DEF Steps
  <2>3. CASE UNCHANGED vars
    BY <1>1, <2>3 DEF vars, IInv, TypeOK, Sound, Nested, LateAreAnswered, onBounded
  <2> QED
    BY <1>1, <2>1, <2>2, <2>3 DEF Next
<1> QED
  BY <1>1, InitIsSound, PTL DEF Spec

THEOREM TypeCorrect == Spec => []TypeOK
<1>1. IInv => TypeOK
  BY DEF IInv
<1> QED
  BY <1>1, InductiveInvariant, PTL

(* A dispatch stands on its tool call, whose port was entered on an allow. *)
LEMMA DeciderAllowed ==
    ASSUME IInv, NEW c \in Calls, op[c].port # "none"
    PROVE  trail[decider(c)].decision = "allowed"
<1>1. CASE op[c].kind # "dispatch"
  BY <1>1, Typed DEF Sound, decider
<1>2. CASE op[c].kind = "dispatch"
  <2>1. op[c].phase # "idle"
    BY <1>2, Typed DEF Sound, early
  <2>2. OuterOf[c] \in Calls /\ op[OuterOf[c]].kind = "tool" /\ op[OuterOf[c]].port # "none"
    BY <1>2, <2>1, Typed, InvocationAssumption DEF Nested
  <2> QED
    BY <1>2, <2>2, Typed DEF Sound, decider
<1> QED
  BY <1>1, <1>2

(* No port is entered but on an allow the trail holds, however deep the    *)
(* call is nested (#recordDecision).                                       *)
THEOREM ActsOnlyOnRecords == Spec => []ActsOnRecordedAllow
<1>1. IInv => ActsOnRecordedAllow
  BY DeciderAllowed DEF ActsOnRecordedAllow
<1> QED
  BY <1>1, InductiveInvariant, PTL

(* An outage that claims no effect had none, its nested calls included     *)
(* (AuditUnavailableError.effect).                                         *)
THEOREM NoneIsHonest == Spec => []NoneMeansNothingRan
<1>1. IInv => NoneMeansNothingRan
  <2> SUFFICES ASSUME IInv, NEW c \in Calls, op[c].answer = "audit_none"
               PROVE  /\ op[c].port = "none"
                      /\ \A n \in Calls : OuterOf[n] = c => op[n].phase = "idle"
    BY DEF NoneMeansNothingRan
  <2>1. op[c].port = "none"
    BY Typed DEF Sound
  <2>2. ASSUME NEW n \in Calls, OuterOf[n] = c PROVE op[n].phase = "idle"
    BY <2>1, <2>2, Typed, InvocationAssumption DEF Nested
  <2> QED
    BY <2>1, <2>2
<1> QED
  BY <1>1, InductiveInvariant, PTL

(* The ports entered on the bounded grant are no more than its uses.       *)
THEOREM UsesBind == Spec => []OperationsWithinBudget
<1>1. IInv => OperationsWithinBudget
  <2> SUFFICES ASSUME IInv PROVE OperationsWithinBudget
    OBVIOUS
  <2> DEFINE reached == {c \in Calls : op[c].grant = "bounded" /\ op[c].port # "none"}
  <2>1. reached \subseteq onBounded /\ onBounded \subseteq Calls
    BY DEF onBounded
  <2>2. IsFiniteSet(onBounded)
    BY <2>1, InvocationAssumption, FS_Subset
  <2>3. Cardinality(reached) <= Cardinality(onBounded)
        /\ Cardinality(reached) \in Nat /\ Cardinality(onBounded) \in Nat
    BY <2>1, <2>2, FS_Subset, FS_CardinalityType
  <2>4. Cardinality(onBounded) <= MaxUses /\ MaxUses \in Nat
    BY InvocationAssumption DEF IInv, TypeOK
  <2> HIDE DEF reached
  <2>5. Cardinality(reached) <= MaxUses
    BY <2>3, <2>4
  <2> QED
    BY <2>5 DEF reached, OperationsWithinBudget
<1> QED
  BY <1>1, InductiveInvariant, PTL

(* What was allowed is followed up in the trail or with the host           *)
(* (#invokePort, #recordOutcome).                                          *)
THEOREM TrailCompletes == Spec => []TrailIsComplete
<1>1. IInv => TrailIsComplete
  BY Typed DEF TrailIsComplete, Sound
<1> QED
  BY <1>1, InductiveInvariant, PTL

(* The trail never tells another story than the caller was told.           *)
THEOREM TrailAgrees == Spec => []TrailMatchesAnswers
<1>1. IInv => TrailMatchesAnswers
  BY Typed DEF TrailMatchesAnswers, Sound
<1> QED
  BY <1>1, InductiveInvariant, PTL

=============================================================================
