------------------------- MODULE HarnessTurnProofs -------------------------
(***************************************************************************)
(* A turn served over MCP, for any posts, batches and catalogues, and a    *)
(* harness that behaves in any way: each request of a post is answered     *)
(* once, an ask for a human is the last thing the host's tools see, and    *)
(* the turn ends as the harness was told it would.                         *)
(***************************************************************************)
EXTENDS HarnessTurn, FiniteSetTheorems, TLAPS

Places == {"unsent", "handling", "catalog", "host", "answered", "dropped"}

Words == {"result", "error", "accepted", "escalation_pending"}

Answers == [to : Nat, word : Words]

PostRecords ==
    [at : Places, of : Seq(Messages), body : Seq(Messages), answers : Seq(Answers)]

(* What is left of a post's batch is its end, ...                          *)
done(r) == Len(r.of) - Len(r.body)

IsRest(r) ==
    /\ Len(r.body) <= Len(r.of)
    /\ \A i \in 1..Len(r.body) : r.body[i] = r.of[done(r) + i]

requestsDone(r) == {i \in 1..done(r) : expects(r.of[i])}

answered(answers) == {answers[i].to : i \in DOMAIN answers}

(* ... and a post that nobody dropped has answers to the requests before,  *)
(* in their order.                                                         *)
IsServed(r) ==
    /\ r \in PostRecords
    /\ IsRest(r)
    /\ InOrder(r.answers) /\ answered(r.answers) \subseteq 1..Len(r.of)
    /\ r.at # "dropped" => answered(r.answers) = requestsDone(r)
    /\ r.at \in {"catalog", "host"} => r.body # <<>> /\ expects(Head(r.body))
    /\ r.at \in {"unsent", "answered"} => r.body = <<>>
    /\ r.at = "unsent" => r = noPost

PostsAreServed == post \in [Posts -> PostRecords] /\ \A p \in Posts : IsServed(post[p])

(* The latch and what was answered of calls agree.                         *)
LatchCounts ==
    /\ asked \in BOOLEAN /\ askNoted \in BOOLEAN /\ closed \in BOOLEAN
    /\ \A word \in Words : IsFiniteSet(answersOf(word))
    /\ Cardinality(answersOf("accepted")) = IF asked THEN 1 ELSE 0
    /\ Cardinality(answersOf("escalation_pending")) = afterwards
    /\ asked => askNoted

(* What the latch said it said of calls, once it had taken an ask: a call  *)
(* that left for the host had left before.                                 *)
unlatched(answers) == \A i \in DOMAIN answers : answers[i].word \notin latchWords

LatchIsTold ==
    \A p \in Posts :
      /\ TrueToTheLatch(askingNames, post[p].of, post[p].answers)
      /\ post[p].at = "host" => unlatched(post[p].answers)
      /\ unlatched(post[p].answers) \/ asked

(* A turn that returned closed its bridge first, on what the latch held.   *)
EndedOnTheLatch ==
    outcome \notin {None, "thrown"} =>
      /\ closed
      /\ outcome = "escalate" <=> asked
      /\ counted = afterwards

ServerInv == PostsAreServed /\ LatchCounts

Inv == ServerInv /\ LatchIsTold /\ TypeOK /\ EndedOnTheLatch

-----------------------------------------------------------------------------
(* A batch, one message at a time.                                         *)

LEMMA TailOfRest ==
    ASSUME NEW r \in PostRecords, IsRest(r), r.body # <<>>
    PROVE  /\ Head(r.body) = r.of[done(r) + 1]
           /\ Tail(r.body) \in Seq(Messages) /\ Head(r.body) \in Messages
           /\ Len(Tail(r.body)) = Len(r.body) - 1
           /\ done(r) \in Nat /\ Len(r.body) \in Nat \ {0}
           /\ \A i \in 1..(Len(r.body) - 1) : Tail(r.body)[i] = r.of[done(r) + 1 + i]
<1>1. r.body \in Seq(Messages) /\ r.of \in Seq(Messages)
  BY DEF PostRecords
<1>2. Len(r.body) \in Nat \ {0} /\ Len(r.of) \in Nat
  BY <1>1
<1>3. \A i \in 1..(Len(r.body) - 1) : Tail(r.body)[i] = r.body[i + 1]
  BY <1>1
<1>4. ASSUME NEW i \in 1..(Len(r.body) - 1)
      PROVE  Tail(r.body)[i] = r.of[done(r) + 1 + i]
  <2> DEFINE n == Len(r.body)
             k == done(r)
  <2>1. n \in Nat /\ k \in Int
    BY <1>2 DEF done
  <2> HIDE DEF n, k
  <2>2. i + 1 \in 1..n /\ k + (i + 1) = k + 1 + i
    BY <2>1 DEF n
  <2>3. r.body[i + 1] = r.of[done(r) + (i + 1)]
    BY <2>2 DEF IsRest, n
  <2> QED BY <1>3, <2>2, <2>3 DEF k
<1>5. Head(r.body) = r.body[1]
  BY <1>1
<1>6. done(r) \in Nat
  BY <1>2 DEF IsRest, done
<1>7. r.body[1] = r.of[done(r) + 1]
  BY <1>2 DEF IsRest
<1>8. Tail(r.body) \in Seq(Messages) /\ Len(Tail(r.body)) = Len(r.body) - 1 /\ r.body[1] \in Messages
  BY <1>1, <1>2
<1> QED
  BY <1>2, <1>4, <1>5, <1>6, <1>7, <1>8

(* The next message, taken up and put behind.                              *)
behind(r, answers) ==
    [at |-> "handling", of |-> r.of, body |-> Tail(r.body), answers |-> answers]

LEMMA DoneOneMore ==
    ASSUME NEW r, IsServed(r), r.body # <<>>, r.at # "dropped",
           NEW answers \in Seq(Answers)
    PROVE  LET s == behind(r, answers) IN
           /\ s \in PostRecords /\ IsRest(s) /\ s.at = "handling" /\ s.answers = answers
           /\ s.of = r.of /\ done(r) \in Nat /\ (done(r) + 1) \in 1..Len(r.of)
           /\ answered(r.answers) = requestsDone(r)
           /\ requestsDone(s) = IF expects(Head(r.body)) THEN requestsDone(r) \union {done(r) + 1}
                                ELSE requestsDone(r)
<1> DEFINE s == behind(r, answers)
<1>1. /\ r \in PostRecords /\ IsRest(r)
      /\ answered(r.answers) = requestsDone(r)
  BY DEF IsServed
<1>2. /\ s.at = "handling" /\ s.of = r.of /\ s.body = Tail(r.body) /\ s.answers = answers
      /\ s \in PostRecords
  BY <1>1, TailOfRest DEF behind, PostRecords, Places
<1>3. Len(r.of) \in Nat
  BY <1>1 DEF PostRecords
<1> HIDE DEF s
<1>4. done(r) \in Nat /\ Len(r.body) \in Nat /\ Len(s.body) = Len(r.body) - 1
  BY <1>1, <1>2, TailOfRest
<1>5. done(s) = done(r) + 1
  <2>1. Len(s.of) = Len(r.of)
    BY <1>2
  <2> QED BY <2>1, <1>3, <1>4 DEF done
<1>6. IsRest(s)
  <2>1. Len(s.body) <= Len(s.of)
    BY <1>1, <1>2, <1>3, <1>4 DEF IsRest
  <2>2. \A i \in 1..Len(s.body) : s.body[i] = s.of[done(s) + i]
    BY <1>1, <1>2, <1>4, <1>5, TailOfRest
  <2> QED BY <2>1, <2>2 DEF IsRest
<1>7. (done(r) + 1) \in 1..Len(r.of)
  <2>1. Len(r.body) \in Nat \ {0} /\ done(r) = Len(r.of) - Len(r.body)
    BY <1>1, TailOfRest DEF done
  <2>2. \A n, b, d \in Int : b > 0 /\ d >= 0 /\ d = n - b => d + 1 \in 1..n
    OBVIOUS
  <2>3. Len(r.of) \in Int /\ Len(r.body) \in Int /\ Len(r.body) > 0 /\ done(r) \in Int
        /\ done(r) >= 0
    BY <1>3, <1>4, <2>1
  <2> HIDE DEF done
  <2> QED BY <2>1, <2>2, <2>3
<1>9. requestsDone(s) = IF expects(Head(r.body)) THEN requestsDone(r) \union {done(r) + 1}
                        ELSE requestsDone(r)
  <2>1. 1..done(s) = (1..done(r)) \union {done(r) + 1}
    BY <1>4, <1>5
  <2>2. Head(r.body) = r.of[done(r) + 1]
    BY <1>1, TailOfRest
  <2> QED BY <1>2, <2>1, <2>2 DEF requestsDone
<1> QED BY <1>1, <1>2, <1>4, <1>6, <1>7, <1>9 DEF s

(* One answer more, to a later message than the others.                    *)
LEMMA OneMoreInOrder ==
    ASSUME NEW answers \in Seq(Answers), InOrder(answers), NEW n \in Nat,
           \A k \in answered(answers) : k < n + 1, NEW word \in Words,
           NEW x, x = [to |-> n + 1, word |-> word]
    PROVE  /\ x \in Answers
           /\ Append(answers, x) \in Seq(Answers)
           /\ InOrder(Append(answers, x))
           /\ answered(Append(answers, x)) = answered(answers) \union {n + 1}
<1> DEFINE t == Append(answers, x)
           m == Len(answers)
<1>1. x \in Answers /\ x.to = n + 1
  BY DEF Answers
<1>2. /\ t \in Seq(Answers) /\ m \in Nat
      /\ DOMAIN answers = 1..m /\ DOMAIN t = 1..(m + 1)
      /\ \A i \in 1..m : t[i] = answers[i]
      /\ t[m + 1] = x
  BY <1>1
<1> HIDE DEF t, m
<1>3. \A i \in 1..(m + 1) : i \in 1..m \/ i = m + 1
  BY <1>2
<1>4. InOrder(t)
  <2> SUFFICES ASSUME NEW i \in 1..(m + 1), NEW j \in 1..(m + 1), i < j
               PROVE  t[i].to < t[j].to
    BY <1>2 DEF InOrder
  <2>1. i \in 1..m
    BY <1>2
  <2>2. CASE j \in 1..m
    BY <1>2, <2>1, <2>2 DEF InOrder
  <2>3. CASE j = m + 1
    <3>1. answers[i].to \in answered(answers)
      BY <1>2, <2>1 DEF answered
    <3> QED BY <1>1, <1>2, <2>1, <2>3, <3>1
  <2> QED BY <1>3, <2>2, <2>3
<1>5. answered(t) = answered(answers) \union {n + 1}
  <2>1. ASSUME NEW k
        PROVE  k \in answered(t) <=> k \in answered(answers) \/ k = n + 1
    <3>1. k \in answered(t) <=> \E i \in 1..(m + 1) : k = t[i].to
      BY <1>2 DEF answered
    <3>2. k \in answered(answers) <=> \E i \in 1..m : k = answers[i].to
      BY <1>2 DEF answered
    <3>3. m + 1 \in 1..(m + 1) /\ 1..m \subseteq 1..(m + 1)
      BY <1>2
    <3> QED BY <1>1, <1>2, <1>3, <3>1, <3>2, <3>3
  <2> QED BY <2>1
<1> QED BY <1>1, <1>2, <1>4, <1>5 DEF t

LEMMA AnsweredIsServed ==
    ASSUME NEW r, IsServed(r), r.body # <<>>, r.at # "dropped",
           expects(Head(r.body)), NEW word \in Words
    PROVE  /\ answerTo(r, word) \in Answers
           /\ answerTo(r, word).to = done(r) + 1 /\ answerTo(r, word).word = word
           /\ IsServed(behind(r, Append(r.answers, answerTo(r, word))))
<1> DEFINE x == answerTo(r, word)
           t == Append(r.answers, x)
           s == behind(r, t)
<1>1. /\ r.answers \in Seq(Answers) /\ InOrder(r.answers) /\ r.answers \in Seq(Answers)
      /\ answered(r.answers) = requestsDone(r) /\ answered(r.answers) \subseteq 1..Len(r.of)
      /\ IsRest(r) /\ r \in PostRecords
  BY DEF IsServed, PostRecords
<1>2. done(r) \in Nat /\ x = [to |-> done(r) + 1, word |-> word]
  BY <1>1, TailOfRest DEF answerTo, done
<1>3. \A k \in answered(r.answers) : k < done(r) + 1
  BY <1>1, <1>2 DEF requestsDone
<1> HIDE DEF x
<1>4. /\ x \in Answers /\ t \in Seq(Answers) /\ InOrder(t)
      /\ answered(t) = answered(r.answers) \union {done(r) + 1}
  BY <1>1, <1>2, <1>3, OneMoreInOrder
<1> HIDE DEF t
<1>5. /\ s \in PostRecords /\ IsRest(s) /\ s.at = "handling" /\ s.answers = t /\ s.of = r.of
      /\ (done(r) + 1) \in 1..Len(r.of)
      /\ requestsDone(s) = requestsDone(r) \union {done(r) + 1}
  BY <1>4, DoneOneMore
<1> HIDE DEF s
<1>6. IsServed(s)
  BY <1>1, <1>4, <1>5 DEF IsServed
<1>7. x.to = done(r) + 1 /\ x.word = word
  BY <1>2
<1> QED BY <1>4, <1>6, <1>7 DEF s, t, x

LEMMA PassedIsServed ==
    ASSUME NEW r, IsServed(r), r.body # <<>>, r.at # "dropped", ~expects(Head(r.body))
    PROVE  IsServed(behind(r, r.answers))
<1>1. r.answers \in Seq(Answers) /\ InOrder(r.answers) /\ answered(r.answers) \subseteq 1..Len(r.of)
  BY DEF IsServed, PostRecords
<1> DEFINE s == behind(r, r.answers)
<1>2. /\ s \in PostRecords /\ IsRest(s) /\ s.at = "handling" /\ s.answers = r.answers
      /\ s.of = r.of /\ answered(r.answers) = requestsDone(r)
      /\ requestsDone(s) = requestsDone(r)
  BY <1>1, DoneOneMore
<1> QED BY <1>1, <1>2 DEF IsServed

LEMMA MovedIsServed ==
    ASSUME NEW r, IsServed(r), r.at # "dropped", NEW place \in Places \ {"unsent"},
           place \in {"catalog", "host"} => r.body # <<>> /\ expects(Head(r.body)),
           place = "answered" => r.body = <<>>
    PROVE  IsServed([r EXCEPT !.at = place])
<1> DEFINE s == [r EXCEPT !.at = place]
<1>1. /\ s \in PostRecords
      /\ s.at = place /\ s.of = r.of /\ s.body = r.body /\ s.answers = r.answers
  BY DEF IsServed, PostRecords
<1>2. IsRest(s) /\ requestsDone(s) = requestsDone(r)
  BY <1>1 DEF IsServed, IsRest, requestsDone, done
<1> HIDE DEF s
<1>3. IsServed(s)
  BY <1>1, <1>2 DEF IsServed
<1> QED BY <1>3 DEF s

LEMMA DroppedIsServed ==
    ASSUME NEW r, IsServed(r),
           NEW s, s \in PostRecords, s.at = "dropped", s.body = <<>>,
           s.of = r.of, s.answers = r.answers
    PROVE  IsServed(s)
  BY DEF IsServed, IsRest, PostRecords

LEMMA ArrivedIsServed ==
    ASSUME NEW body \in Seq(Messages)
    PROVE  IsServed([at |-> "handling", of |-> body, body |-> body, answers |-> <<>>])
<1> DEFINE s == [at |-> "handling", of |-> body, body |-> body, answers |-> <<>>]
<1>1. /\ s \in PostRecords
      /\ s.at = "handling" /\ s.of = body /\ s.body = body /\ s.answers = <<>>
  BY DEF PostRecords, Places
<1> HIDE DEF s
<1>2. Len(s.of) \in Nat /\ done(s) = 0
  BY <1>1 DEF done
<1>3. IsRest(s)
  BY <1>1, <1>2 DEF IsRest
<1>4. requestsDone(s) = {} /\ answered(s.answers) = {} /\ InOrder(s.answers)
  BY <1>1, <1>2 DEF requestsDone, answered, InOrder
<1>5. IsServed(s)
  BY <1>1, <1>3, <1>4 DEF IsServed
<1> QED BY <1>5 DEF s

-----------------------------------------------------------------------------
(* The answers there are, as posts move and are answered.                  *)

LEMMA AnAnswer ==
    ASSUME NEW word, NEW x
    PROVE  x \in answersOf(word) <=>
             \E p \in Posts : \E i \in DOMAIN post[p].answers :
                x = <<p, i>> /\ post[p].answers[i].word = word
  BY DEF answersOf

LEMMA AnswersKept ==
    ASSUME NEW p \in Posts, post \in [Posts -> PostRecords],
           NEW r, r.answers = post[p].answers,
           post' = [post EXCEPT ![p] = r],
           NEW word
    PROVE  answersOf(word)' = answersOf(word)
<1>1. \A q \in Posts : post'[q].answers = post[q].answers
  BY DEF PostRecords
<1> QED BY <1>1 DEF answersOf

LEMMA AnswersGrow ==
    ASSUME NEW p \in Posts, post \in [Posts -> PostRecords],
           NEW given \in Words, NEW y \in Answers, y.word = given,
           NEW r, r.answers = Append(post[p].answers, y),
           post' = [post EXCEPT ![p] = r],
           NEW word
    PROVE  LET last == <<p, Len(post[p].answers) + 1>> IN
           /\ last \notin answersOf(word)
           /\ answersOf(word)' = IF word = given THEN answersOf(word) \union {last}
                                 ELSE answersOf(word)
<1> DEFINE n == Len(post[p].answers)
           last == <<p, n + 1>>
<1>1. post[p].answers \in Seq(Answers) /\ n \in Nat
  BY DEF PostRecords
<1>2. /\ DOMAIN post[p].answers = 1..n
      /\ DOMAIN r.answers = (1..n) \union {n + 1}
      /\ \A i \in 1..n : r.answers[i] = post[p].answers[i]
      /\ r.answers[n + 1] = y
  BY <1>1
<1>3. /\ \A q \in Posts \ {p} : post'[q] = post[q]
      /\ post'[p].answers = r.answers
  OBVIOUS
<1>4. n + 1 \notin 1..n
  BY <1>1
<1> HIDE DEF n
<1>5. last \notin answersOf(word)
  <2>1. SUFFICES ASSUME NEW q \in Posts, NEW i \in DOMAIN post[q].answers, last = <<q, i>>
                 PROVE  FALSE
    BY AnAnswer
  <2>2. q = p /\ i = n + 1
    BY <2>1
  <2> QED BY <1>2, <1>4, <2>1, <2>2
<1>6. ASSUME NEW x
      PROVE  x \in answersOf(word)' <=> x \in answersOf(word) \/ (word = given /\ x = last)
  <2>1. x \in answersOf(word)' <=>
          \E q \in Posts : \E i \in DOMAIN post'[q].answers :
             x = <<q, i>> /\ post'[q].answers[i].word = word
    BY DEF answersOf
  <2>2. x \in answersOf(word) <=>
          \E q \in Posts : \E i \in DOMAIN post[q].answers :
             x = <<q, i>> /\ post[q].answers[i].word = word
    BY AnAnswer
  <2>3. (\E i \in DOMAIN post'[p].answers : x = <<p, i>> /\ post'[p].answers[i].word = word)
        <=> \/ \E i \in DOMAIN post[p].answers : x = <<p, i>> /\ post[p].answers[i].word = word
            \/ word = given /\ x = last
    BY <1>2, <1>3
  <2> QED BY <1>3, <2>1, <2>2, <2>3
<1>7. answersOf(word)' = IF word = given THEN answersOf(word) \union {last} ELSE answersOf(word)
  BY <1>6
<1> QED BY <1>5, <1>7 DEF n

-----------------------------------------------------------------------------
(* The server's steps, none of which looks further than its own post.      *)

LEMMA AsksHoldTheirMessage ==
    ASSUME NEW p \in Posts, PostsAreServed,
           post[p].at = "handling", post[p].body # <<>>, message(p).method \in {"list", "call"}
    PROVE  expects(Head(post[p].body))
  BY DEF message, expects

LEMMA PostsKeep ==
    ASSUME PostsAreServed, NEW p \in Posts, NEW r, IsServed(r), post' = [post EXCEPT ![p] = r]
    PROVE  PostsAreServed'
<1>1. r \in PostRecords
  BY DEF IsServed
<1>2. post' \in [Posts -> PostRecords]
  BY <1>1 DEF PostsAreServed
<1>3. ASSUME NEW q \in Posts PROVE IsServed(post'[q])
  BY DEF PostsAreServed
<1> QED BY <1>2, <1>3 DEF PostsAreServed

LEMMA LatchKeeps ==
    ASSUME ServerInv, NEW p \in Posts, NEW r, post' = [post EXCEPT ![p] = r],
           \/ r.answers = post[p].answers
           \/ \E y \in Answers : /\ y.word \in {"result", "error"}
                                /\ r.answers = Append(post[p].answers, y),
           UNCHANGED <<closed, latch>>
    PROVE  LatchCounts'
<1>1. post \in [Posts -> PostRecords]
  BY DEF ServerInv, PostsAreServed
<1>2. CASE r.answers = post[p].answers
  <2>1. \A word \in Words : answersOf(word)' = answersOf(word)
    BY <1>1, <1>2, AnswersKept
  <2> QED BY <2>1 DEF ServerInv, LatchCounts, latch, Words
<1>3. ASSUME NEW given \in {"result", "error"}, NEW y \in Answers, y.word = given,
             r.answers = Append(post[p].answers, y)
      PROVE  LatchCounts'
  <2> DEFINE last == <<p, Len(post[p].answers) + 1>>
  <2>1. \A word \in Words : answersOf(word)' = IF word = given THEN answersOf(word) \union {last}
                                 ELSE answersOf(word)
    BY <1>1, <1>3, AnswersGrow DEF Words
  <2> HIDE DEF last
  <2>2. ASSUME NEW word \in Words PROVE IsFiniteSet(answersOf(word)')
    <3>1. IsFiniteSet(answersOf(word))
      BY DEF ServerInv, LatchCounts
    <3>2. IsFiniteSet(answersOf(word) \union {last})
      BY <3>1, FS_AddElement
    <3> QED BY <2>1, <3>1, <3>2
  <2>3. /\ answersOf("accepted")' = answersOf("accepted")
        /\ answersOf("escalation_pending")' = answersOf("escalation_pending")
    BY <2>1 DEF Words
  <2>4. UNCHANGED <<closed, asked, afterwards, askNoted>>
    BY DEF latch
  <2> QED BY <2>2, <2>3, <2>4 DEF ServerInv, LatchCounts
<1> QED BY <1>2, <1>3

LEMMA OneAnswerMore ==
    ASSUME ServerInv, NEW p \in Posts, NEW r, post' = [post EXCEPT ![p] = r],
           NEW given \in Words, NEW y \in Answers, y.word = given,
           r.answers = Append(post[p].answers, y)
    PROVE  /\ \A word \in Words : IsFiniteSet(answersOf(word)')
           /\ \A word \in Words \ {given} : answersOf(word)' = answersOf(word)
           /\ Cardinality(answersOf(given)') = Cardinality(answersOf(given)) + 1
<1> DEFINE last == <<p, Len(post[p].answers) + 1>>
<1>1. /\ last \notin answersOf(given)
      /\ \A word \in Words : answersOf(word)' = IF word = given THEN answersOf(word) \union {last}
                                 ELSE answersOf(word)
  BY AnswersGrow DEF ServerInv, PostsAreServed
<1> HIDE DEF last
<1>2. ASSUME NEW word \in Words
      PROVE  /\ IsFiniteSet(answersOf(word)')
             /\ word = given => Cardinality(answersOf(word)') = Cardinality(answersOf(word)) + 1
  <2>1. IsFiniteSet(answersOf(word))
    BY DEF ServerInv, LatchCounts
  <2>2. /\ IsFiniteSet(answersOf(word) \union {last})
        /\ last \notin answersOf(word) =>
             Cardinality(answersOf(word) \union {last}) = Cardinality(answersOf(word)) + 1
    BY <2>1, FS_AddElement
  <2> QED BY <1>1, <2>1, <2>2
<1> QED BY <1>1, <1>2

(* The two answers of the latch's own are what it counts.                  *)
LEMMA AcceptKeeps ==
    ASSUME ServerInv, NEW p \in Posts, NEW r, post' = [post EXCEPT ![p] = r],
           NEW y \in Answers, y.word = "accepted", r.answers = Append(post[p].answers, y),
           ~asked, asked' = TRUE, askNoted' = TRUE, UNCHANGED <<closed, afterwards>>
    PROVE  LatchCounts'
<1>1. /\ \A word \in Words : IsFiniteSet(answersOf(word)')
      /\ answersOf("escalation_pending")' = answersOf("escalation_pending")
      /\ Cardinality(answersOf("accepted")') = Cardinality(answersOf("accepted")) + 1
  BY OneAnswerMore DEF Words
<1> QED BY <1>1 DEF ServerInv, LatchCounts

LEMMA RefuseKeeps ==
    ASSUME ServerInv, NEW p \in Posts, NEW r, post' = [post EXCEPT ![p] = r],
           NEW y \in Answers, y.word = "escalation_pending",
           r.answers = Append(post[p].answers, y),
           afterwards' = afterwards + 1, UNCHANGED <<closed, asked, askNoted>>
    PROVE  LatchCounts'
<1>1. /\ \A word \in Words : IsFiniteSet(answersOf(word)')
      /\ answersOf("accepted")' = answersOf("accepted")
      /\ Cardinality(answersOf("escalation_pending")')
           = Cardinality(answersOf("escalation_pending")) + 1
  BY OneAnswerMore DEF Words
<1> QED BY <1>1 DEF ServerInv, LatchCounts

(* What a step may make of the post it is about.                           *)
LEMMA MoveKeeps ==
    ASSUME ServerInv, NEW p \in Posts, NEW place \in Places,
           IsServed([post[p] EXCEPT !.at = place]),
           post' = [post EXCEPT ![p] = [post[p] EXCEPT !.at = place]],
           UNCHANGED <<closed, latch>>
    PROVE  ServerInv'
<1> DEFINE s == [post[p] EXCEPT !.at = place]
<1>1. s.answers = post[p].answers
  BY DEF ServerInv, PostsAreServed, PostRecords
<1> HIDE DEF s
<1>2. IsServed(s) /\ post' = [post EXCEPT ![p] = s]
  BY DEF s
<1> QED BY <1>1, <1>2, PostsKeep, LatchKeeps DEF ServerInv

LEMMA DropKeeps ==
    ASSUME ServerInv, NEW p \in Posts, post' = dropped(p), UNCHANGED <<closed, latch>>
    PROVE  ServerInv'
<1>1. PICK s : s = [post[p] EXCEPT !.at = "dropped", !.body = <<>>]
  OBVIOUS
<1>2. post' = [post EXCEPT ![p] = s]
  BY <1>1 DEF dropped, ServerInv, PostsAreServed
<1>3. post[p] \in PostRecords /\ IsServed(post[p])
  BY DEF ServerInv, PostsAreServed
<1>4. /\ s.at = "dropped" /\ s.of = post[p].of /\ s.body = <<>> /\ s.answers = post[p].answers
      /\ s \in PostRecords
  <2>1. PICK t : t = [post[p] EXCEPT !.at = "dropped"]
    OBVIOUS
  <2>2. s = [t EXCEPT !.body = <<>>]
    BY <1>1, <1>3, <2>1 DEF PostRecords
  <2>3. /\ t \in PostRecords
        /\ t.at = "dropped" /\ t.of = post[p].of /\ t.answers = post[p].answers
    BY <1>3, <2>1 DEF PostRecords, Places
  <2>4. /\ s.at = "dropped" /\ s.of = post[p].of /\ s.answers = post[p].answers
        /\ s.body = <<>>
    BY <2>2, <2>3 DEF PostRecords
  <2>5. <<>> \in Seq(Messages)
    OBVIOUS
  <2>6. s \in PostRecords
    BY <2>2, <2>3, <2>5 DEF PostRecords
  <2> QED BY <2>4, <2>6
<1>5. IsServed(s)
  BY <1>3, <1>4, DroppedIsServed
<1> QED BY <1>2, <1>4, <1>5, PostsKeep, LatchKeeps DEF ServerInv

LEMMA AnswerKeeps ==
    ASSUME ServerInv, NEW p \in Posts, NEW given \in {"result", "error"},
           post' = answering(p, given), UNCHANGED <<closed, latch>>,
           post[p].body # <<>>, expects(Head(post[p].body)), post[p].at # "dropped"
    PROVE  ServerInv'
<1> DEFINE y == answerTo(post[p], given)
           s == behind(post[p], Append(post[p].answers, y))
<1>1. post' = [post EXCEPT ![p] = s] /\ s.answers = Append(post[p].answers, y)
  BY DEF answering, behind
<1>2. IsServed(s) /\ y \in Answers /\ y.word = given
  BY AnsweredIsServed DEF ServerInv, PostsAreServed, Words
<1> HIDE DEF s, y
<1> QED BY <1>1, <1>2, PostsKeep, LatchKeeps DEF ServerInv

LEMMA StepKeeps ==
    ASSUME ServerInv, NEW p \in Posts, Serves(p)
    PROVE  ServerInv'
<1> DEFINE r == post[p]
<1>1. PostsAreServed /\ IsServed(r) /\ r \in PostRecords
  BY DEF ServerInv, PostsAreServed
<1>2. CASE AnswersAtOnce(p)
  <2>1. r.body # <<>> /\ r.at = "handling"
    BY <1>2 DEF AnswersAtOnce
  <2>2. CASE message(p).method = "notification"
    <3>1. post' = [post EXCEPT ![p] = behind(r, r.answers)]
      BY <1>2, <2>2 DEF AnswersAtOnce, passingOver, behind
    <3>2. IsServed(behind(r, r.answers))
      BY <1>1, <2>1, <2>2, PassedIsServed DEF expects, message
    <3> QED BY <1>1, <1>2, <3>1, <3>2, PostsKeep, LatchKeeps
            DEF AnswersAtOnce, ServerInv, behind
  <2>3. ASSUME NEW given \in {"result", "error"},
               message(p).method # "notification", post' = answering(p, given)
        PROVE  ServerInv'
    <3>1. expects(Head(r.body))
      BY <2>3 DEF expects, message
    <3> QED BY <1>2, <2>1, <2>3, <3>1, AnswerKeeps DEF AnswersAtOnce
  <2> QED BY <1>2, <2>2, <2>3 DEF AnswersAtOnce
<1>3. CASE AsksForCatalogue(p)
  <2>1. IsServed([r EXCEPT !.at = "catalog"])
    BY <1>1, <1>3, MovedIsServed DEF AsksForCatalogue, Places, expects, message
  <2>2. ServerInv' \/ post' = dropped(p)
    BY <1>3, <2>1, MoveKeeps DEF AsksForCatalogue, moved, Places
  <2> QED BY <1>3, <2>2, DropKeeps DEF AsksForCatalogue
<1>4. CASE Lists(p)
  <2>1. r.body # <<>> /\ expects(Head(r.body)) /\ r.at # "dropped"
    BY <1>1, <1>4 DEF Lists, IsServed
  <2> QED BY <1>4, <2>1, AnswerKeeps DEF Lists
<1>5. CASE Invokes(p)
  <2>1. r.body # <<>> /\ expects(Head(r.body)) /\ r.at = "catalog"
    BY <1>1, <1>5 DEF Invokes, IsServed
  <2>2. ASSUME NEW given \in Words, post' = answering(p, given)
        PROVE  /\ \E s, y : /\ post' = [post EXCEPT ![p] = s] /\ y \in Answers
                           /\ y.word = given /\ s.answers = Append(r.answers, y)
               /\ PostsAreServed'
    <3> DEFINE y == answerTo(r, given)
               s == behind(r, Append(r.answers, y))
    <3>1. IsServed(s) /\ y \in Answers /\ y.word = given
      BY <1>1, <2>1, AnsweredIsServed
    <3>2. post' = [post EXCEPT ![p] = s] /\ s.answers = Append(r.answers, y)
      BY <2>2 DEF answering, behind
    <3> HIDE DEF s, y
    <3> QED BY <1>1, <3>1, <3>2, PostsKeep
  <2>3. CASE refuse(p) /\ UNCHANGED <<tools, bound, closed>>
    <3>1. post' = answering(p, "escalation_pending") /\ "escalation_pending" \in Words
      BY <2>3 DEF refuse, Words
    <3>2. LatchCounts'
      BY <2>2, <2>3, <3>1, RefuseKeeps DEF refuse
    <3> QED BY <2>2, <3>1, <3>2 DEF ServerInv
  <2>4. CASE accept(p) /\ ~refusesAll /\ UNCHANGED <<tools, bound, closed>>
    <3>1. post' = answering(p, "accepted") /\ "accepted" \in Words
      BY <2>4 DEF accept, Words
    <3>2. LatchCounts'
      BY <2>2, <2>4, <3>1, AcceptKeeps DEF accept, refusesAll
    <3> QED BY <2>2, <3>1, <3>2 DEF ServerInv
  <2>5. CASE post' = dropped(p) /\ UNCHANGED <<closed, latch>>
    BY <2>5, DropKeeps
  <2>6. CASE post' = moved(p, "host") /\ UNCHANGED <<closed, latch>>
    <3>1. IsServed([r EXCEPT !.at = "host"])
      BY <1>1, <2>1, MovedIsServed DEF Places
    <3> QED BY <2>6, <3>1, MoveKeeps DEF moved, Places
  <2> QED BY <1>5, <2>3, <2>4, <2>5, <2>6 DEF Invokes
<1>6. ASSUME NEW throws \in BOOLEAN, HostAnswers(p, throws)
      PROVE  ServerInv'
  <2>1. r.body # <<>> /\ expects(Head(r.body)) /\ r.at # "dropped"
    BY <1>1, <1>6 DEF HostAnswers, IsServed
  <2>2. \/ post' = dropped(p)
        \/ post' = answering(p, "error")
        \/ post' = answering(p, "result")
    BY <1>6 DEF HostAnswers
  <2> QED BY <1>6, <2>1, <2>2, AnswerKeeps, DropKeeps DEF HostAnswers
<1>7. CASE Replies(p)
  <2>1. IsServed([r EXCEPT !.at = "answered"])
    BY <1>1, <1>7, MovedIsServed DEF Replies, Places
  <2>2. ServerInv' \/ post' = dropped(p)
    BY <1>7, <2>1, MoveKeeps DEF Replies, moved, Places
  <2> QED BY <1>7, <2>2, DropKeeps DEF Replies
<1> QED
  BY <1>2, <1>3, <1>4, <1>5, <1>6, <1>7 DEF Serves

(* What a name stands for lasts as long as the catalogue.                  *)
LEMMA SameNames ==
    ASSUME tools' = tools
    PROVE  askingNames' = askingNames
  BY DEF askingNames, asksForAHuman, resolveCanonicalName

(* A post whose answers stay as they are.                                  *)
LEMMA ToldKept ==
    ASSUME LatchIsTold, NEW p \in Posts, post \in [Posts -> PostRecords],
           NEW r, post' = [post EXCEPT ![p] = r], r.answers = post[p].answers,
           r.of = post[p].of \/ r.answers = <<>>,
           r.at = "host" => post[p].at = "host" \/ ~asked,
           tools' = tools, asked => asked'
    PROVE  LatchIsTold'
<1> SUFFICES ASSUME NEW q \in Posts
             PROVE  /\ TrueToTheLatch(askingNames', post'[q].of, post'[q].answers)
                    /\ post'[q].at = "host" => unlatched(post'[q].answers)
                    /\ unlatched(post'[q].answers) \/ asked'
  BY DEF LatchIsTold, unlatched
<1>1. /\ TrueToTheLatch(askingNames, post[q].of, post[q].answers)
      /\ post[q].at = "host" => unlatched(post[q].answers)
      /\ unlatched(post[q].answers) \/ asked
  BY DEF LatchIsTold
<1>2. CASE q # p
  <2>1. post'[q] = post[q]
    BY <1>2
  <2>2. TrueToTheLatch(askingNames, post'[q].of, post'[q].answers)
    BY <1>1, <2>1
  <2> QED BY <1>1, <2>1, <2>2, SameNames
<1>3. CASE q = p
  <2>1. post'[q] = r
    BY <1>3
  <2>2. TrueToTheLatch(askingNames, r.of, r.answers)
    <3>1. CASE r.of = post[p].of
      BY <1>1, <1>3, <3>1
    <3>2. CASE r.answers = <<>>
      BY <3>2 DEF TrueToTheLatch
    <3> QED BY <3>1, <3>2
  <2>3. TrueToTheLatch(askingNames', r.of, r.answers)
    BY <2>2, SameNames
  <2> QED BY <1>1, <1>3, <2>1, <2>3
<1> QED BY <1>2, <1>3

(* A post that has one answer more.                                        *)
LEMMA ToldGrows ==
    ASSUME ServerInv, LatchIsTold, NEW p \in Posts, NEW word \in Words,
           post' = answering(p, word), post[p].body # <<>>, post[p].at # "dropped",
           expects(Head(post[p].body)), tools' = tools, asked => asked',
           word \in latchWords => Head(post[p].body).method = "call" /\ asked',
           word = "accepted" => Head(post[p].body).name \in askingNames,
           Head(post[p].body).method = "call" =>
             word = "escalation_pending" \/ unlatched(post[p].answers)
    PROVE  LatchIsTold'
<1> DEFINE r == post[p]
           x == answerTo(r, word)
           t == Append(r.answers, x)
           m == Len(r.answers)
           n == done(r) + 1
<1>1. /\ IsServed(r) /\ r \in PostRecords /\ IsRest(r) /\ r.answers \in Seq(Answers)
      /\ post \in [Posts -> PostRecords]
  BY DEF ServerInv, PostsAreServed, IsServed, PostRecords
<1>2. x \in Answers /\ x.to = n /\ x.word = word
  BY <1>1, AnsweredIsServed
<1>3. Head(r.body) = r.of[n]
  BY <1>1, TailOfRest
<1>4. post' = [post EXCEPT ![p] = behind(r, t)]
  BY DEF answering, behind
<1> HIDE DEF x, n
<1>5. /\ m \in Nat /\ DOMAIN r.answers = 1..m /\ DOMAIN t = 1..(m + 1)
      /\ \A i \in 1..m : t[i] = r.answers[i]
      /\ t[m + 1] = x
      /\ \A i \in 1..(m + 1) : i \in 1..m \/ i = m + 1
  BY <1>1, <1>2
<1>6. /\ TrueToTheLatch(askingNames, r.of, r.answers)
      /\ unlatched(r.answers) \/ asked
  BY DEF LatchIsTold
<1> HIDE DEF t, m
<1>7. TrueToTheLatch(askingNames, r.of, t)
  <2>1. ASSUME NEW i \in DOMAIN t, t[i].word \in latchWords
        PROVE  r.of[t[i].to].method = "call"
    <3>1. CASE i \in 1..m
      BY <1>5, <1>6, <2>1, <3>1 DEF TrueToTheLatch
    <3>2. CASE i = m + 1
      BY <1>2, <1>3, <1>5, <2>1, <3>2
    <3> QED BY <1>5, <3>1, <3>2
  <2>2. ASSUME NEW i \in DOMAIN t, t[i].word = "accepted"
        PROVE  r.of[t[i].to].name \in askingNames
    <3>1. CASE i \in 1..m
      BY <1>5, <1>6, <2>2, <3>1 DEF TrueToTheLatch
    <3>2. CASE i = m + 1
      BY <1>2, <1>3, <1>5, <2>2, <3>2
    <3> QED BY <1>5, <3>1, <3>2
  <2>3. ASSUME NEW i \in DOMAIN t, NEW j \in DOMAIN t, i < j, t[i].word \in latchWords,
               r.of[t[j].to].method = "call"
        PROVE  t[j].word = "escalation_pending"
    <3>1. i \in 1..m
      BY <1>5, <2>3
    <3>2. CASE j \in 1..m
      BY <1>5, <1>6, <2>3, <3>1, <3>2 DEF TrueToTheLatch
    <3>3. CASE j = m + 1
      <4>1. ~unlatched(r.answers)
        BY <1>5, <2>3, <3>1 DEF unlatched
      <4> QED BY <1>2, <1>3, <1>5, <2>3, <3>3, <4>1
    <3> QED BY <1>5, <3>2, <3>3
  <2> QED BY <2>1, <2>2, <2>3 DEF TrueToTheLatch
<1>8. unlatched(t) \/ asked'
  <2>1. CASE word \in latchWords
    BY <2>1
  <2>2. CASE word \notin latchWords
    BY <1>2, <1>5, <1>6, <2>2 DEF unlatched
  <2> QED BY <2>1, <2>2
<1>9. TrueToTheLatch(askingNames', r.of, t)
  BY <1>7, SameNames
<1> SUFFICES ASSUME NEW q \in Posts
             PROVE  /\ TrueToTheLatch(askingNames', post'[q].of, post'[q].answers)
                    /\ post'[q].at = "host" => unlatched(post'[q].answers)
                    /\ unlatched(post'[q].answers) \/ asked'
  BY DEF LatchIsTold, unlatched
<1>10. CASE q = p
  <2>1. post'[q].of = r.of /\ post'[q].answers = t /\ post'[q].at = "handling"
    BY <1>1, <1>4, <1>10 DEF behind
  <2> QED BY <1>8, <1>9, <2>1
<1>11. CASE q # p
  <2>1. post'[q] = post[q]
    BY <1>1, <1>4, <1>11
  <2>2. /\ TrueToTheLatch(askingNames, post[q].of, post[q].answers)
        /\ post[q].at = "host" => unlatched(post[q].answers)
        /\ unlatched(post[q].answers) \/ asked
    BY DEF LatchIsTold
  <2>3. TrueToTheLatch(askingNames, post'[q].of, post'[q].answers)
    BY <2>1, <2>2
  <2> QED BY <2>1, <2>2, <2>3, SameNames
<1> QED BY <1>10, <1>11

(* What every step of the server's tells.                                  *)
LEMMA ToldSteps ==
    ASSUME ServerInv, LatchIsTold, NEW p \in Posts, Serves(p)
    PROVE  LatchIsTold'
<1> DEFINE r == post[p]
<1>1. /\ IsServed(r) /\ r \in PostRecords /\ post \in [Posts -> PostRecords]
      /\ asked \in BOOLEAN
  BY DEF ServerInv, PostsAreServed, LatchCounts
<1>2. tools' = tools /\ (asked => asked')
  BY DEF Serves, AnswersAtOnce, AsksForCatalogue, Lists, Invokes, HostAnswers, Replies,
         accept, refuse, latch
<1>3. ASSUME post' = dropped(p) PROVE LatchIsTold'
  <2>1. PICK s : s = [[r EXCEPT !.at = "dropped"] EXCEPT !.body = <<>>]
    OBVIOUS
  <2>2. post' = [post EXCEPT ![p] = s]
    BY <1>1, <1>3, <2>1 DEF dropped, PostRecords
  <2>3. s.of = r.of /\ s.answers = r.answers /\ s.at = "dropped"
    BY <1>1, <2>1 DEF PostRecords
  <2> QED BY <1>1, <1>2, <2>2, <2>3, ToldKept
<1>4. ASSUME NEW place, post' = moved(p, place), place = "host" => ~asked
      PROVE  LatchIsTold'
  <2>1. PICK s : s = [r EXCEPT !.at = place]
    OBVIOUS
  <2>2. post' = [post EXCEPT ![p] = s]
    BY <1>1, <1>4, <2>1 DEF moved
  <2>3. s.of = r.of /\ s.answers = r.answers /\ s.at = place
    BY <1>1, <2>1 DEF PostRecords
  <2> QED BY <1>1, <1>2, <1>4, <2>2, <2>3, ToldKept
<1>5. CASE AnswersAtOnce(p)
  <2>1. r.body # <<>> /\ r.at = "handling" /\ message(p).method # "call"
    BY <1>5 DEF AnswersAtOnce
  <2>2. CASE post' = passingOver(p)
    <3>1. PICK s : s = behind(r, r.answers)
      OBVIOUS
    <3>2. post' = [post EXCEPT ![p] = s]
      BY <2>2, <3>1 DEF passingOver, behind
    <3>3. s.of = r.of /\ s.answers = r.answers /\ s.at = "handling"
      BY <3>1 DEF behind
    <3> QED BY <1>1, <1>2, <3>2, <3>3, ToldKept
  <2>3. ASSUME NEW given \in {"result", "error"}, post' = answering(p, given),
               message(p).method # "notification"
        PROVE  LatchIsTold'
    BY <1>1, <1>2, <2>1, <2>3, ToldGrows DEF message, expects, Words, latchWords
  <2> QED BY <1>5, <2>2, <2>3 DEF AnswersAtOnce
<1>6. CASE AsksForCatalogue(p)
  BY <1>3, <1>4, <1>6 DEF AsksForCatalogue
<1>7. CASE Lists(p)
  <2>1. r.body # <<>> /\ expects(Head(r.body)) /\ r.at # "dropped"
    BY <1>1, <1>7 DEF Lists, IsServed
  <2> QED BY <1>2, <1>7, <2>1, ToldGrows DEF Lists, message, Words, latchWords
<1>8. CASE Invokes(p)
  <2>1. r.body # <<>> /\ expects(Head(r.body)) /\ r.at = "catalog" /\ Head(r.body).method = "call"
    BY <1>1, <1>8 DEF Invokes, IsServed, message
  <2>2. CASE refuse(p) /\ refusesAll
    BY <1>2, <2>1, <2>2, ToldGrows DEF refuse, refusesAll, Words, latchWords
  <2>3. CASE accept(p) /\ ~refusesAll /\ asksForAHuman(resolveCanonicalName(message(p).name))
    <3>1. unlatched(r.answers)
      BY <2>3 DEF LatchIsTold, refusesAll
    <3>2. Head(r.body).name \in DOMAIN portableToolName
      <4>1. Head(r.body) \in Messages
        BY <1>1, <2>1, TailOfRest DEF IsServed
      <4> QED BY <2>1, <4>1 DEF Messages
    <3>3. Head(r.body).name \in askingNames
      BY <2>3, <3>2 DEF askingNames, message
    <3> QED BY <1>2, <2>1, <2>3, <3>1, <3>3, ToldGrows DEF accept, Words, latchWords
  <2>4. CASE post' = dropped(p)
    BY <1>3, <2>4
  <2>5. CASE post' = moved(p, "host") /\ ~refusesAll
    BY <1>4, <2>5 DEF refusesAll
  <2> QED BY <1>8, <2>2, <2>3, <2>4, <2>5 DEF Invokes
<1>9. ASSUME NEW throws \in BOOLEAN, HostAnswers(p, throws)
      PROVE  LatchIsTold'
  <2>1. r.body # <<>> /\ expects(Head(r.body)) /\ r.at = "host"
    BY <1>1, <1>9 DEF HostAnswers, IsServed
  <2>2. unlatched(r.answers)
    BY <2>1 DEF LatchIsTold
  <2>3. ASSUME NEW given \in {"result", "error"}, post' = answering(p, given)
        PROVE  LatchIsTold'
    BY <1>2, <2>1, <2>2, <2>3, ToldGrows DEF Words, latchWords
  <2> QED BY <1>3, <1>9, <2>3 DEF HostAnswers
<1>10. CASE Replies(p)
  BY <1>3, <1>4, <1>10 DEF Replies
<1> QED
  BY <1>5, <1>6, <1>7, <1>8, <1>9, <1>10 DEF Serves

LEMMA ArrivalTells ==
    ASSUME ServerInv, LatchIsTold, NEW p \in Posts, NEW body \in Bodies, Arrives(p, body)
    PROVE  LatchIsTold'
<1>1. PICK s : s = [at |-> "handling", of |-> body, body |-> body, answers |-> <<>>]
  OBVIOUS
<1>2. post[p].answers = <<>> /\ post \in [Posts -> PostRecords]
  BY DEF ServerInv, PostsAreServed, IsServed, Arrives, noPost
<1>3. post' = [post EXCEPT ![p] = s] /\ tools' = tools /\ asked' = asked
  BY <1>1 DEF Arrives, latch
<1>4. s.answers = <<>> /\ s.at = "handling"
  BY <1>1
<1> QED BY <1>2, <1>3, <1>4, ToldKept

LEMMA ArrivalKeeps ==
    ASSUME ServerInv, NEW p \in Posts, NEW body \in Bodies, Arrives(p, body)
    PROVE  ServerInv'
<1> DEFINE s == [at |-> "handling", of |-> body, body |-> body, answers |-> <<>>]
<1>1. IsServed(s)
  BY ArrivedIsServed, McpServerAssumption
<1>2. post[p].answers = <<>>
  BY DEF ServerInv, PostsAreServed, IsServed, Arrives, noPost
<1>3. post' = [post EXCEPT ![p] = s] /\ s.answers = post[p].answers
      /\ UNCHANGED <<closed, latch>>
  BY <1>2 DEF Arrives
<1> HIDE DEF s
<1> QED BY <1>1, <1>3, PostsKeep, LatchKeeps DEF ServerInv

-----------------------------------------------------------------------------
(* The turn's own steps.                                                   *)

LEMMA ServesWithin ==
    ASSUME ServerInv, NEW p \in Posts, Serves(p)
    PROVE  /\ UNCHANGED <<tools, bound, closed>>
           /\ closed => UNCHANGED <<reached, latch>>
           /\ \A q \in Posts : post'[q].of = post[q].of
<1>1. UNCHANGED <<tools, bound, closed>> /\ (closed => UNCHANGED <<reached, latch>>)
  BY DEF Serves, AnswersAtOnce, AsksForCatalogue, Lists, Invokes, HostAnswers, Replies, isStillOpen
<1>2. post \in [Posts -> PostRecords]
  BY DEF ServerInv, PostsAreServed
<1>3. \/ \E word : post' = answering(p, word)
      \/ post' = passingOver(p)
      \/ \E place : post' = moved(p, place)
      \/ post' = dropped(p)
  BY DEF Serves, AnswersAtOnce, AsksForCatalogue, Lists, Invokes, HostAnswers, Replies,
         accept, refuse
<1>4. ASSUME NEW r, r.of = post[p].of, post' = [post EXCEPT ![p] = r]
      PROVE  \A q \in Posts : post'[q].of = post[q].of
  BY <1>2, <1>4
<1>5. ASSUME NEW word, post' = answering(p, word)
      PROVE  \A q \in Posts : post'[q].of = post[q].of
  BY <1>4, <1>5 DEF answering
<1>6. ASSUME post' = passingOver(p)
      PROVE  \A q \in Posts : post'[q].of = post[q].of
  BY <1>4, <1>6 DEF passingOver
<1>7. ASSUME NEW place, post' = moved(p, place)
      PROVE  \A q \in Posts : post'[q].of = post[q].of
  BY <1>2, <1>7 DEF moved, PostRecords
<1>8. ASSUME post' = dropped(p)
      PROVE  \A q \in Posts : post'[q].of = post[q].of
  BY <1>2, <1>8 DEF dropped, PostRecords
<1> QED BY <1>1, <1>3, <1>5, <1>6, <1>7, <1>8

(* What the turn's state is, whatever is served meanwhile.                 *)
LEMMA TypeSteps == ServerInv /\ TypeOK /\ Next => TypeOK'
<1> SUFFICES ASSUME ServerInv, TypeOK, Next PROVE TypeOK'
  OBVIOUS
<1> USE DEF processVars, runVars, serverVars, latch
<1>1. CASE Binds
  <2>1. ServerTypeOK'
    BY <1>1 DEF Binds, TypeOK, ServerTypeOK
  <2> QED BY <1>1, <2>1 DEF Binds, throwsFrom, TypeOK
<1>2. CASE MakesScratch
  <2>1. ServerTypeOK'
    BY <1>2 DEF MakesScratch, TypeOK, ServerTypeOK
  <2> QED BY <1>2, <2>1 DEF MakesScratch, throwsFrom, TypeOK
<1>3. CASE Launches
  <2>1. ServerTypeOK'
    BY <1>3 DEF Launches, TypeOK, ServerTypeOK
  <2> QED BY <1>3, <2>1 DEF Launches, armed, TypeOK
<1>4. CASE LaunchFails
  <2>1. ServerTypeOK'
    BY <1>4 DEF LaunchFails, Closes, TypeOK, ServerTypeOK
  <2> QED BY <1>4, <2>1 DEF LaunchFails, throwsFrom, TypeOK
<1>5. CASE Reaps
  <2>1. ServerTypeOK'
    BY <1>5 DEF Reaps, Closes, TypeOK, ServerTypeOK
  <2>2. endingOf \in {None, "complete", "failed"}
    BY DEF endingOf, TypeOK
  <2> QED BY <1>5, <2>1, <2>2 DEF Reaps, throwsFrom, TypeOK
<1>6. CASE Settles
  <2>1. ServerTypeOK'
    BY <1>6 DEF Settles, Closes, TypeOK, ServerTypeOK
  <2> QED BY <1>6, <2>1 DEF Settles, settled, TypeOK
<1>7. CASE Removes
  <2>1. ServerTypeOK'
    BY <1>7 DEF Removes, TypeOK, ServerTypeOK
  <2> QED BY <1>7, <2>1 DEF Removes, throwsFrom, TypeOK
<1>8. ASSUME NEW word, Speaks(word) PROVE TypeOK'
  <2>1. firstEnding(word) \in {None, "complete", "failed"}
    BY DEF firstEnding, meaning, Protocols!endingStep, TypeOK
  <2>2. ServerTypeOK'
    BY <1>8 DEF Speaks, TypeOK, ServerTypeOK
  <2> QED BY <1>8, <2>1, <2>2 DEF Speaks, TypeOK
<1>9. CASE IdleFires
  <2>1. ServerTypeOK'
    BY <1>9 DEF IdleFires, TypeOK, ServerTypeOK
  <2>2. /\ UNCHANGED <<at, session, child, exitCode, quiet, terminal, spoke, ending, outcome,
                      aborted>>
        /\ idle' \in BOOLEAN /\ inputEnded' \in BOOLEAN
    BY <1>9 DEF IdleFires
  <2> QED BY <2>1, <2>2 DEF TypeOK
<1>10. ASSUME NEW code \in {"zero", "other", "error"}, Exits(code) PROVE TypeOK'
  <2>1. ServerTypeOK'
    BY <1>10 DEF Exits, TypeOK, ServerTypeOK
  <2> QED BY <1>10, <2>1 DEF Exits, TypeOK
<1>11. CASE Aborts
  <2>1. ServerTypeOK'
    BY <1>11 DEF Aborts, TypeOK, ServerTypeOK
  <2> QED BY <1>11, <2>1 DEF Aborts, TypeOK
<1>12. CASE Server
  <2>1. PICK p \in Posts : Serves(p)
    BY <1>12 DEF Server
  <2>2. ServerInv'
    BY <2>1, StepKeeps
  <2>3. \A q \in Posts : post'[q].at \in Places
    BY <2>2 DEF ServerInv, PostsAreServed, PostRecords
  <2>4. asked' \in BOOLEAN /\ askNoted' \in BOOLEAN
    BY <2>2 DEF ServerInv, LatchCounts
  <2> QED BY <1>12, <2>1, <2>3, <2>4, ServesWithin DEF Server, Places, TypeOK, ServerTypeOK
<1>13. CASE Client
  <2>1. PICK p \in Posts, body \in Bodies : Arrives(p, body)
    BY <1>13 DEF Client
  <2>2. \A q \in Posts : /\ post'[q].at \in {"handling", post[q].at}
                         /\ post'[q].of \in {body, post[q].of}
    BY <2>1 DEF Arrives, ServerInv, PostsAreServed
  <2> QED BY <1>13, <2>1, <2>2 DEF Client, Arrives, TypeOK, ServerTypeOK
<1>14. CASE Mutters \/ Lapses
  <2>1. ServerTypeOK'
    BY <1>14 DEF Mutters, Lapses, TypeOK, ServerTypeOK
  <2>2. /\ UNCHANGED <<at, session, child, exitCode, inputEnded, terminal, spoke, ending,
                      outcome, aborted>>
        /\ idle' \in BOOLEAN /\ quiet' \in BOOLEAN
    BY <1>14 DEF Mutters, Lapses, TypeOK
  <2> QED BY <2>1, <2>2 DEF TypeOK
<1> QED
  BY <1>1, <1>2, <1>3, <1>4, <1>5, <1>6, <1>7, <1>8, <1>9, <1>10, <1>11, <1>12, <1>13, <1>14
  DEF Next

LEMMA Starts == Init => Inv
<1> SUFFICES ASSUME Init PROVE Inv
  OBVIOUS
<1>1. IsServed(noPost)
  <2>1. noPost \in PostRecords
    BY DEF noPost, PostRecords, Places
  <2>2. /\ requestsDone(noPost) = {} /\ answered(noPost.answers) = {}
        /\ InOrder(noPost.answers) /\ IsRest(noPost)
    BY DEF noPost, requestsDone, done, IsRest, answered, InOrder
  <2> QED BY <2>1, <2>2 DEF IsServed, noPost
<1>2. PostsAreServed
  BY <1>1 DEF Init, ServerInit, PostsAreServed, IsServed
<1>3. \A word \in Words : answersOf(word) = {}
  BY DEF Init, ServerInit, answersOf, noPost
<1>4. LatchCounts
  BY <1>3, FS_EmptySet DEF LatchCounts, Words, Init, ServerInit
<1>5. TypeOK
  BY DEF TypeOK, ServerTypeOK, Init, ServerInit, noPost
<1>6. LatchIsTold
  BY DEF LatchIsTold, TrueToTheLatch, unlatched, Init, ServerInit, noPost
<1> QED BY <1>2, <1>4, <1>5, <1>6 DEF Inv, ServerInv, EndedOnTheLatch, Init

LEMMA Steps == Inv /\ Next => Inv'
<1> SUFFICES ASSUME Inv, Next PROVE Inv'
  OBVIOUS
<1>1. TypeOK'
  BY TypeSteps DEF Inv
<1>2. ServerInv'
  <2>1. CASE Server
    BY <2>1, StepKeeps DEF Server, Inv
  <2>2. CASE Client
    BY <2>2, ArrivalKeeps DEF Client, Inv
  <2>3. ASSUME UNCHANGED <<post, latch>>, closed' \in BOOLEAN PROVE ServerInv'
    <3>1. \A word \in Words : answersOf(word)' = answersOf(word)
      BY <2>3 DEF answersOf
    <3> QED BY <2>3, <3>1 DEF Inv, ServerInv, PostsAreServed, LatchCounts, latch, Words
  <2>4. closed' \in BOOLEAN
    BY <1>1 DEF TypeOK, ServerTypeOK
  <2> QED
    BY <2>1, <2>2, <2>3, <2>4
    DEF Next, Binds, MakesScratch, Launches, LaunchFails, Reaps, Settles, Removes, Speaks,
        Mutters, Lapses, IdleFires, Exits, Aborts, serverVars, latch
<1>3. LatchIsTold'
  <2>1. CASE Server
    BY <2>1, ToldSteps DEF Server, Inv
  <2>2. CASE Client
    BY <2>2, ArrivalTells DEF Client, Inv
  <2>3. ASSUME UNCHANGED <<tools, post, latch>> PROVE LatchIsTold'
    <3>1. UNCHANGED <<tools, post, asked>> /\ askingNames' = askingNames
      BY <2>3, SameNames DEF latch
    <3> QED BY <3>1 DEF Inv, LatchIsTold, unlatched
  <2> QED
    BY <2>1, <2>2, <2>3
    DEF Next, Binds, MakesScratch, Launches, LaunchFails, Reaps, Settles, Removes, Speaks,
        Mutters, Lapses, IdleFires, Exits, Aborts, serverVars, latch
<1>4. EndedOnTheLatch'
  <2>1. ASSUME UNCHANGED <<latch, closed, runVars>> PROVE EndedOnTheLatch'
    BY <2>1 DEF Inv, EndedOnTheLatch, latch, runVars
  <2>2. CASE Binds \/ MakesScratch \/ LaunchFails \/ Reaps \/ Removes
    BY <2>2, HarnessTurnAssumption
    DEF Inv, EndedOnTheLatch, Binds, MakesScratch, LaunchFails, Reaps, Removes, throwsFrom,
        Closes, latch, serverVars
  <2>3. CASE Launches
    BY <2>3 DEF Launches, Inv, EndedOnTheLatch, serverVars
  <2>4. CASE Settles
    BY <2>4 DEF Settles, settled, Closes, Inv, TypeOK, EndedOnTheLatch, latch, ServerInv, LatchCounts
  <2>5. CASE Server
    BY <2>5, ServesWithin DEF Server, Inv, EndedOnTheLatch, runVars, latch
  <2>6. CASE Client
    BY <2>1, <2>6 DEF Client, Arrives
  <2>7. ASSUME NEW word, Speaks(word) PROVE EndedOnTheLatch'
    BY <2>1, <2>7 DEF Speaks, serverVars, latch
  <2> QED
    BY <2>1, <2>2, <2>3, <2>4, <2>5, <2>6, <2>7
    DEF Next, Mutters, Lapses, IdleFires, Exits, Aborts, serverVars, latch
<1> QED BY <1>1, <1>2, <1>3, <1>4 DEF Inv

LEMMA InductiveInvariant == Spec => []Inv
<1>1. ASSUME Inv, UNCHANGED vars PROVE Inv'
  <2>1. UNCHANGED <<serverVars, processVars, runVars, session, aborted>>
    BY <1>1 DEF vars
  <2>2. TypeOK'
    BY <1>1, <2>1 DEF Inv, TypeOK, ServerTypeOK, serverVars, processVars, runVars
  <2>3. ServerInv'
    <3>1. UNCHANGED <<post, asked, askNoted, afterwards, closed>>
      BY <2>1 DEF serverVars
    <3>2. \A word \in Words : answersOf(word)' = answersOf(word)
      BY <3>1 DEF answersOf
    <3> QED BY <1>1, <3>1, <3>2 DEF Inv, ServerInv, PostsAreServed, LatchCounts, Words
  <2>4. LatchIsTold'
    <3>1. UNCHANGED <<tools, post, asked>> /\ askingNames' = askingNames
      BY <2>1, SameNames DEF serverVars
    <3> QED BY <1>1, <3>1 DEF Inv, LatchIsTold, unlatched
  <2>5. EndedOnTheLatch'
    BY <1>1, <2>1 DEF Inv, EndedOnTheLatch, serverVars, runVars
  <2> QED BY <2>2, <2>3, <2>4, <2>5 DEF Inv
<1> QED BY <1>1, Starts, Steps, PTL DEF Spec

-----------------------------------------------------------------------------
(* What the turn and its posts hold keeps its type, whatever is posted and *)
(* whatever the process does.                                              *)
THEOREM TypeCorrect == Spec => []TypeOK
  BY InductiveInvariant, PTL DEF Inv

(* A post that is answered answers each of its requests once, in their     *)
(* order, though an ask came in the middle of it or in another post. What  *)
(* the latch says is true: one ask is accepted at most, of a name that     *)
(* asks for a human, whatever follows it in its batch is refused, and the  *)
(* refusals are as many as the record says (McpToolServer.handle).         *)
THEOREM RequestsAreAnswered == Spec => []EveryRequestIsAnswered
<1>1. Inv => EveryRequestIsAnswered
  <2> SUFFICES ASSUME Inv PROVE EveryRequestIsAnswered
    OBVIOUS
  <2>1. ASSUME NEW p \in Posts, post[p].at = "answered"
        PROVE  answered(post[p].answers) = requestsOf(post[p].of)
    <3>1. IsServed(post[p]) /\ post[p].body = <<>> /\ post[p].of \in Seq(Messages)
      BY <2>1 DEF Inv, ServerInv, PostsAreServed, IsServed, PostRecords
    <3>2. done(post[p]) = Len(post[p].of)
      BY <3>1 DEF done
    <3>3. requestsDone(post[p]) = requestsOf(post[p].of)
      BY <3>1, <3>2 DEF requestsDone, requestsOf
    <3> QED BY <2>1, <3>1, <3>3 DEF IsServed
  <2>2. \A p \in Posts : InOrder(post[p].answers)
    BY DEF Inv, ServerInv, PostsAreServed, IsServed
  <2> QED BY <2>1, <2>2
          DEF Inv, ServerInv, LatchCounts, LatchIsTold, answered, EveryRequestIsAnswered
<1> QED BY <1>1, InductiveInvariant, PTL

(* A turn that returns ends as its harness was told: escalated if its ask  *)
(* was taken and only then, with every refusal after it counted            *)
(* (EscalationLatch.settle).                                               *)
THEOREM AsksAreHonoured == Spec => []AskIsHonoured
<1>1. Inv => AskIsHonoured
  BY DEF Inv, ServerInv, LatchCounts, EndedOnTheLatch, AskIsHonoured
<1> QED BY <1>1, InductiveInvariant, PTL

(* No call reaches the host's tools once an ask was taken or the turn is   *)
(* over, however far it had come (EscalationLatch, #assertOpen).           *)
THEOREM EndedTurnsAreNotReached == Spec => NothingReachesAnEndedTurn
<1>1. Inv /\ [Next]_vars => [asked \/ closed => reached' = reached]_reached
  <2> SUFFICES ASSUME Next, asked \/ closed PROVE reached' = reached
    BY DEF vars, serverVars
  <2>1. ASSUME NEW p \in Posts, Serves(p) PROVE reached' = reached
    BY <2>1 DEF Serves, AnswersAtOnce, AsksForCatalogue, Lists, Invokes, HostAnswers, Replies,
                isStillOpen, refusesAll, refuse, accept
  <2> QED
    BY <2>1
    DEF Next, Binds, MakesScratch, Launches, LaunchFails, Reaps, Settles, Removes, Speaks,
        Mutters, Lapses, IdleFires, Exits, Aborts, Server, Client, Arrives, serverVars
<1> QED BY <1>1, InductiveInvariant, PTL DEF Spec, NothingReachesAnEndedTurn

=============================================================================
