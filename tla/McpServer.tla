----------------------------- MODULE McpServer -----------------------------
(***************************************************************************)
(* The tool server of one turn (McpToolServer over Streamable HTTP), the   *)
(* bridge its calls leave through (SharedOSToolBridge), and the latch in   *)
(* front of the turn's host that takes an ask for a human                  *)
(* (EscalationLatch). Whoever holds the port may post at any time, several *)
(* messages at once, and posts are answered concurrently.                  *)
(***************************************************************************)
EXTENDS Integers, Sequences, FiniteSets

CONSTANTS
    MaxPosts,        (* bound: the requests made of the port                   *)
    Bodies,          (* what a post may carry: one message, or a batch         *)
    Catalogues,      (* the tool sets a turn may be handed                     *)
    Escalate,        (* the name of the escalate affordance                    *)
    portableToolName (* each name as a transport without dots writes it        *)

(* A message: one answered on the spot (initialize, ping), a notification, *)
(* one that cannot be served, tools/list, or tools/call of a name.         *)
Messages ==
    [method : {"plain", "notification", "unservable", "list"}]
      \union [method : {"call"}, name : DOMAIN portableToolName]

(* A post is known by its place among those that came.                     *)
Posts == 1..MaxPosts

ASSUME McpServerAssumption ==
    /\ MaxPosts \in Nat
    /\ \A body \in Bodies : body \in Seq(Messages) /\ body # <<>>
    /\ \A tools \in Catalogues : tools \subseteq DOMAIN portableToolName
    /\ Escalate \in DOMAIN portableToolName

VARIABLES
    tools,         (* the turn's catalogue                                     *)
    bound,         (* does the port answer                                     *)
    closed,        (* is the bridge closed, and its requests aborted with it   *)
    post,          (* the posts: where each is, what is left of it, its answers*)
    reached,       (* how many calls reached the turn's host                   *)
    asked,         (* the latch's #reason                                      *)
    afterwards,    (* the latch's #afterwards                                  *)
    askNoted       (* is the ask on the turn's record                          *)

serverVars == <<tools, bound, closed, post, reached, asked, afterwards, askNoted>>

noPost == [at |-> "unsent", of |-> <<>>, body |-> <<>>, answers |-> <<>>]

ServerTypeOK ==
    /\ tools \in Catalogues
    /\ bound \in BOOLEAN /\ closed \in BOOLEAN
    /\ asked \in BOOLEAN /\ askNoted \in BOOLEAN
    /\ \A p \in Posts :
         /\ post[p].at \in {"unsent", "handling", "catalog", "host", "answered", "dropped"}
         /\ post[p].of \in Bodies \union {<<>>}

ServerInit ==
    /\ tools \in Catalogues
    /\ bound = FALSE /\ closed = FALSE
    /\ post = [p \in Posts |-> noPost]
    /\ reached = 0
    /\ asked = FALSE /\ afterwards = 0 /\ askNoted = FALSE

-----------------------------------------------------------------------------
(* resolveCanonicalName: a published name as it is, its portable form if   *)
(* that is one tool's only, and any other name unchanged.                  *)
resolveCanonicalName(exposed) ==
    LET portable == {t \in tools : portableToolName[t] = exposed} IN
    IF exposed \notin tools /\ Cardinality(portable) = 1
    THEN CHOOSE t \in portable : TRUE
    ELSE exposed

(* Only the affordance by its name, and only where the turn holds it.      *)
asksForAHuman(tool) == tool = Escalate /\ Escalate \in tools

message(p) == Head(post[p].body)

(* An answer carries the id of the message it is to, here its place.       *)
answerTo(r, word) == [to |-> Len(r.of) - Len(r.body) + 1, word |-> word]

(* handle answers a message: the next of the batch is then taken up.       *)
answering(p, word) ==
    [post EXCEPT ![p] = [at |-> "handling", of |-> @.of, body |-> Tail(@.body),
                         answers |-> Append(@.answers, answerTo(@, word))]]

passingOver(p) ==
    [post EXCEPT ![p] = [at |-> "handling", of |-> @.of, body |-> Tail(@.body),
                         answers |-> @.answers]]

moved(p, place) == [post EXCEPT ![p].at = place]

dropped(p) == [post EXCEPT ![p].at = "dropped", ![p].body = <<>>]

latch == <<asked, afterwards, askNoted>>

(* #assertOpen.                                                            *)
isOpen == ~closed

(* Mutant: only the catalogue is refused once the turn is over.            *)
isOpenToCalls == TRUE

(* The same, as invoke asks it again after the catalogue was awaited.      *)
isStillOpen == ~closed

(* Mutant: the ask is noted once it has been answered.                     *)
refusesUnlatched == FALSE

(* EscalationLatch.invokeTool, before anything is awaited.                 *)
refusesAll == asked

-----------------------------------------------------------------------------
Arrives(p, body) ==
    /\ bound /\ post[p].at = "unsent"
    /\ \A q \in 1..(p - 1) : post[q].at # "unsent"
    /\ post' = [post EXCEPT ![p] = [at |-> "handling", of |-> body, body |-> body,
                                    answers |-> <<>>]]
    /\ UNCHANGED <<tools, bound, closed, reached, latch>>

(* A message that needs no bridge.                                         *)
AnswersAtOnce(p) ==
    /\ post[p].at = "handling" /\ post[p].body # <<>>
    /\ message(p).method \in {"plain", "notification", "unservable"}
    /\ post' = IF message(p).method = "notification" THEN passingOver(p)
               ELSE answering(p, IF message(p).method = "plain" THEN "result" ELSE "error")
    /\ UNCHANGED <<tools, bound, closed, reached, latch>>

(* tools/list and tools/call both ask the bridge for the catalogue. A      *)
(* request aborted with its turn is dropped, and the batch with it.        *)
AsksForCatalogue(p) ==
    /\ post[p].at = "handling" /\ post[p].body # <<>>
    /\ message(p).method \in {"list", "call"}
    /\ post' = IF isOpen THEN moved(p, "catalog") ELSE dropped(p)
    /\ UNCHANGED <<tools, bound, closed, reached, latch>>

Lists(p) ==
    /\ post[p].at = "catalog" /\ message(p).method = "list"
    /\ post' = answering(p, "result")
    /\ UNCHANGED <<tools, bound, closed, reached, latch>>

(* The latch's two answers are results of the tool, never faults of the    *)
(* server's: the ask is taken and noted, and what comes after is counted.  *)
accept(p) ==
    /\ asked' = TRUE /\ askNoted' = TRUE
    /\ post' = answering(p, "accepted")
    /\ UNCHANGED <<reached, afterwards>>

refuse(p) ==
    /\ afterwards' = afterwards + 1
    /\ post' = answering(p, "escalation_pending")
    /\ UNCHANGED <<reached, asked, askNoted>>

(* The catalogue is there: the bridge is asked to make the call, and the   *)
(* latch has it before anything else is awaited.                           *)
Invokes(p) ==
    /\ post[p].at = "catalog" /\ message(p).method = "call"
    /\ LET tool == resolveCanonicalName(message(p).name) IN
       \/ /\ ~isStillOpen
          /\ post' = dropped(p)
          /\ UNCHANGED <<reached, latch>>
       \/ isStillOpen /\ refusesAll /\ refuse(p)
       \/ isStillOpen /\ ~refusesAll /\ asksForAHuman(tool) /\ accept(p)
       \/ /\ isStillOpen /\ ~refusesAll /\ ~asksForAHuman(tool)
          /\ reached' = reached + 1
          /\ post' = moved(p, "host")
          /\ UNCHANGED latch
    /\ UNCHANGED <<tools, bound, closed>>

(* The host's answer, a refusal like any other, is a result of the tool. A *)
(* fault is the server's own, unless the turn has gone.                    *)
HostAnswers(p, throws) ==
    /\ post[p].at = "host"
    /\ post' = IF throws /\ closed THEN dropped(p)
               ELSE answering(p, IF throws THEN "error" ELSE "result")
    /\ UNCHANGED <<tools, bound, closed, reached, latch>>

(* The batch is through. Its answers leave together, over the connection   *)
(* it came by if that is still there.                                      *)
Replies(p) ==
    /\ post[p].at = "handling" /\ post[p].body = <<>>
    /\ post' = IF closed THEN dropped(p) ELSE moved(p, "answered")
    /\ UNCHANGED <<tools, bound, closed, reached, latch>>

Serves(p) ==
    \/ AnswersAtOnce(p) \/ AsksForCatalogue(p) \/ Lists(p) \/ Invokes(p)
    \/ \E throws \in BOOLEAN : HostAnswers(p, throws)
    \/ Replies(p)

-----------------------------------------------------------------------------
(* Nothing reaches the host of a turn that has asked for a human, nor of   *)
(* one that is over, though the call was past the catalogue, in a batch or *)
(* in a post of its own, when that happened (EscalationLatch, #assertOpen).*)
NothingReachesAnEndedTurn == [][asked \/ closed => reached' = reached]_reached

expects(m) == m.method # "notification"

requestsOf(body) == {i \in DOMAIN body : expects(body[i])}

answersOf(word) ==
    {answer \in UNION {{p} \X DOMAIN post[p].answers : p \in Posts} :
        post[answer[1]].answers[answer[2]].word = word}

latchWords == {"accepted", "escalation_pending"}

InOrder(answers) == \A i, j \in DOMAIN answers : i < j => answers[i].to < answers[j].to

askingNames == {name \in DOMAIN portableToolName : asksForAHuman(resolveCanonicalName(name))}

(* Only calls are answered by the latch, only an ask for a human is        *)
(* accepted, and every later call of that batch is refused.                *)
TrueToTheLatch(asking, body, answers) ==
    /\ \A i \in DOMAIN answers : answers[i].word \in latchWords =>
         body[answers[i].to].method = "call"
    /\ \A i \in DOMAIN answers : answers[i].word = "accepted" =>
         body[answers[i].to].name \in asking
    /\ \A i, j \in DOMAIN answers :
         i < j /\ answers[i].word \in latchWords /\ body[answers[j].to].method = "call" =>
           answers[j].word = "escalation_pending"

(* A post that is answered answers each of its requests once, and nothing  *)
(* else, in their order. What an answer says of a call is what the latch   *)
(* made of it, over all the posts at once: one ask was accepted if one was *)
(* taken, of a name that asks for a human, whatever came after it in its   *)
(* batch was told so, and as many calls were refused as are on the record  *)
(* (McpToolServer.handle, EscalationLatch, callsAfterEscalation).          *)
EveryRequestIsAnswered ==
    /\ \A p \in Posts : post[p].at = "answered" =>
         {post[p].answers[i].to : i \in DOMAIN post[p].answers} = requestsOf(post[p].of)
    /\ \A p \in Posts :
         /\ InOrder(post[p].answers)
         /\ TrueToTheLatch(askingNames, post[p].of, post[p].answers)
    /\ Cardinality(answersOf("accepted")) = IF asked THEN 1 ELSE 0
    /\ Cardinality(answersOf("escalation_pending")) = afterwards

=============================================================================
