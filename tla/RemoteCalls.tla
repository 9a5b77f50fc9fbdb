---------------------------- MODULE RemoteCalls ----------------------------
(***************************************************************************)
(* Calls made over HTTP: SharedOSClient, the handler that routes them      *)
(* (createSharedOSHandler), the kernel's operations as the handler meets   *)
(* them, the tools that turn a call into a file operation or a message     *)
(* (createFileTools, createMessageRequestTool), and the files provider.    *)
(* The connection may be lost at any time; the server hears of it late or  *)
(* never. Nothing here retries by itself: a caller that does makes the     *)
(* same call again.                                                        *)
(***************************************************************************)
EXTENDS FileProvider, ToolRegistry

CONSTANTS
    Requests,    (* what callers ask for: [route, id, wellFormed, asks]          *)
    Once,        (* the text a caller means to append once                       *)
    Namespaces,  (* the tool namespaces a host's settings may enable             *)
    Enabled      (* those it has enabled to begin with                           *)

(* SHAREDOS_ROUTES, whose paths and verbs are of no account here. A turn   *)
(* is TurnEnvelope's. invokeTool is two, by the handler the call is for:   *)
(* a message request's arguments are another schema's.                     *)
asides == {"health", "authorize", "reach"}
listings == {"listTools", "listToolNamespaces"}
toolRoutes == {"invokeTool", "requestMessage"}
Routes == asides \union listings \union toolRoutes \union {"updateToolNamespaces", "invokeResource", "sendMessage"}

(* The client reads these by the route's schema before it sends them.      *)
readFirst == {"updateToolNamespaces", "invokeResource"}

(* A patch says something, and nothing both ways.                          *)
isPatch(asks) ==
    /\ asks.enable \union asks.disable # {}
    /\ asks.enable \intersect asks.disable = {}

Ids == {r.id : r \in Requests}

ASSUME RemoteCallsAssumption ==
    /\ \A r \in Requests :
        /\ r.route \in Routes /\ r.wellFormed \in BOOLEAN
        /\ r.route = "invokeResource" => r.asks.action \in Actions /\ "to" \notin DOMAIN r.asks
        /\ r.route \in {"sendMessage", "requestMessage"} => "to" \in DOMAIN r.asks
        /\ (r.route = "updateToolNamespaces" /\ r.wellFormed) => isPatch(r.asks)
        /\ r.route = "invokeTool" => r.asks.tool \in DOMAIN standardTools
        /\ None \notin {r.asks, IF r.route = "invokeTool"
                                THEN parsedCall(r.asks.tool, r.asks.arguments) ELSE r.asks}
    /\ Enabled \subseteq Namespaces
    /\ None \notin Conflicts \union Denials \union {"done", "thrown", "provider_error"}

VARIABLES
    call,        (* [Calls -> one call's progress]                               *)
    prepared,    (* what the handlers hold between their two hooks               *)
    told,        (* [Calls -> what the caller got: a status and a word]          *)
    enabled,     (* the namespaces the host's settings have enabled              *)
    patches,     (* the patches applied to them, in order                        *)
    cameTo       (* whether a file has come to a version a request expects        *)

settingsVars == <<enabled, patches>>

vars == <<providerVars, call, prepared, told, settingsVars, cameTo>>

unsent ==
    [at |-> "unsent", request |-> None, enabled |-> {}, requirement |-> None, asked |-> None,
     response |-> None, shown |-> None]

Init ==
    /\ ProviderInit
    /\ call = [c \in Calls |-> unsent]
    /\ prepared = [slot \in Calls \union Ids |-> None]
    /\ told = [c \in Calls |-> None]
    /\ enabled = Enabled
    /\ patches = <<>>
    /\ cameTo = FALSE

-----------------------------------------------------------------------------
request(c) == call[c].request

moved(c, place) == [call EXCEPT ![c].at = place]

answering(c, status, word) ==
    [call EXCEPT ![c].at = "answering", ![c].response = [status |-> status, word |-> word]]

result(c, word) == answering(c, 200, word)

(* createSharedOSHandler's catch, for the kernel's own errors and for what *)
(* a fired signal throws.                                                  *)
thrown(c) == answering(c, 500, "internal_error")

(* A host's error that says so is a refusal.                               *)
notPermitted(c) == answering(c, 403, "permission_denied")

-----------------------------------------------------------------------------
(* The client                                                              *)

(* Some of its methods read their argument by the route's schema first.    *)
Sends(c, asked) ==
    /\ call[c].at = "unsent"
    /\ IF asked.route \in readFirst /\ ~asked.wellFormed
       THEN /\ call' = [call EXCEPT ![c] = [unsent EXCEPT !.at = "over", !.request = asked]]
            /\ told' = [told EXCEPT ![c] = [status |-> 0, word |-> "unsent"]]
       ELSE /\ call' = [call EXCEPT ![c] = [unsent EXCEPT !.at = "sent", !.request = asked]]
            /\ UNCHANGED told
    /\ UNCHANGED <<providerVars, prepared, settingsVars, cameTo>>

(* fetch rejects: the connection is gone, or the caller's signal has fired.*)
LosesConnection(c) ==
    /\ call[c].at # "unsent" /\ told[c] = None
    /\ told' = [told EXCEPT ![c] = [status |-> 0, word |-> "lost"]]
    /\ UNCHANGED <<providerVars, call, prepared, settingsVars, cameTo>>

(* The answer arrives: as it was sent, or as something in between made it. *)
Hears(c) ==
    /\ call[c].at = "answering" /\ told[c] = None
    /\ LET response == call[c].response IN
       \E word \in {response.word, "invalid_response"} \union
                     (IF response.status \in {200, 202} THEN {} ELSE {"request_failed"}) :
         told' = [told EXCEPT ![c] = [status |-> response.status, word |-> word]]
    /\ call' = moved(c, "over")
    /\ UNCHANGED <<providerVars, prepared, settingsVars, cameTo>>

-----------------------------------------------------------------------------
(* The handler                                                             *)

(* The server's own signal for the request, once it sees the caller gone.  *)
Disconnects(c) ==
    /\ call[c].at \notin {"unsent", "answering", "over"} /\ told[c] # None /\ c \notin aborted
    /\ aborted' = aborted \union {c}
    /\ UNCHANGED <<tree, snapshots, io, changed, call, prepared, told, settingsVars, cameTo>>

(* resolveContext may refuse with an error of its own, throw one that says *)
(* it is a refusal or one that does not, or answer with what is no         *)
(* context; then the path, the verb, and the body. What a tool is to do    *)
(* with the arguments of a call is the kernel's to say, but a body that is *)
(* no call at all is refused here. The namespaces a call's context has     *)
(* enabled are those of that moment.                                       *)
refusals ==
    {[status |-> 401, word |-> "of the host"], [status |-> 403, word |-> "permission_denied"],
     [status |-> 500, word |-> "internal_error"], [status |-> 500, word |-> "invalid_access_context"],
     [status |-> 404, word |-> "not_found"], [status |-> 405, word |-> "method_not_allowed"],
     [status |-> 400, word |-> "invalid_json"], [status |-> 400, word |-> "invalid_request"]}

Routed(c) ==
    /\ call[c].at = "sent"
    /\ \/ \E refusal \in refusals :
            call' = answering(c, refusal.status, refusal.word)
       \/ IF request(c).route \notin toolRoutes /\ ~request(c).wellFormed
          THEN call' = answering(c, 400, "invalid_request")
          ELSE call' = [moved(c, IF request(c).route \in toolRoutes THEN "preparing"
                                 ELSE IF request(c).route \in asides THEN "reading"
                                 ELSE IF request(c).route \in listings THEN "listing"
                                 ELSE IF request(c).route = "updateToolNamespaces" THEN "patching"
                                 ELSE "deciding") EXCEPT ![c].enabled = enabled]
    /\ UNCHANGED <<providerVars, prepared, told, settingsVars, cameTo>>

-----------------------------------------------------------------------------
(* The kernel and the handlers of its tools                                *)

(* Where a handler keeps what a call was prepared to do: on the call       *)
(* itself, which the kernel hands to both hooks.                           *)
slotById(c) == request(c).id

slotOf(c) == c

(* What a request needs: an action on a path, or to reach the recipient.   *)
needs(asks) ==
    IF "path" \in DOMAIN asks
    THEN [namespace |-> asks.namespace, action |-> asks.action, path |-> asks.path]
    ELSE [namespace |-> "sharedos.messaging", action |-> "send", path |-> <<asks.to>>]

(* What a call's handler makes of its arguments.                           *)
madeOf(c) ==
    IF request(c).route = "invokeTool"
    THEN parsedCall(request(c).asks.tool, request(c).asks.arguments)
    ELSE request(c).asks

isAccepted(c) ==
    IF request(c).route = "invokeTool"
    THEN acceptsArguments(request(c).asks.tool, request(c).asks.arguments)
    ELSE request(c).wellFormed

toolOf(c) ==
    IF request(c).route = "invokeTool" THEN request(c).asks.tool ELSE messageDefinition.name

(* A call no catalogue could be resolved for, or whose tool is not there,  *)
(* not enabled or not its caller's to discover.                            *)
NotFound(c) ==
    /\ call[c].at = "preparing"
    /\ call' = IF c \in aborted THEN thrown(c) ELSE result(c, "denied")
    /\ UNCHANGED <<providerVars, prepared, told, settingsVars, cameTo>>

NotResolved(c) ==
    /\ call[c].at = "preparing" /\ c \notin aborted
    /\ \E offered \in Answers : derivedRegistry(offered) = Refused
    /\ call' = result(c, "tool_catalog_unavailable")
    /\ UNCHANGED <<providerVars, prepared, told, settingsVars, cameTo>>

(* The call is found in the catalogue, its arguments are parsed, and its   *)
(* requirement is resolved, which must stay within the tool's own. A file  *)
(* tool parses a call once; the message tool makes its envelope anew.      *)
Prepares(c) ==
    /\ call[c].at = "preparing" /\ c \notin aborted
    /\ \E offered \in Answers :
         LET registry == derivedRegistry(offered)
             definition == registry[toolOf(c)]
             held == prepared[slotOf(c)]
             made == IF request(c).route = "invokeTool" /\ held # None THEN held ELSE madeOf(c) IN
         /\ registry # Refused
         /\ definition.namespace \in call[c].enabled
         /\ IF ~isAccepted(c)
            THEN call' = result(c, "invalid_tool_arguments") /\ UNCHANGED prepared
            ELSE /\ prepared' = [prepared EXCEPT ![slotOf(c)] = made]
                 /\ call' = IF isWithinDefinition(definition, needs(made))
                            THEN [moved(c, "deciding") EXCEPT ![c].requirement = needs(made)]
                            ELSE result(c, "invalid_tool_requirement")
    /\ UNCHANGED <<providerVars, told, settingsVars, cameTo>>

(* The authorizer decides, and its decision is recorded. Only what is      *)
(* allowed and on record reaches a port.                                   *)
Refuses(c) ==
    /\ call[c].at = "deciding"
    /\ \/ c \notin aborted /\ call' = result(c, "denied")
       \/ call' = thrown(c)
    /\ UNCHANGED <<providerVars, prepared, told, settingsVars, cameTo>>

portOf(asks) ==
    IF "to" \in DOMAIN asks THEN "delivering"
    ELSE IF asks.namespace = "files" THEN "provider" ELSE "elsewhere"

Allows(c) ==
    /\ call[c].at = "deciding" /\ c \notin aborted
    /\ LET asks == IF request(c).route \in toolRoutes THEN prepared[slotOf(c)] ELSE request(c).asks IN
       /\ call' = [moved(c, portOf(asks)) EXCEPT
                     ![c].asked = asks,
                     ![c].requirement = IF request(c).route \in toolRoutes THEN @ ELSE needs(asks)]
       /\ IF portOf(asks) = "provider" THEN ProviderAsked(c, asks) ELSE UNCHANGED io
    /\ UNCHANGED <<tree, snapshots, aborted, changed, prepared, told, settingsVars, cameTo>>

(* Health, reach and decisions: an answer, or a failure of the kernel's.   *)
Reads(c) ==
    /\ call[c].at = "reading"
    /\ \/ call' = result(c, "succeeded")
       \/ call' = thrown(c)
    /\ UNCHANGED <<providerVars, prepared, told, settingsVars, cameTo>>

(* A listing: the tools this context may discover, none of them where its  *)
(* authority could not be loaded, or its namespaces. Its record comes      *)
(* first. What an update answers with is a listing too, for what its patch *)
(* left enabled.                                                           *)
Lists(c) ==
    /\ call[c].at = "listing"
    /\ \/ call' = thrown(c)
       \/ /\ c \notin aborted
          /\ \E offered \in Answers : \E discoverable \in SUBSET Namespaces \union {None} :
               /\ (derivedRegistry(offered) = Refused \/ request(c).route # "listTools")
                     => discoverable = None
               /\ derivedRegistry(offered) = Refused => request(c).route = "listTools"
               /\ call' = [result(c, "succeeded") EXCEPT
                             ![c].shown = [offered |-> offered, discoverable |-> discoverable]]
    /\ UNCHANGED <<providerVars, prepared, told, settingsVars, cameTo>>

(* What a listing shows, and what its record says of it: a digest of what  *)
(* was shown, as it would be published, and how much was not.              *)
shownTools(c) ==
    IF call[c].shown.discoverable = None THEN {}
    ELSE visibleTools(derivedRegistry(call[c].shown.offered), call[c].enabled,
                      call[c].shown.discoverable)

catalogListed(c) ==
    [catalogHash |-> catalogHash(publishToolCatalog(shownTools(c))),
     enabledNamespaces |-> call[c].enabled,
     withheldCount |->
       IF call[c].shown.discoverable = None THEN 0
       ELSE Cardinality(DOMAIN derivedRegistry(call[c].shown.offered)) - Cardinality(shownTools(c))]

shownNamespaces(c) ==
    namespaceCatalog(derivedRegistry(call[c].shown.offered), call[c].enabled).namespaces

(* #invokePort: what was thrown under a fired signal is thrown on. The     *)
(* outcome's own record does not change the answer.                        *)
KernelAnswers(c) ==
    /\ call[c].at = "provider" /\ io[c].ending # None
    /\ LET ending == io[c].ending IN
       call' = IF ending = "thrown" THEN thrown(c)
               ELSE IF statusOf(ending) = "failed" THEN result(c, ending)
               ELSE result(c, statusOf(ending))
    /\ UNCHANGED <<providerVars, prepared, told, settingsVars, cameTo>>

(* The transport takes the message, or does not; or it fails, and may have *)
(* taken it all the same. sendMessage answers with the receipt, under a    *)
(* status of its own for one that is accepted and not yet delivered; the   *)
(* tool goes on to the reply.                                              *)
Delivers(c) ==
    /\ call[c].at = "delivering"
    /\ \/ /\ changed' = changed \union {c}
          /\ IF request(c).route = "sendMessage"
             THEN \E status \in {200, 202} : call' = answering(c, status, "succeeded")
             ELSE call' = IF c \in aborted THEN thrown(c) ELSE moved(c, "awaitingReply")
       \/ /\ UNCHANGED changed
          /\ call' = result(c, IF request(c).route = "sendMessage" THEN "denied"
                               ELSE "message_request_not_accepted")
       \/ /\ changed' \in {changed, changed \union {c}}
          /\ call' = IF c \in aborted THEN thrown(c) ELSE result(c, "message_delivery_failed")
    /\ UNCHANGED <<tree, snapshots, io, aborted, prepared, told, settingsVars, cameTo>>

(* A message's id is its call's own. A reply is to one message.            *)
replyMatchesRequest(c, replyTo) == replyTo = c

Replied(c) ==
    /\ call[c].at = "awaitingReply"
    /\ \/ /\ \E replyTo \in {d \in Calls : call[d].asked # None /\ request(d).route = "requestMessage"} :
               call' = IF c \in aborted THEN thrown(c)
                       ELSE IF replyMatchesRequest(c, replyTo) THEN result(c, "succeeded")
                       ELSE result(c, "invalid_message_reply")
       \/ call' = IF c \in aborted THEN thrown(c) ELSE result(c, "message_reply_resolution_failed")
    /\ UNCHANGED <<providerVars, prepared, told, settingsVars, cameTo>>

(* A repository's provider is the host's own. It may do what it is asked   *)
(* and say otherwise, or say nothing that is a result.                     *)
RepoAnswers(c) ==
    /\ call[c].at = "elsewhere"
    /\ \/ changed' = changed \union {c} /\ call' = result(c, "succeeded")
       \/ /\ changed' \in {changed, changed \union {c}}
          /\ call' \in {result(c, "of the provider"), result(c, "invalid_resource_result"), thrown(c)}
    /\ UNCHANGED <<tree, snapshots, io, aborted, prepared, told, settingsVars, cameTo>>

-----------------------------------------------------------------------------
(* Namespace settings (updateToolNamespaces and the store's applyUpdate,   *)
(* applyToolNamespaceUpdate)                                               *)

(* Mutant: a patch is applied to what the request's context was resolved   *)
(* with.                                                                   *)
appliedAsSeen(c, patch) == (call[c].enabled \union patch.enable) \ patch.disable

(* A patch is applied to what the store holds when it is applied.          *)
appliedTo(c, patch) == (enabled \union patch.enable) \ patch.disable

(* There may be no store, and one there is may refuse: with an error of    *)
(* its own, or as not permitted. What goes wrong once the patch is applied *)
(* (its answer is no selection, the caller has gone, no catalogue can be   *)
(* resolved for it) is the listing's that follows.                         *)
PatchesNamespaces(c) ==
    /\ call[c].at = "patching"
    /\ \/ call' \in {thrown(c), notPermitted(c)} /\ UNCHANGED <<settingsVars, changed>>
       \/ /\ c \notin aborted
          /\ LET patch == request(c).asks IN
             /\ enabled' = appliedTo(c, patch)
             /\ patches' = Append(patches, patch)
             /\ changed' = changed \union {c}
             /\ call' = [moved(c, "listing") EXCEPT ![c].enabled = enabled']
    /\ UNCHANGED <<tree, snapshots, io, aborted, prepared, told, cameTo>>

-----------------------------------------------------------------------------
textAt(t, path) == IF t[path].kind = "file" THEN t[path].text ELSE <<>>

Expected ==
    {r.asks.arguments.expectedVersion : r \in {r \in Requests :
        r.route = "invokeTool" /\ "expectedVersion" \in DOMAIN r.asks.arguments}}

(* What is to be appended once is nowhere else: not in the tree as it was  *)
(* found, nor in what any other call writes, what an operation that was    *)
(* given no content writes included. A call that appends it says under     *)
(* which version.                                                          *)
hasNoOnce(text) == text \in Seq(STRING) /\ \A i \in DOMAIN text : text[i] # Once

appendsOnce(made) ==
    /\ made.action = "append" /\ made.input.content = <<Once>>
    /\ "expectedVersion" \in DOMAIN made.input /\ made.input.expectedVersion \in Expected \ {None}

ASSUME OnceAssumption ==
    /\ Once \in STRING /\ hasNoOnce(<<"null">>)
    /\ \A path \in Paths : hasNoOnce(textAt(Seed, path))
    /\ \A r \in Requests : r.route \in {"invokeTool", "invokeResource"} =>
          LET made == IF r.route = "invokeTool" THEN parsedCall(r.asks.tool, r.asks.arguments)
                      ELSE r.asks IN
          "content" \in DOMAIN made.input => hasNoOnce(made.input.content) \/ appendsOnce(made)

(* The provider goes on, whoever waits for it.                             *)
Provides(c) ==
    /\ call[c].at = "provider"
    /\ ProviderStep(c)
    /\ cameTo' = (cameTo \/ \E path \in Paths :
                      textAt(tree', path) # textAt(tree, path) /\ textAt(tree', path) \in Expected)
    /\ UNCHANGED <<call, prepared, told, settingsVars>>

Step(c) ==
    \/ \E asked \in Requests : Sends(c, asked)
    \/ LosesConnection(c) \/ Hears(c) \/ Disconnects(c)
    \/ Routed(c) \/ NotFound(c) \/ NotResolved(c) \/ Prepares(c) \/ Refuses(c) \/ Allows(c)
    \/ Reads(c) \/ Lists(c) \/ Provides(c) \/ KernelAnswers(c)
    \/ Delivers(c) \/ Replied(c) \/ RepoAnswers(c)
    \/ PatchesNamespaces(c)

Next == \E c \in Calls : Step(c)

Spec == Init /\ [][Next]_vars

-----------------------------------------------------------------------------
(* A caller that never heard the answer may make the call again, at once   *)
(* or later: what it appends under an expected version is in the file at   *)
(* most once, unless the file came to that version again in between.       *)
(* (#append reads what it adds to before #assertVersion does.)             *)
AppendedOnce ==
    ~cameTo => \A path \in Paths :
        LET text == textAt(tree, path) IN
        \A i, j \in DOMAIN text : text[i] = Once /\ text[j] = Once => i = j

mutations ==
    {"create", "replace", "append", "delete", "snapshot:create", "snapshot:restore"}

mutates(c) ==
    \/ request(c).route \in {"sendMessage", "requestMessage", "updateToolNamespaces"}
    \/ operation(c) # None /\ operation(c).action \in mutations

refusedPartWay(c) == io[c].left = "rest"

showsItsOwn(c) ==
    /\ \A tool \in shownTools(c) :
        /\ tool.namespace \in catalogListed(c).enabledNamespaces
        /\ tool.name \in DOMAIN hostTools => tool = hostTools[tool.name]
    /\ \A tool \in catalogListed(c).catalogHash :
        tool.annotations["readOnly"] /\ tool.name \in DOMAIN standardTools
            => standardTools[tool.name].action \notin mutations

(* A caller told its request is at fault or not permitted finds nothing    *)
(* changed by it; one told of a conflict or a denial finds what it asked   *)
(* for not done, in no part of it (but for the recursive delete that is    *)
(* refused part way; and the directories above a file may have been made); *)
(* and one told of success finds it done: whatever else ran between the    *)
(* provider's looks and its writes. One that is shown tools is shown the   *)
(* host's own under the names the host gave, none a namespace's its        *)
(* settings leave out, and none as read-only that writes.                  *)
ClientIsToldWhatHappened ==
    \A c \in Calls : told[c] # None =>
        LET answer == told[c] IN
        /\ answer.status \in 400..499 => c \notin changed /\ io[c].left = None
        /\ answer.word \in Conflicts => c \notin changed
        /\ answer.word = "denied" => c \notin changed \/ refusedPartWay(c)
        /\ (answer.word = "succeeded" /\ mutates(c)) => c \in changed
        /\ (call[c].shown # None /\ request(c).route = "listTools") => showsItsOwn(c)

(* What is done for a call is what it asked for, on the path or to the     *)
(* recipient its requirement named: two calls prepared through one handler *)
(* at the same time never take each other's arguments or envelope, though  *)
(* they came with one id.                                                  *)
AuthorizedIsDone ==
    \A c \in Calls : call[c].asked # None =>
        /\ call[c].asked = madeOf(c)
        /\ call[c].requirement = needs(madeOf(c))
        /\ operation(c) \in {None, call[c].asked}

(* No patch of the namespace settings undoes another, nor does one made    *)
(* again: each namespace is as the last patch that named it left it, and   *)
(* the caller of a patch is shown what its own has done.                   *)
PatchesHold ==
    /\ \A namespace \in Namespaces :
        LET naming == {i \in DOMAIN patches :
                         namespace \in patches[i].enable \union patches[i].disable} IN
        namespace \in enabled <=>
            IF naming = {} THEN namespace \in Enabled
            ELSE namespace \notin patches[Max(naming)].disable
    /\ \A c \in Calls :
        (call[c].shown # None /\ request(c).route = "updateToolNamespaces") =>
            \A shown \in shownNamespaces(c) :
                /\ shown.namespace \in request(c).asks.enable => shown.enabled
                /\ shown.namespace \in request(c).asks.disable => ~shown.enabled

=============================================================================
