----------------------------- MODULE AgentCards -----------------------------
(***************************************************************************)
(* Where an actor may operate, described from the grants in force and      *)
(* never stored: a turn's own reach, and the card of another agent, read   *)
(* under the reader's own authority.                                       *)
(*                                                                         *)
(* packages/core/src: kernel.ts (readAgentCard, reach), agent-card.ts,     *)
(* authorization.ts (reach), reach.ts. The store answers each budget at    *)
(* its own instant, while other operations spend.                          *)
(***************************************************************************)
EXTENDS GrantStore

CONSTANTS
    Readers,        (* reads under way                                 *)
    ReadContexts,   (* the contexts they are made in                   *)
    Subjects,       (* the agents whose cards are read                 *)
    Directory,      (* the directory's namespace, DIRECTORY_NAMESPACE  *)
    DirectoryRoot,  (* its one segment, DIRECTORY_RESOURCE_ROOT        *)
    DirectoryRead,  (* the action it is read with                      *)
    Offered         (* the namespaces the turn's tools work in         *)

VARIABLE read

Views == {"identity", "namespaces", "reach"}

NoRead ==
    [at |-> "none", kind |-> None, context |-> None, subject |-> None, view |-> None,
     loaded |-> {}, left |-> {}, spent |-> {}, passedOver |-> {}, entries |-> {},
     answer |-> None]

-----------------------------------------------------------------------------
(* The directory *)

(* The reach view is the subject's own path; the narrower ones lie below.  *)
agentCardPath(subject, view) ==
    IF view = "reach" THEN <<DirectoryRoot, subject>> ELSE <<DirectoryRoot, subject, view>>

agentCardRequest(context, subject, view) ==
    [namespace |-> Directory, path |-> agentCardPath(subject, view),
     owner |-> context.owner, action |-> DirectoryRead]

(* The second load differs from the reader's in its actor alone.           *)
subjectCardContext(context, subject) == [context EXCEPT !.actor = subject]

(* A decision that spends nothing; the host's ceiling may refuse besides.  *)
mayRead(grants, context, subject, view) ==
    \E grant \in grants :
        /\ isInForce(grant, context) /\ hasUses(grant)
        /\ permits(grant.capabilities, agentCardRequest(context, subject, view), context)

-----------------------------------------------------------------------------
(* Deriving a reach *)

spentOf(grants) == {grant \in grants : ~hasUses(grant)}

(* A grant's places in this context's world, its owner implied.            *)
entriesOf(grant, context) ==
    {[namespace |-> capability.namespace, path |-> capability.path,
      actions |-> capability.actions, scope |-> capability.scope] :
        capability \in {c \in grant.capabilities : resourceBelongsToContext(c, context)}}

(* The namespaces view keeps which actions are to be had in each.          *)
summarizeReach(entries) ==
    {[namespace |-> entry.namespace,
      actions |-> UNION {e.actions : e \in {other \in entries : other.namespace = entry.namespace}}] :
        entry \in entries}

(* A turn is told the part of its reach its tools could exercise.          *)
reachThroughTools(entries) == {entry \in entries : entry.namespace \in Offered}

(* The card, or what the turn is told.                                     *)
composed(r) ==
    IF r.kind = "turn" THEN reachThroughTools(r.entries)
    ELSE IF r.view = "namespaces" THEN summarizeReach(r.entries)
    ELSE r.entries

served(r) == [r EXCEPT !.at = "served", !.answer = composed(r)]

refused(r, servable) == [r EXCEPT !.at = "refused", !.answer = servable]

-----------------------------------------------------------------------------
(* Reading *)

(* Nothing of the load is considered yet.                                  *)
deriving(r, context) ==
    [r EXCEPT !.at = "deriving", !.context = context, !.loaded = grantsOf(context),
              !.left = grantsOf(context), !.spent = spentOf(grantsOf(context))]

(* The turn's own reach asks nobody's leave, but may find no authority:    *)
(* the source throws, or what it answers is not to be used.                *)
ReadsReach(reader, context) ==
    LET r == [NoRead EXCEPT !.kind = "turn"] IN
    /\ read[reader].at = "none"
    /\ \/ /\ resolves(context)
          /\ read' = [read EXCEPT ![reader] = deriving(r, context)]
       \/ read' = [read EXCEPT ![reader] = refused(r, {})]
    /\ UNCHANGED store

(* A card is read only by whom the directory's own grants let read it. A   *)
(* refusal says which other views of this subject they would.              *)
ReadsCard(reader, context, subject, view) ==
    LET r == [NoRead EXCEPT !.kind = "card", !.context = context, !.subject = subject,
                            !.view = view]
        grants == grantsOf(context)
    IN  /\ read[reader].at = "none"
        /\ \/ /\ resolves(context) /\ mayRead(grants, context, subject, view)
              /\ read' = [read EXCEPT ![reader] = [r EXCEPT !.at = "admitted"]]
           \/ \E servable \in SUBSET {other \in Views \ {view} :
                                         mayRead(grants, context, subject, other)} :
                 read' = [read EXCEPT ![reader] = refused(r, servable)]
        /\ UNCHANGED store

(* An identity card is made of no grant, and loads none.                   *)
ServesIdentity(reader) ==
    /\ read[reader].at = "admitted" /\ read[reader].view = "identity"
    /\ read' = [read EXCEPT ![reader] = [@ EXCEPT !.at = "served", !.answer = {}]]
    /\ UNCHANGED store

(* The second load.                                                        *)
LoadsSubject(reader) ==
    LET r == read[reader]
        context == subjectCardContext(r.context, r.subject)
    IN  /\ r.at = "admitted" /\ r.view # "identity"
        /\ read' = [read EXCEPT ![reader] =
               IF resolves(context) THEN deriving(r, context) ELSE refused(r, {})]
        /\ UNCHANGED store

(* The source throws at the second load: no card rather than an empty one. *)
LoadFails(reader) ==
    /\ read[reader].at = "admitted" /\ read[reader].view # "identity"
    /\ read' = [read EXCEPT ![reader] = refused(@, {})]
    /\ UNCHANGED store

(* Mutant: a budget that cannot be read leaves its grant out.              *)
narrowed(r, grant) == [r EXCEPT !.left = @ \ {grant}]

unreadable(r, grant) == refused(r, {})

considered(r, grant) ==
    [r EXCEPT !.left = @ \ {grant},
              !.entries = IF isInForce(grant, r.context) /\ hasUses(grant)
                          THEN @ \cup entriesOf(grant, r.context)
                          ELSE @]

Considers(reader, grant) ==
    /\ read[reader].at = "deriving" /\ grant \in read[reader].left
    /\ read' = [read EXCEPT ![reader] = considered(@, grant)]
    /\ UNCHANGED store

(* A grant's own checks end without an answer - the chain's resolver or    *)
(* the host's verifier throws, or the parent is nowhere to be found - and  *)
(* the grant is passed over like one that is not in force.                 *)
skipped(r, grant) == [r EXCEPT !.left = @ \ {grant}, !.passedOver = @ \cup {grant}]

CheckFails(reader, grant) ==
    /\ read[reader].at = "deriving" /\ grant \in read[reader].left
    /\ read' = [read EXCEPT ![reader] = skipped(@, grant)]
    /\ UNCHANGED store

(* The usage store cannot be read: no reach rather than a narrower one.    *)
BudgetUnreadable(reader, grant) ==
    /\ read[reader].at = "deriving" /\ grant \in read[reader].left
    /\ isInForce(grant, read[reader].context) /\ grant.constraints.maxUses # None
    /\ read' = [read EXCEPT ![reader] = unreadable(@, grant)]
    /\ UNCHANGED store

Serves(reader) ==
    /\ read[reader].at = "deriving" /\ read[reader].left = {}
    /\ read' = [read EXCEPT ![reader] = served(@)]
    /\ UNCHANGED store

-----------------------------------------------------------------------------

CardsInit == read = [reader \in Readers |-> NoRead]

Reads(reader) ==
    \/ \E context \in ReadContexts :
          \/ ReadsReach(reader, context)
          \/ \E subject \in Subjects, view \in Views : ReadsCard(reader, context, subject, view)
    \/ ServesIdentity(reader)
    \/ LoadsSubject(reader)
    \/ LoadFails(reader)
    \/ \E grant \in read[reader].left :
          \/ Considers(reader, grant)
          \/ CheckFails(reader, grant)
          \/ BudgetUnreadable(reader, grant)
    \/ Serves(reader)

-----------------------------------------------------------------------------
(* Properties *)

isSummary(r) == r.kind = "card" /\ r.view = "namespaces"

tells(r, use) ==
    \E entry \in r.answer :
        /\ entry.namespace = use.namespace
        /\ use.action \in entry.actions \/ AnyAction \in entry.actions
        /\ ~isSummary(r) => IF entry.scope = "exact" THEN entry.path = use.path
                            ELSE pathIsWithin(entry.path, use.path)

(* A grant opens the use itself; to a summary, some use like it.           *)
opens(grant, r, use) ==
    /\ isInForce(grant, r.context)
    /\ \E capability \in grant.capabilities :
          /\ concernsSameResource(capability, use, r.context)
          /\ ~isSummary(r) => capabilityMatches(capability, use, r.context)

toldOf(r, use) ==
    /\ resourceBelongsToContext(use, r.context)
    /\ r.kind = "turn" => use.namespace \in Offered

(* The uses a reach tells of that its subject's grants did not open when   *)
(* they were loaded, and those some of these grants open still that it     *)
(* leaves out.                                                             *)
overstated(r) ==
    {use \in Uses : /\ toldOf(r, use) /\ tells(r, use)
                    /\ ~\E grant \in r.loaded \ r.spent : opens(grant, r, use)}

leftOut(r, grants) ==
    {use \in Uses : /\ toldOf(r, use) /\ ~tells(r, use)
                    /\ \E grant \in grants : hasUses(grant) /\ opens(grant, r, use)}

isServedReach(r) == r.at = "served" /\ r.view # "identity"

(* A served reach is true of its subject, whatever was spent meanwhile: a  *)
(* use it tells of was open when the authority was loaded, and no use that *)
(* a grant is known to open still is left out for want of a dependency:    *)
(* only a grant whose own checks ended without an answer is missing (reach: *)
(* a budget that cannot be read makes the whole answer unavailable).       *)
ReachIsTrue ==
    \A reader \in Readers :
        isServedReach(read[reader]) =>
            LET r == read[reader] IN
            overstated(r) = {} /\ leftOut(r, r.loaded \ r.passedOver) = {}

=============================================================================
