---------------------------- MODULE ToolRegistry ----------------------------
(***************************************************************************)
(* The tools a request is answered from (ToolRegistry and the kernel's     *)
(* #deriveToolRegistry), the namespaces as their settings show them, and   *)
(* the catalogue as a record names it and a harness receives it. A         *)
(* registry takes each name once to its definition; Refused is one that    *)
(* could not be built. Descriptions and schemas are left out.              *)
(***************************************************************************)
EXTENDS OsTools, FiniteSets

CONSTANTS
    ToolProviders,   (* the host's context tool providers, in the order of their ids *)
    Offers           (* what one of them may answer with: a sequence of definitions  *)

CONSTANT Refused

-----------------------------------------------------------------------------
(* Definitions                                                             *)

(* What it needs is an action on a resource namespace; the namespace it is *)
(* listed under is another thing. hints holds the annotations it states.   *)
toolDefinition(name, namespace, source, required, readWrite, hints) ==
    [name |-> name, namespace |-> namespace, source |-> source, readWrite |-> readWrite,
     required |-> required, hints |-> hints]

anywhere(namespace, action) == [namespace |-> namespace, path |-> <<>>, action |-> action]

reads == {"list", "stat", "read", "search", "grep", "snapshot:list", "status", "diff", "log"}
destroys == {"replace", "delete", "snapshot:restore"}

standardDefinition(tool) ==
    LET action == standardTools[tool].action IN
    toolDefinition(tool, namespaceOf(tool), "sharedos", anywhere(namespaceOf(tool), action),
                   IF action \in reads THEN "read" ELSE "write",
                   [hint \in {h \in {"readOnly", "destructive"} :
                                 action \in (IF h = "readOnly" THEN reads ELSE destroys)} |-> TRUE])

messageDefinition ==
    toolDefinition("messages.request", "messages", "sharedos",
                   anywhere("sharedos.messaging", "send"), "write",
                   [readOnly |-> FALSE, destructive |-> TRUE, idempotent |-> FALSE])

states(definition, hint) == hint \in DOMAIN definition.hints /\ definition.hints[hint]

(* What the contract refuses beyond a field's own shape.                   *)
isWellDefined(definition) ==
    /\ definition.readWrite = "read" => ~states(definition, "destructive")
    /\ definition.readWrite = "write" => ~states(definition, "readOnly")

-----------------------------------------------------------------------------
(* Registries                                                              *)

(* A name is one tool's: a second of it is refused, never put in its place.*)
isRefused(definition, taken) == ~isWellDefined(definition) \/ definition.name \in taken

(* What the host registered at construction.                               *)
hostTools == [tool \in DOMAIN standardTools |-> standardDefinition(tool)]

(* A copy of the host's own, the message tool, then whatever each provider *)
(* answered. A provider that fails, or answers with what is no list, leaves*)
(* no catalogue at all, and so does one definition that is refused.        *)
derivedRegistry(answers) ==
    LET own == [name \in DOMAIN hostTools \union {messageDefinition.name} |->
                   IF name \in DOMAIN hostTools THEN hostTools[name] ELSE messageDefinition]
        offered == UNION {{<<provider, i>> : i \in DOMAIN answers[provider]} :
                             provider \in Range(ToolProviders)}
        definition(place) == answers[place[1]][place[2]]
        named(places) == {definition(place).name : place \in places}
    IN  IF \/ \E provider \in Range(ToolProviders) : answers[provider] = Refused
           \/ \E place \in offered : isRefused(definition(place), DOMAIN own \union named(offered \ {place}))
        THEN Refused
        ELSE [name \in DOMAIN own \union named(offered) |->
                 IF name \in DOMAIN own THEN own[name]
                 ELSE definition(CHOOSE place \in offered : definition(place).name = name)]

Answers == [Range(ToolProviders) -> Offers \union {Refused}]

-----------------------------------------------------------------------------
(* What is shown                                                           *)

(* A call's requirement stays within the one its tool was registered with. *)
isWithinDefinition(definition, requirement) ==
    /\ requirement.namespace = definition.required.namespace
    /\ requirement.action = definition.required.action
    /\ IsPrefix(definition.required.path, requirement.path)

summary(namespaces) ==
    LET chosen == {n \in namespaces : n.enabled} IN
    [total |-> Cardinality(namespaces), enabled |-> Cardinality(chosen),
     disabled |-> Cardinality(namespaces \ chosen)]

(* Every namespace some tool is of, whatever the settings say of it.       *)
namespaceCatalog(registry, enabledToolNamespaces) ==
    LET grouped(namespace) == {d \in Range(registry) : d.namespace = namespace}
        namespaces ==
          {[namespace |-> namespace,
            sources |-> {d.source : d \in grouped(namespace)},
            toolCount |-> Cardinality(grouped(namespace)),
            enabled |-> namespace \in enabledToolNamespaces]
             : namespace \in {d.namespace : d \in Range(registry)}} IN
    [namespaces |-> namespaces, summary |-> summary(namespaces)]

(* A tool without what authority it needs. A hint nobody stated is left    *)
(* out, but for read-only, which its classification always tells.          *)
publishToolDefinition(definition) ==
    [name |-> definition.name,
     annotations |-> [hint \in {"readOnly"} \union DOMAIN definition.hints |->
                         IF hint \in DOMAIN definition.hints THEN definition.hints[hint]
                         ELSE definition.readWrite = "read"],
     metadata |-> [namespace |-> definition.namespace, source |-> definition.source]]

(* In the order of their names, for which the set stands; two of one name  *)
(* are refused.                                                            *)
publishToolCatalog(definitions) ==
    IF \E d, e \in definitions : d # e /\ d.name = e.name THEN Refused
    ELSE {publishToolDefinition(d) : d \in definitions}

(* A digest of what was published, which stands for it, and of no more     *)
(* than that: not of whom it was for.                                      *)
catalogHash(tools) == tools

(* listTools: enabled, and discoverable under the caller's authority.      *)
visibleTools(registry, enabledToolNamespaces, discoverable) ==
    {d \in Range(registry) : d.namespace \in enabledToolNamespaces \intersect discoverable}

=============================================================================
