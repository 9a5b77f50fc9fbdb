------------------------------ MODULE MCConsent ------------------------------
(***************************************************************************)
(* Two agents of two owners in one namespace. The bounds: two asks, one    *)
(* proposal, one read, and one bounded grant with a single use.            *)
(***************************************************************************)
EXTENDS Consent

docs == <<"docs">>
note == <<"docs", "note">>

cap(path, owner, actions, scope) ==
    [namespace |-> "files", path |-> path, owner |-> owner, actions |-> actions, scope |-> scope]

readNote  == cap(note, None, {"read"}, "exact")
ownedNote == cap(note, "ann", {"read"}, "exact")
readDocs  == cap(docs, None, {"read"}, "descendants")
workDocs  == cap(docs, None, {"read", "write"}, "descendants")

bounds(purposes, notBefore, expiresAt, maxUses) ==
    [purposes |-> purposes, notBefore |-> notBefore, expiresAt |-> expiresAt,
     maxUses |-> maxUses, delegationDepth |-> None]
unbounded == bounds(None, None, None, None)

turnOf(agent, owner, purpose) ==
    [namespaceId |-> "team", actor |-> agent, authority |-> owner, owner |-> owner,
     purpose |-> purpose, now |-> 2]

MCContexts == {turnOf("bot", "ann", "work"), turnOf("aid", "ann", "work"),
               turnOf("bot", "bob", "work")}

ask(capabilities, purpose, constraints) ==
    [capabilities |-> capabilities, purpose |-> purpose, constraints |-> constraints]

(* A denied read of the note asks what two of these ask: one names its     *)
(* owner, the other is for another purpose besides.                        *)
MCPayloads == {ask({readDocs}, "work", None), ask({ownedNote}, "work", unbounded),
               ask({ownedNote}, "play", unbounded)}

use(path, action) == [namespace |-> "files", path |-> path, owner |-> None, action |-> action]

MCRequirements == {use(note, "read")}
MCUses == {use(note, "read"), use(docs, "read"), use(note, "write")}

answer(outcome, narrower, constraints) ==
    [outcome |-> outcome, narrower |-> narrower, constraints |-> constraints]

MCAnswers == {answer("approved", {workDocs}, bounds({"work", "play"}, None, 3, 2)),
              answer("approved", {readNote}, bounds({"work"}, 2, None, 1)),
              answer("approved", {}, bounds({"play"}, None, 1, None)),
              answer("refused", {}, unbounded)}

MCWidths == {{}, {readNote}, {readDocs}}

held(id, agent, capabilities, constraints) ==
    [id |-> id, namespaceId |-> "team", subject |-> agent, issuer |-> "ann",
     capabilities |-> capabilities, constraints |-> constraints, issuedAt |-> 0,
     revokedAt |-> None, parentGrantId |-> None]

directoryOf(path, scope) ==
    [namespace |-> "sharedos", path |-> path, owner |-> None, actions |-> {"look"},
     scope |-> scope]

bounded == held("g1", "bot", {workDocs}, bounds(None, None, None, 1))
passable ==
    held("g3", "bot", {directoryOf(<<"directory", "aid", "identity">>, "exact"), readNote},
         [unbounded EXCEPT !.delegationDepth = 1])

derivedOf(parent, id, capability) ==
    [held(id, "aid", {capability}, unbounded) EXCEPT !.issuer = "bot",
                                                     !.parentGrantId = parent.id]

(* One derived grant stands, the other was passed on from a bounded one.   *)
MCHostGrants ==
    {bounded, passable,
     held("g2", "aid", {directoryOf(<<"directory">>, "descendants")}, unbounded),
     derivedOf(passable, "g4", readNote), derivedOf(bounded, "g5", workDocs)}

MCReadContexts ==
    {turnOf("bot", "ann", "work"), turnOf("aid", "ann", "work"),
     [turnOf("aid", "ann", "work") EXCEPT !.authority = "bot"]}

=============================================================================
