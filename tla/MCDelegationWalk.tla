-------------------------- MODULE MCDelegationWalk --------------------------
(* Three ids, one line of delegation a -> b -> c, and a host that may have *)
(* written by hand a middle grant that breaks one rule of the chain.       *)
EXTENDS DelegationWalk, TLC

MCGrantIds == {"root", "mid", "leaf"}
MCAddresses == {"owner", "other", "a", "b", "c"}
MCPurposes == {"work", "play", "home"}

Cap(path, actions, scope) ==
    [namespace |-> "files", path |-> path, owner |-> None, actions |-> actions, scope |-> scope]

Docs == Cap(<<"docs">>, {"read", "write"}, "descendants")
Page == Cap(<<"docs", "page">>, {"read"}, "descendants")
Door == Cap(<<"docs">>, {"read"}, "exact")

Unbounded == [purposes |-> None, notBefore |-> None, expiresAt |-> None,
              maxUses |-> None, delegationDepth |-> None]

Bounds(purposes, start, end, depth) ==
    [Unbounded EXCEPT !.purposes = purposes, !.notBefore = start,
                      !.expiresAt = end, !.delegationDepth = depth]

Write(id, issuer, subject, capabilities, constraints, parent) ==
    [id |-> id, namespaceId |-> "world", subject |-> subject, issuer |-> issuer,
     capabilities |-> capabilities, constraints |-> constraints,
     issuedAt |-> 0, revokedAt |-> None, parentGrantId |-> parent]

Only(grants) ==
    [id \in MCGrantIds |-> IF \E g \in grants : g.id = id
                      THEN CHOOSE g \in grants : g.id = id ELSE None]

Root == Write("root", "owner", "a", {Docs}, Bounds({"work", "play"}, None, 3, 2), None)
RootDoor == Write("root", "owner", "a", {Door}, Bounds(None, 1, None, 1), None)

Mid == Write("mid", "a", "b", {Docs}, Bounds({"work"}, 0, 2, 1), "root")
Leaf == Write("leaf", "b", "c", {Page}, Bounds({"work"}, 0, 2, 0), "mid")

(* Middle grants that break one rule each. *)
Forged ==
    {[Mid EXCEPT !.issuer = "c"],
     [Mid EXCEPT !.constraints = Bounds(None, 0, 2, 1)],
     [Mid EXCEPT !.constraints = Bounds({"work"}, 0, None, 1)],
     [Mid EXCEPT !.constraints = Bounds({"work"}, 0, 2, 2)],
     [Mid EXCEPT !.capabilities = {Docs, Cap(<<>>, {"read"}, "descendants")}],
     [Mid EXCEPT !.capabilities = {Cap(<<"docs">>, {AnyAction}, "exact")}],
     [Mid EXCEPT !.constraints.notBefore = Garbled],
     [Mid EXCEPT !.parentGrantId = "leaf"]}

MCStores ==
    {Only({Root}), Only({RootDoor}), Only({Root, Mid, Leaf}),
     Only({RootDoor, [Mid EXCEPT !.constraints = Bounds(None, 1, None, 0)]}),
     Only({[Root EXCEPT !.constraints.maxUses = 1], Mid, Leaf})}
        \cup {Only({Root, forged, Leaf}) : forged \in Forged}

Ask(id, subject, capabilities, constraints) ==
    [id |-> id, subject |-> subject, capabilities |-> capabilities,
     constraints |-> constraints, issuedAt |-> 0]

MCDeriveRequests ==
    {Ask("mid", "b", {Docs}, Unbounded),
     Ask("mid", "b", {Door, Page}, Bounds({"work"}, 1, None, 1)),
     Ask("mid", "b", {[Docs EXCEPT !.owner = "other"]}, Unbounded),
     Ask("leaf", "c", {Page}, Unbounded)}

Req(path, action) ==
    [namespace |-> "files", path |-> path, owner |-> None, action |-> action]

MCUses ==
    [requirement : {Req(<<"docs">>, "read"), Req(<<"docs", "page">>, "write"),
                    Req(<<"docs", "page">>, "read"), Req(<<"mail">>, "read")},
     purpose : {"work", "home"},
     at : {[admittedAt |-> 1, now |-> 1], [admittedAt |-> 1, now |-> 3]}]

MCContexts == {[owner |-> "owner", purpose |-> "work"]}

=============================================================================
