---------------------------- MODULE MCAuthorizer ----------------------------
(* Three decisions over three grants: one with a single use, one derived,  *)
(* bounded and with two uses, and one that is derived and unbounded.       *)
EXTENDS Authorizer, TLC

MCGrantIds == {"once", "twice", "free"}

Constrained(uses) ==
    [purposes |-> None, notBefore |-> None, expiresAt |-> 5,
     maxUses |-> uses, delegationDepth |-> None]

Give(id, uses, parent) ==
    [id |-> id, namespaceId |-> "world", subject |-> "agent", issuer |-> "owner",
     capabilities |-> {[namespace |-> "files", path |-> <<"docs">>, owner |-> None,
                        actions |-> {"read"}, scope |-> "descendants"]},
     constraints |-> Constrained(uses),
     issuedAt |-> 0, revokedAt |-> None, parentGrantId |-> parent]

MCGrantBook ==
    [id \in MCGrantIds |->
        CASE id = "once" -> Give(id, 1, None)
          [] id = "twice" -> Give(id, 2, "free")
          [] id = "free" -> Give(id, None, "twice")]

MCContext ==
    [owner |-> "owner", purpose |-> "work", actor |-> "agent", authority |-> "owner",
     namespaceId |-> "world"]

Ask(mode, grants, path, owner, now) ==
    [mode |-> mode, grants |-> grants,
     requirement |-> [namespace |-> "files", path |-> path, owner |-> owner, action |-> "read"],
     context |-> MCContext, at |-> [admittedAt |-> 1, now |-> now]]

(* The ways the two bounded grants are reached for, a ceiling wider than   *)
(* any capability, and a world, an instant and a window that are wrong.    *)
MCRequests ==
    {Ask("consume", <<"once", "twice">>, <<"docs">>, None, 1),
     Ask("consume", <<"twice", "free">>, <<"docs">>, None, 1),
     Ask("inspect", <<"once", "free">>, <<"docs">>, None, 1),
     Ask("discover", <<"twice", "once">>, <<>>, None, 1),
     Ask("consume", <<"once">>, <<>>, None, 1),
     Ask("consume", <<"free">>, <<"docs">>, "stranger", 1),
     Ask("consume", <<"free">>, <<"docs">>, None, Garbled),
     Ask("consume", <<"once">>, <<"docs">>, None, 5)}

MCSymmetry == Permutations(Calls)

=============================================================================
