--------------------------- MODULE MCRemoteCalls ---------------------------
(***************************************************************************)
(* Two calls of one tenant over HTTP: every pair of the requests below, at *)
(* once or one after the other, on a tree of one directory, one file and   *)
(* one planted link.                                                       *)
(***************************************************************************)
EXTENDS RemoteCalls

CONSTANTS first, second, sameId

MCNotes == <<"notes">>
MCPlan == <<"notes", "plan">>
MCLink == <<"link">>

MCPaths == {MCNotes, MCPlan, MCLink}
MCLinks == {MCLink}
MCSeed == MCNotes :> directory @@ MCPlan :> fileOf(<<"base">>, None) @@ MCLink :> absent

MCRequest(route, asked) == [route |-> route, id |-> sameId, wellFormed |-> TRUE, asks |-> asked]

MCResource(action, path, input) ==
    MCRequest("invokeResource",
              [namespace |-> "files", action |-> action, path |-> path, input |-> input])

MCTool(tool, arguments) ==
    MCRequest("invokeTool", [tool |-> tool, arguments |-> arguments])

MCPatch(enable, disable) ==
    MCRequest("updateToolNamespaces", [enable |-> enable, disable |-> disable])

MCAppendOnce ==
    MCTool("files.append", [path |-> MCPlan, content |-> <<"once">>, expectedVersion |-> <<"base">>])

MCRequests ==
    {MCResource("create", MCPlan, <<>>),
     MCResource("replace", MCPlan, [content |-> <<"base">>]),
     MCResource("append", MCPlan, [content |-> <<"more">>]),
     MCResource("delete", MCNotes, [recursive |-> TRUE]),
     MCResource("delete", MCNotes, <<>>),
     MCResource("snapshot:create", MCPlan, <<>>),
     MCResource("snapshot:restore", MCPlan, [snapshotId |-> <<"base">>]),
     MCResource("snapshot:restore", MCPlan, <<>>),
     MCResource("list", MCPlan, <<>>),
     MCResource("search", MCNotes, [query |-> <<"base">>]),
     [MCResource("append", MCPlan, <<>>) EXCEPT !.wellFormed = FALSE],
     MCAppendOnce,
     MCTool("files.snapshot.restore",
            [path |-> MCPlan, snapshotId |-> <<"base">>, expectedVersion |-> <<"base">>]),
     MCTool("files.delete", [path |-> MCPlan, expectedVersion |-> <<"base">>]),
     MCTool("files.replace", [path |-> MCNotes, content |-> <<"base">>]),
     MCTool("files.stat", [path |-> MCNotes]),
     MCTool("files.read", [path |-> MCLink]),
     MCTool("files.read", [path |-> MCPlan, content |-> <<"base">>]),
     MCTool("files.append", [path |-> <<>>, content |-> <<"base">>]),
     MCTool("repo.commit", [path |-> MCNotes, message |-> <<"base">>]),
     MCRequest("requestMessage", [to |-> "ann"]), MCRequest("requestMessage", [to |-> "bob"]),
     MCRequest("sendMessage", [to |-> "ann"]),
     [MCRequest("sendMessage", [to |-> "ann"]) EXCEPT !.wellFormed = FALSE],
     MCRequest("reach", [to |-> "ann"]),
     MCRequest("listTools", [to |-> "ann"]), MCRequest("listToolNamespaces", [to |-> "ann"]),
     MCPatch({"repo"}, {}), MCPatch({"messages"}, {"files"})}

(* A provider with a tool of its own, with one that is put forward as the  *)
(* host's, or with one its definition says two things of.                  *)
MCProviders == <<"mcp">>
MCSearch == toolDefinition("mcp.search", "repo", "mcp", anywhere("repo", "search"), "read", <<>>)
MCPosing == toolDefinition("files.delete", "files", "mcp", anywhere("files", "delete"), "read", <<>>)
MCTorn == toolDefinition("mcp.drop", "repo", "mcp", anywhere("repo", "drop"), "write", "readOnly" :> TRUE)
MCOffers == {<<MCSearch>>, <<MCSearch, MCPosing>>, <<MCTorn>>}

MCSymmetry == Permutations({first, second})

=============================================================================
