---------------------------- MODULE MCDrivenTurn ----------------------------
(* TLC instances of DrivenTurn: two steps, two breaths of up to two items. *)
EXTENDS DrivenTurn

entry(type, keys, unsound, declared) ==
    [type |-> type, keys |-> keys, unsound |-> unsound, step |-> declared]

MCCandidates ==
    {entry("tool_call", {"call"}, {}, None), entry("tool_call", {"call", "step"}, {}, 0),
     entry("tool_call", {"call", "step"}, {}, 2), entry("tool_call", {"call", "step"}, {"step"}, None),
     entry("tool_call", {"call", "metadata"}, {}, None), entry("tool_call", {"call"}, {"call"}, None),
     entry("complete", {"output"}, {}, None), entry("complete", {"output", "metadata"}, {}, None),
     entry("complete", {"output", "stray"}, {}, None), entry("complete", {}, {}, None),
     entry("fail", {"error"}, {}, None), entry("fail", {"error", "metadata"}, {"metadata"}, None),
     entry("escalate", {"reason"}, {}, None), entry("escalate", {"reason"}, {"reason"}, None),
     entry("other", {"call"}, {}, None)}

item(type, ask, readable) == [type |-> type, ask |-> ask, readable |-> readable]
aCall == item("call", FALSE, TRUE)
anAsk == item("call", TRUE, TRUE)
unreadableCall == item("call", FALSE, FALSE)
prose == item("message", FALSE, TRUE)

MCBreaths ==
    {<<>>, <<aCall>>, <<aCall, aCall>>, <<unreadableCall, aCall>>,
     <<aCall, unreadableCall>>, <<unreadableCall, unreadableCall>>,
     <<item("call", TRUE, FALSE)>>, <<anAsk, aCall>>, <<aCall, anAsk>>}

MCUtterances == {<<aCall>>, <<prose, aCall, aCall>>, <<unreadableCall>>, <<anAsk, aCall>>}

MCDeclaredSteps == {0, 2}

=============================================================================
