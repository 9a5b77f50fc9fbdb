--------------------------- MODULE VendorProtocols ---------------------------
(***************************************************************************)
(* What the frames of the four vendor wire formats mean (interpret). Each  *)
(* vendor states a call more than once: as a block of the assistant's      *)
(* message, and in a frame of its own; it is to be read once.              *)
(***************************************************************************)
EXTENDS Integers, Sequences, FiniteSets

Vendors == {"codex", "claude-code", "deepseek", "pi"}

(* Mutant: both are read.                                                  *)
readsBlocksToo == {"claude-code", "pi", "deepseek"}

(* Claude Code and Pi are read for their content blocks (toolUseStep,      *)
(* toolCallStep), Codex and DeepSeek for function_call and tool/call.      *)
readsBlocks == {"claude-code", "pi"}

readsCalls == {"codex", "deepseek"}

(* The frames that end a turn, or look like it: those its protocol reads   *)
(* as a finished turn by name, and as a failed one.                        *)
completions ==
    [v \in Vendors |->
       CASE v = "codex" -> {"response.completed", "turn.completed"}
         [] v = "claude-code" -> {"success"}
         [] v = "deepseek" -> {"completed"}
         [] v = "pi" -> {"agent_end"}]

failures ==
    [v \in Vendors |->
       CASE v = "codex" -> {"error", "response.failed", "turn.failed"}
         [] v = "claude-code" -> {"is_error", "error"}
         [] v = "deepseek" -> {"aborted", "blocked", "error", "max-tokens", "interrupted"}
         [] v = "pi" -> {"command_rejected", "error"}]

(* Endings no table names: a result of Claude Code of another subtype, not *)
(* marked as an error (--max-turns reached), and a kind of DeepSeek's      *)
(* turn/end outside TURN_END_FAILURES.                                     *)
unlisted ==
    [v \in Vendors |->
       CASE v = "claude-code" -> {"error_max_turns"}
         [] v = "deepseek" -> {"another kind"}
         [] OTHER -> {}]

(* Pi's run goes on: it will retry, or has taken a command.                *)
progress ==
    [v \in Vendors |->
       CASE v = "pi" -> {"agent_end_will_retry", "command_accepted"}
         [] v = "codex" -> {"turn.started"}
         [] OTHER -> {}]

lastWords(v) ==
    completions[v] \union failures[v] \union unlisted[v] \union progress[v]

-----------------------------------------------------------------------------
message(items) == [kind |-> "message", items |-> items]

callFrame(item) == [kind |-> "call", items |-> <<item>>]

ending(word) == [kind |-> "ending", word |-> word]

(* Places in their order, and what s has there.                            *)
inOrder(places) ==
    CHOOSE p \in [1..Cardinality(places) -> places] :
      \A i, j \in DOMAIN p : i < j => p[i] < p[j]

only(s, places) == [i \in 1..Cardinality(places) |-> s[inOrder(places)[i]]]

(* How a harness states what it says: the assistant's message, and each of *)
(* its calls once more.                                                    *)
statement(items) ==
    LET calls == only(items, {i \in DOMAIN items : items[i].type = "call"})
    IN  <<message(items)>> \o [i \in DOMAIN calls |-> callFrame(calls[i])]

as(item, type) == [item EXCEPT !.type = type]

(* contentBlockSteps: prose, and the calls of a vendor read for them. Their*)
(* arguments are objects already.                                          *)
blockSteps(v, items) ==
    only(items, {i \in DOMAIN items :
                   items[i].type = "message" \/ (v \in readsBlocks /\ items[i].readable)})

(* A raw argument string that is no object fails the turn.                 *)
callSteps(v, item) ==
    IF v \in readsCalls
    THEN <<IF item.readable THEN item ELSE as(item, "failed")>>
    ELSE <<>>

(* Mutant: the end of a run that will be retried is its end.               *)
endsAll(v, word) == IF word \in failures[v] THEN "failed" ELSE "complete"

(* What a last word means. A failure is what is listed as one; every other *)
(* ending completes the turn.                                              *)
endingStep(v, word) ==
    IF word \in failures[v] THEN "failed"
    ELSE IF word \in progress[v] THEN "none" ELSE "complete"

endingSteps(v, word) ==
    LET step == endingStep(v, word)
    IN  IF step = "none" THEN <<>>
        ELSE <<[id |-> 0, type |-> step, ask |-> FALSE, readable |-> TRUE]>>

interpret(v, frame) ==
    CASE frame.kind = "message" -> blockSteps(v, frame.items)
      [] frame.kind = "call" -> callSteps(v, frame.items[1])
      [] frame.kind = "ending" -> endingSteps(v, frame.word)

interpreted(v, stated) == [i \in DOMAIN stated |-> interpret(v, stated[i])]

(* What the vendor's harness says with a last word, whatever is made of it.*)
claimOf(v, word) ==
    IF word \in completions[v] THEN "completed"
    ELSE IF word \in failures[v] THEN "failed"
    ELSE IF word \in unlisted[v] THEN "unlisted" ELSE "none"

(* What v's harness may have said for its turn to complete.                *)
saysItIsOver(v) ==
    {"completed"} \union (IF unlisted[v] = {} THEN {} ELSE {"unlisted"})

=============================================================================
