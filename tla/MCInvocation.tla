---------------------------- MODULE MCInvocation ----------------------------
(* A tool call, and what its handler asks of the kernel: an operation,     *)
(* which may outlive the call, and the admission of a turn of its own. All *)
(* of it is over the one use of the bounded grant. A message takes the     *)
(* steps of a resource operation, and is left to them.                     *)
EXTENDS Invocation

MCCalls == {"outer", "inner", "admission"}

MCKindsOf ==
    [c \in MCCalls |->
        CASE c = "outer" -> {"tool"}
          [] c = "inner" -> {"resource", "dispatch"}
          [] c = "admission" -> {"admit"}]

MCOuterOf == [c \in MCCalls |-> IF c = "outer" THEN None ELSE "outer"]

MCSignalOf == [c \in MCCalls |-> "turn"]

MCHosts == {[limit |-> TRUE, hook |-> TRUE], [limit |-> FALSE, hook |-> FALSE]}

=============================================================================
