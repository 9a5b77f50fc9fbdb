--------------------------- MODULE MCTurnEnvelope ---------------------------
(* TLC instances of TurnEnvelope: three calls, of which two fit the budget. *)
EXTENDS TurnEnvelope

MCSteps == {0, 1}

BothGraces == BOOLEAN

=============================================================================
