--------------------------- MODULE OperationOutcome ---------------------------
(***************************************************************************)
(* What an operation with a result promises to whoever waits for it: it is *)
(* decided at most once; the result is stored before the operation says it *)
(* completed and stays; a failed operation leaves no result behind.        *)
(***************************************************************************)
VARIABLES
  outcome,   \* status of the operation
  answer     \* what the result endpoint finds: "none" or "result"

outcomeVars == <<outcome, answer>>

OutcomeInit == outcome = "IN_PROGRESS" /\ answer = "none"

StoreResult ==
  /\ outcome = "IN_PROGRESS" /\ answer = "none"
  /\ answer' = "result"
  /\ outcome' = outcome

Complete ==
  /\ outcome = "IN_PROGRESS" /\ answer = "result"
  /\ outcome' = "COMPLETED"
  /\ answer' = answer

Fail ==
  /\ outcome = "IN_PROGRESS" /\ answer = "none"
  /\ outcome' = "FAILED"
  /\ answer' = answer

OutcomeNext == StoreResult \/ Complete \/ Fail

OutcomeSpec == OutcomeInit /\ [][OutcomeNext]_outcomeVars

=============================================================================
