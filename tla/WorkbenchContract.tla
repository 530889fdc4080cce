--------------------------- MODULE WorkbenchContract ---------------------------
(***************************************************************************)
(* What the result pane of the workbench promises, whatever requests are   *)
(* under way behind it: it shows the run that was started last, one        *)
(* outcome per run, and an outcome goes away only when the user asks for   *)
(* another run or for an empty pane.                                       *)
(***************************************************************************)
EXTENDS Naturals

VARIABLES
  shown,   \* state.status
  owner,   \* the token of the run behind it, 0 when the pane is empty
  started  \* how many runs were started; the last one has this token

contractVars == <<shown, owner, started>>

ContractInit == shown = "IDLE" /\ owner = 0 /\ started = 0

Begin ==
  /\ shown # "RUNNING"
  /\ shown' = "RUNNING"
  /\ started' = started + 1
  /\ owner' = started'

Conclude ==
  /\ shown = "RUNNING"
  /\ shown' \in {"RESULT", "ERROR"}
  /\ UNCHANGED <<owner, started>>

Clear ==
  /\ shown # "RUNNING"
  /\ shown' = "IDLE" /\ owner' = 0
  /\ UNCHANGED started

ContractNext == Begin \/ Conclude \/ Clear

ContractSpec == ContractInit /\ [][ContractNext]_contractVars

=============================================================================
