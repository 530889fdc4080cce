------------------------------ MODULE MCWorkbench ------------------------------
(* Three runs: a failed one, one that recovers from it or is cancelled,    *)
(* and one more that a late answer of either could disturb.                *)
EXTENDS Workbench

=============================================================================
