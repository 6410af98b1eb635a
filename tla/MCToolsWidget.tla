---------------------------- MODULE MCToolsWidget ----------------------------
(* Small instances of ToolsWidget. *)
EXTENDS ToolsWidget, TLC

CONSTANTS op1, op2, w1, t1
=============================================================================
