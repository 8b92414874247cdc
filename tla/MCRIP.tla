------------------------------- MODULE MCRIP -------------------------------
(***************************************************************************)
(* The topology for RIP. The address is the one of o towards a.            *)
(***************************************************************************)
EXTENDS RIP

CONSTANTS o, a, b

\* a line, as in the networks of lnx-files
Line == {{o, a}, {a, b}}
=============================================================================
