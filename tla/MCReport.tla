------------------------------ MODULE MCReport ------------------------------
(***************************************************************************)
(* A terminal with progress, the same without, and JSON.                   *)
(***************************************************************************)
EXTENDS Report

Output(json, quiet, tty) == [json |-> json, quiet |-> quiet, tty |-> tty]

MCOutputs == {Output(FALSE, FALSE, TRUE), Output(FALSE, TRUE, TRUE), Output(TRUE, FALSE, TRUE)}
=============================================================================
