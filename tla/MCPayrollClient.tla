-------------------------- MODULE MCPayrollClient --------------------------
(* Instances of PayrollClient for TLC. *)
EXTENDS PayrollClient

CONSTANTS First, Second
=============================================================================
