-------------------------- MODULE MCPayrollStream --------------------------
(* Instances of PayrollStream for TLC. *)
EXTENDS PayrollStream

CONSTANTS Acme, Dev, Usdc

(* Acme can fund one stream of 3 and a gift, or two streams of 2. *)
MCInitialFunds ==
  [p \in Tokens \X Accounts |-> IF p[2] = Acme THEN 4
                                ELSE IF p[2] = Dev THEN 2 ELSE 0]

(* A negative amount, one that rounds over 3 seconds and one that does not. *)
MCAmounts == {-1, 2, 3}
=============================================================================
