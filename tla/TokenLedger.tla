---------------------------- MODULE TokenLedger ----------------------------
(***************************************************************************)
(* The balances of the token contracts the StellarPay contracts call       *)
(* through token::Client, as one function from <<token, account>> to the   *)
(* account's balance.  The token contract is not part of the repository:   *)
(* transfer is modelled from how payroll_stream and vesting call it.  A    *)
(* transfer of more than the balance traps, and with it the whole          *)
(* invocation that made the call.                                          *)
(***************************************************************************)
EXTENDS Integers

Ledgers(tokens, accounts) == [tokens \X accounts -> Nat]

CanTransfer(ledger, token, from, amount) == amount <= ledger[<<token, from>>]

(***************************************************************************)
(* The debit is stored before the credit is read, so that a transfer to    *)
(* oneself changes nothing.                                                *)
(***************************************************************************)
Transfer(ledger, token, from, to, amount) ==
  [[ledger EXCEPT ![<<token, from>>] = @ - amount]
           EXCEPT ![<<token, to>>] = @ + amount]
=============================================================================
