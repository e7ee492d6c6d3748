------------------------------- MODULE Vault -------------------------------
(***************************************************************************)
(* What the treasury promises: a vault that several keepers open together. *)
(* A keeper asks for a payment and other keepers approve it; it is granted *)
(* in the step in which as many have approved as are required then, and a  *)
(* granted payment is made at most once, at any later time.  Keepers and   *)
(* what is required may change at every moment; approvals last.            *)
(*                                                                         *)
(* Who administers the vault, how approvals are listed and how payments    *)
(* are numbered is left to the treasury, which implements this module.     *)
(***************************************************************************)
EXTENDS TokenLedger, FiniteSets

CONSTANTS Users,         \* the addresses that may be keepers
          Contract,      \* the vault's own address
          Tokens,        \* the token contracts in use
          RequestIds,    \* the identifiers of payments
          Sums,          \* the amounts that may be asked for
          Gifts,         \* the amounts users transfer on their own
          InitialFunds   \* the balances when the vault is deployed

Accounts == Users \cup {Contract}

VARIABLES requests, keepers, required, funds

vars == <<requests, keepers, required, funds>>

Asked(keeper, token, recipient, amount) ==
  [token |-> token, recipient |-> recipient, amount |-> amount,
   approvers |-> {keeper}, stage |-> "open"]

Granted(approvers) == Cardinality(approvers) >= required

-----------------------------------------------------------------------------
Init ==
  /\ requests = [id \in {} |-> id]
  /\ keepers = {}
  /\ required = 0
  /\ funds = InitialFunds

(***************************************************************************)
(* Asking counts as the first approval, and never grants by itself.        *)
(***************************************************************************)
Ask(keeper, id, token, recipient, amount) ==
  /\ keeper \in keepers
  /\ id \notin DOMAIN requests
  /\ requests' = [i \in (DOMAIN requests) \cup {id} |->
                    IF i = id THEN Asked(keeper, token, recipient, amount)
                    ELSE requests[i]]
  /\ UNCHANGED <<keepers, required, funds>>

Approve(keeper, id) ==
  LET approvers == requests[id].approvers \cup {keeper}
  IN /\ keeper \in keepers \ requests[id].approvers
     /\ requests[id].stage = "open"
     /\ requests' =
          [requests EXCEPT
             ![id].approvers = approvers,
             ![id].stage = IF Granted(approvers) THEN "granted" ELSE "open"]
     /\ UNCHANGED <<keepers, required, funds>>

Pay(id) ==
  LET r == requests[id]
  IN /\ r.stage = "granted"
     /\ CanTransfer(funds, r.token, Contract, r.amount)
     /\ funds' = Transfer(funds, r.token, Contract, r.recipient, r.amount)
     /\ requests' = [requests EXCEPT ![id].stage = "paid"]
     /\ UNCHANGED <<keepers, required>>

(***************************************************************************)
(* Whatever the administration does, it touches neither payments nor money *)
(***************************************************************************)
Reform ==
  /\ keepers' \in SUBSET Users
  /\ required' \in Nat
  /\ UNCHANGED <<requests, funds>>

Give(token, from, to, amount) ==
  /\ CanTransfer(funds, token, from, amount)
  /\ funds' = Transfer(funds, token, from, to, amount)
  /\ UNCHANGED <<requests, keepers, required>>

Next ==
  \/ Reform
  \/ \E token \in Tokens, from \in Users, to \in Accounts, amount \in Gifts :
       Give(token, from, to, amount)
  \/ \E id \in DOMAIN requests : Pay(id)
  \/ \E keeper \in Users, id \in DOMAIN requests : Approve(keeper, id)
  \/ \E keeper \in Users, id \in RequestIds, token \in Tokens,
        recipient \in Accounts, amount \in Sums :
       Ask(keeper, id, token, recipient, amount)

Spec == Init /\ [][Next]_vars
=============================================================================
