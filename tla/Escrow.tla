------------------------------- MODULE Escrow -------------------------------
(***************************************************************************)
(* What payroll_stream and vesting promise about money, without their      *)
(* schedules.  A deal holds tokens of its payer inside the contract; the   *)
(* contract pays them out only to the deal's payee and back to its payer,  *)
(* and never more than the deal still holds.  The detailed contracts       *)
(* decide when and how much: they implement this specification.            *)
(*                                                                         *)
(* unbacked is the part of the deals' amounts that was recorded without    *)
(* being transferred in (create_batch_streams does that).                  *)
(***************************************************************************)
EXTENDS TokenLedger, UnitSum

CONSTANTS Accounts,      \* every address that may hold tokens
          Contract,      \* the address of the escrow contract itself
          Tokens,        \* the token contracts in use
          DealIds,       \* the identifiers of deals
          Sums,          \* the amounts a deal may be opened with
          Gifts,         \* the amounts users transfer on their own
          InitialFunds   \* the balances when the contract is deployed

(***************************************************************************)
(* What a contract has to show of these parameters in order to use what    *)
(* follows from the specification.                                         *)
(***************************************************************************)
EscrowAssumption ==
  /\ IsFiniteSet(Accounts)
  /\ Contract \in Accounts
  /\ DealIds \subseteq Nat
  /\ Sums \subseteq Nat
  /\ Gifts \subseteq Nat
  /\ InitialFunds \in Ledgers(Tokens, Accounts)

VARIABLES deals, funds, unbacked

vars == <<deals, funds, unbacked>>

Deal == [payer : Accounts \ {Contract}, payee : Accounts,
         token : Tokens, held : Nat]

Adjoin(f, g) ==
  [x \in (DOMAIN f) \cup (DOMAIN g) |-> IF x \in DOMAIN f THEN f[x] ELSE g[x]]

(***************************************************************************)
(* What each deal of a collection ds holds of the given token.             *)
(***************************************************************************)
HeldOf(ds, token) ==
  [i \in DOMAIN ds |-> IF ds[i].token = token THEN ds[i].held ELSE 0]

Draw(ds, id, amount) == [ds EXCEPT ![id].held = @ - amount]

-----------------------------------------------------------------------------
Init ==
  /\ deals = [i \in {} |-> i]
  /\ funds = InitialFunds
  /\ unbacked = [token \in Tokens |-> 0]

(***************************************************************************)
(* A payer opens a deal and transfers its amount into the contract.        *)
(***************************************************************************)
Open(id, deal) ==
  /\ id \notin DOMAIN deals
  /\ CanTransfer(funds, deal.token, deal.payer, deal.held)
  /\ deals' = Adjoin(deals, [i \in {id} |-> deal])
  /\ funds' = Transfer(funds, deal.token, deal.payer, Contract, deal.held)
  /\ UNCHANGED unbacked

(***************************************************************************)
(* Deals are recorded and nothing is transferred.                          *)
(***************************************************************************)
OpenUnbacked(opened) ==
  /\ DOMAIN opened \cap DOMAIN deals = {}
  /\ deals' = Adjoin(deals, opened)
  /\ unbacked' = [token \in Tokens |->
                    unbacked[token] + Total(HeldOf(opened, token))]
  /\ UNCHANGED funds

(***************************************************************************)
(* The contract pays from one deal, to its payee and then to its payer.    *)
(***************************************************************************)
Release(id, paid, refund) ==
  LET deal == deals[id]
      paidOut == Transfer(funds, deal.token, Contract, deal.payee, paid)
  IN /\ CanTransfer(funds, deal.token, Contract, paid)
     /\ CanTransfer(paidOut, deal.token, Contract, refund)
     /\ funds' = Transfer(paidOut, deal.token, Contract, deal.payer, refund)
     /\ deals' = Draw(deals, id, paid + refund)
     /\ UNCHANGED unbacked

(***************************************************************************)
(* Users move tokens on their own, also to the contract's address.         *)
(***************************************************************************)
Give(token, from, to, amount) ==
  /\ CanTransfer(funds, token, from, amount)
  /\ funds' = Transfer(funds, token, from, to, amount)
  /\ UNCHANGED <<deals, unbacked>>

OpenStep ==
  \E id \in DealIds, deal \in [payer : Accounts \ {Contract},
                               payee : Accounts, token : Tokens, held : Sums] :
    Open(id, deal)

ReleaseStep ==
  \E id \in DOMAIN deals :
    \E paid \in 0 .. deals[id].held :
      \E refund \in 0 .. (deals[id].held - paid) :
        Release(id, paid, refund)

GiveStep ==
  \E token \in Tokens, from \in Accounts \ {Contract}, to \in Accounts,
     amount \in Gifts : Give(token, from, to, amount)

OpenUnbackedStep ==
  \E ids \in SUBSET DealIds :
    /\ IsFiniteSet(ids)
    /\ \E opened \in [ids -> [payer : Accounts \ {Contract}, payee : Accounts,
                              token : Tokens, held : Sums]] :
         OpenUnbacked(opened)

FundedNext == OpenStep \/ ReleaseStep \/ GiveStep

Next == FundedNext \/ OpenUnbackedStep

(***************************************************************************)
(* FundedSpec is the promise: every deal is paid in when it is opened.     *)
(* Spec also admits the deals that are recorded without a transfer.        *)
(***************************************************************************)
FundedSpec == Init /\ [][FundedNext]_vars

Spec == Init /\ [][Next]_vars

-----------------------------------------------------------------------------
TypeOK ==
  /\ IsFiniteSet(DOMAIN deals)
  /\ deals \in [DOMAIN deals -> Deal]
  /\ funds \in Ledgers(Tokens, Accounts)
  /\ unbacked \in [Tokens -> Nat]

(***************************************************************************)
(* The contract's balance of each token covers all that its deals still    *)
(* hold, except what was never transferred in.                             *)
(***************************************************************************)
Backed ==
  \A token \in Tokens :
    Total(HeldOf(deals, token)) <= funds[<<token, Contract>>] + unbacked[token]

(***************************************************************************)
(* What FundedSpec adds: the contract can pay all its deals out in full,   *)
(* in whatever order.                                                      *)
(***************************************************************************)
Solvent ==
  \A token \in Tokens :
    Total(HeldOf(deals, token)) <= funds[<<token, Contract>>]
=============================================================================
