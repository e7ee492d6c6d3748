------------------------------ MODULE Treasury ------------------------------
(***************************************************************************)
(* The treasury contract: a vault from which signers withdraw together.  A *)
(* signer requests a withdrawal, which counts as the first approval; once  *)
(* enough signers have approved, anybody may have it executed.  The admin  *)
(* changes the signers and the threshold at any time.                      *)
(*                                                                         *)
(* Every call is one action; a call that fails is no step.                 *)
(***************************************************************************)
EXTENDS TokenLedger, FiniteSets, Vectors

CONSTANTS Users,          \* the addresses that sign calls
          Contract,       \* the contract's own address
          None,           \* the admin before initialize
          Tokens,         \* the token contracts in use
          Admins,         \* the addresses that call initialize
          Recipients,     \* the values callers pass as recipient
          Amounts,        \* the values callers pass as amount
          SignerLists,    \* the vectors callers pass as the first signers
          Thresholds,     \* the values callers pass as thresholds
          Gifts,          \* the amounts users transfer on their own
          InitialFunds,   \* the balances when the contract is deployed
          MaxProposals,   \* bound on proposal_count
          MaxSigners      \* bound on the number of signers

Accounts == Users \cup {Contract}

ASSUME TreasuryAssumption ==
  /\ IsFiniteSet(Users)
  /\ Contract \notin Users
  /\ None \notin Users
  /\ Admins \subseteq Users /\ Recipients \subseteq Accounts
  /\ Amounts \subseteq Int
  /\ SignerLists \subseteq Seq(Users)
  /\ Thresholds \subseteq Nat
  /\ Gifts \subseteq Nat
  /\ InitialFunds \in Ledgers(Tokens, Accounts)
  /\ MaxProposals \in Nat /\ MaxSigners \in Nat

VARIABLES
  admin,           \* DataKey::Admin
  signers,         \* DataKey::Signers
  threshold,       \* DataKey::Threshold
  proposal_count,  \* DataKey::ProposalCount
  withdrawals,     \* DataKey::Withdrawal(id), a function on the ids in use
  funds,           \* the token balances, see TokenLedger
  asked            \* history: what was the threshold when a request in use
                   \* was last approved

config == <<admin, signers, threshold, proposal_count>>
vars == <<config, withdrawals, funds, asked>>

(***************************************************************************)
(* No operation stores Cancelled.  memo and created_at are stored and not  *)
(* read, and are left out.                                                 *)
(***************************************************************************)
Statuses == {"Pending", "Approved", "Executed", "Cancelled"}

WithdrawalRequest ==
  [proposer : Users, token : Tokens, recipient : Accounts, amount : Nat,
   approvals : Seq(Users), status : Statuses]

-----------------------------------------------------------------------------
Init ==
  /\ admin = None
  /\ signers = <<>>
  /\ threshold = 0
  /\ proposal_count = 0
  /\ withdrawals = [id \in {} |-> id]
  /\ funds = InitialFunds
  /\ asked = [id \in {} |-> id]

ValidThreshold(new, list) == new > 0 /\ new <= Len(list)

(***************************************************************************)
(* The list may name an address twice: it is stored as it is.              *)
(***************************************************************************)
Initialize(caller, list, new) ==
  /\ admin = None
  /\ ValidThreshold(new, list)
  /\ admin' = caller
  /\ signers' = list
  /\ threshold' = new
  /\ proposal_count' = 0
  /\ UNCHANGED <<withdrawals, funds, asked>>

(* Mutant: the check of the amount is dropped. *)
ValidAnyAmount(amount) == TRUE

ValidAmount(amount) == amount > 0

(***************************************************************************)
(* The transfer is a TODO: only the event is published.                    *)
(***************************************************************************)
Deposit(from, token, amount) ==
  /\ admin # None
  /\ ValidAmount(amount)
  /\ UNCHANGED vars

NewRequest(from, token, recipient, amount) ==
  [proposer |-> from, token |-> token, recipient |-> recipient,
   amount |-> amount, approvals |-> <<from>>, status |-> "Pending"]

CreateWithdrawal(proposer, token, recipient, amount) ==
  /\ admin # None
  /\ proposer \in Elements(signers)
  /\ ValidAmount(amount)
  /\ proposal_count < MaxProposals
  /\ withdrawals' =
       [id \in (DOMAIN withdrawals) \cup {proposal_count} |->
          IF id \in DOMAIN withdrawals THEN withdrawals[id]
          ELSE NewRequest(proposer, token, recipient, amount)]
  /\ asked' = [id \in (DOMAIN asked) \cup {proposal_count} |->
                 IF id \in DOMAIN asked THEN asked[id] ELSE threshold]
  /\ proposal_count' = proposal_count + 1
  /\ UNCHANGED <<admin, signers, threshold, funds>>

(* Mutant: a signer may approve the same request again. *)
MayApproveAgain(signer, r) ==
  /\ signer \in Elements(signers)
  /\ r.status = "Pending"

MayApprove(signer, r) ==
  /\ signer \in Elements(signers)
  /\ r.status = "Pending"
  /\ signer \notin Elements(r.approvals)

(* Mutant: the vector of approvals is built anew. *)
ApprovedAnew(signer, r) ==
  [r EXCEPT !.approvals = <<signer>>,
            !.status = IF 1 >= threshold THEN "Approved" ELSE @]

ApprovedBy(signer, r) ==
  [r EXCEPT !.approvals = Append(@, signer),
            !.status = IF Len(r.approvals) + 1 >= threshold
                       THEN "Approved" ELSE @]

ApproveWithdrawal(signer, id) ==
  /\ admin # None
  /\ id \in DOMAIN withdrawals
  /\ MayApprove(signer, withdrawals[id])
  /\ withdrawals' =
       [withdrawals EXCEPT ![id] = ApprovedBy(signer, withdrawals[id])]
  /\ asked' = [asked EXCEPT ![id] = threshold]
  /\ UNCHANGED <<config, funds>>

(* Mutant: the approvals must still meet the threshold of today. *)
MayExecuteIfQuorum(r) ==
  /\ r.status = "Approved"
  /\ Len(r.approvals) >= threshold

MayExecute(r) == r.status = "Approved"

Executed(r) == [r EXCEPT !.status = "Executed"]

(***************************************************************************)
(* Whoever calls, signer or not, and whatever signers and threshold are by *)
(* now.                                                                    *)
(***************************************************************************)
ExecuteWithdrawal(executor, id) ==
  LET r == withdrawals[id]
  IN /\ admin # None
     /\ id \in DOMAIN withdrawals
     /\ MayExecute(r)
     /\ CanTransfer(funds, r.token, Contract, r.amount)
     /\ funds' = Transfer(funds, r.token, Contract, r.recipient, r.amount)
     /\ withdrawals' = [withdrawals EXCEPT ![id] = Executed(r)]
     /\ UNCHANGED <<config, asked>>

AddSigner(caller, new) ==
  /\ admin # None
  /\ caller = admin
  /\ new \notin Elements(signers)
  /\ Len(signers) < MaxSigners
  /\ signers' = Append(signers, new)
  /\ UNCHANGED <<admin, threshold, proposal_count, withdrawals, funds, asked>>

(* Mutant: one signer fewer than the threshold may remain. *)
MayRemoveAtThreshold(signer) ==
  /\ Len(signers) >= threshold
  /\ signer \in Elements(signers)

MayRemove(signer) ==
  /\ Len(signers) > threshold
  /\ signer \in Elements(signers)

(***************************************************************************)
(* Every occurrence of the signer is dropped.                              *)
(***************************************************************************)
RemoveSigner(caller, signer) ==
  /\ admin # None
  /\ caller = admin
  /\ MayRemove(signer)
  /\ signers' = Without(signers, signer)
  /\ UNCHANGED <<admin, threshold, proposal_count, withdrawals, funds, asked>>

UpdateThreshold(caller, new) ==
  /\ admin # None
  /\ caller = admin
  /\ ValidThreshold(new, signers)
  /\ threshold' = new
  /\ UNCHANGED <<admin, signers, proposal_count, withdrawals, funds, asked>>

-----------------------------------------------------------------------------
(***************************************************************************)
(* The environment: transfers that users make on the token contracts, also *)
(* to the treasury.                                                        *)
(***************************************************************************)
Give(token, from, to, amount) ==
  /\ CanTransfer(funds, token, from, amount)
  /\ funds' = Transfer(funds, token, from, to, amount)
  /\ UNCHANGED <<config, withdrawals, asked>>

Next ==
  \/ \E caller \in Admins, list \in SignerLists, new \in Thresholds :
       Initialize(caller, list, new)
  \/ \E from \in Users, token \in Tokens, amount \in Amounts :
       Deposit(from, token, amount)
  \/ \E proposer \in Users, token \in Tokens, recipient \in Recipients,
        amount \in Amounts :
       CreateWithdrawal(proposer, token, recipient, amount)
  \/ \E signer \in Users, id \in DOMAIN withdrawals :
       ApproveWithdrawal(signer, id)
  \/ \E executor \in Users, id \in DOMAIN withdrawals :
       ExecuteWithdrawal(executor, id)
  \/ \E caller \in Users, new \in Users : AddSigner(caller, new)
  \/ \E caller \in Users, signer \in Users : RemoveSigner(caller, signer)
  \/ \E caller \in Users, new \in Thresholds : UpdateThreshold(caller, new)
  \/ \E token \in Tokens, from \in Users, to \in Accounts, amount \in Gifts :
       Give(token, from, to, amount)

Spec == Init /\ [][Next]_vars

(***************************************************************************)
(* Somebody has what is approved executed: execute_withdrawal is open to   *)
(* every address.                                                          *)
(***************************************************************************)
FairSpec ==
  /\ Spec
  /\ \A id \in 0 .. (MaxProposals - 1) :
       WF_vars(\E executor \in Users : ExecuteWithdrawal(executor, id))

-----------------------------------------------------------------------------
(***************************************************************************)
(* The types of the variables.                                             *)
(***************************************************************************)
TypeOK ==
  /\ admin \in Users \cup {None}
  /\ signers \in Seq(Users)
  /\ threshold \in Nat
  /\ proposal_count \in 0 .. MaxProposals
  /\ withdrawals \in [0 .. (proposal_count - 1) -> WithdrawalRequest]
  /\ funds \in Ledgers(Tokens, Accounts)
  /\ asked \in [0 .. (proposal_count - 1) -> Nat]

(***************************************************************************)
(* However signers and threshold change before and after: nobody counts    *)
(* twice for a request; one that may be, or was, executed has as many      *)
(* different approvers as the threshold asked for at its last approval;    *)
(* and one that signers joined after its creation, and that is pending     *)
(* still, has fewer than that.                                             *)
(***************************************************************************)
ApprovedByQuorum ==
  \A id \in DOMAIN withdrawals :
    LET r == withdrawals[id]
        approvers == Cardinality(Elements(r.approvals))
    IN /\ approvers = Len(r.approvals)
       /\ r.status \in {"Approved", "Executed"} => approvers >= asked[id]
       /\ r.status = "Pending" /\ approvers > 1 => approvers < asked[id]

(***************************************************************************)
(* The threshold never asks for more signers than there are.               *)
(***************************************************************************)
ThresholdAchievable ==
  admin # None => threshold \in 1 .. Len(signers)

(***************************************************************************)
(* The treasury seen as a vault: signers and approvals as sets, and no     *)
(* difference between what is executed now and what was executed before.   *)
(***************************************************************************)
StageOf(status) == CASE status = "Pending" -> "open"
                     [] status = "Approved" -> "granted"
                     [] status = "Executed" -> "paid"
                     [] status = "Cancelled" -> "paid"

RequestOf(r) == [token |-> r.token, recipient |-> r.recipient,
                 amount |-> r.amount, approvers |-> Elements(r.approvals),
                 stage |-> StageOf(r.status)]

V == INSTANCE Vault
       WITH requests <- [id \in DOMAIN withdrawals |-> RequestOf(withdrawals[id])],
            keepers <- Elements(signers), required <- threshold,
            RequestIds <- 0 .. (MaxProposals - 1),
            Sums <- {amount \in Amounts : amount > 0}

(***************************************************************************)
(* The treasury implements the vault: every approval is of another signer, *)
(* the approval that grants a request is counted against the threshold of  *)
(* that moment, nothing takes a grant back, its terms never change and it  *)
(* is paid at most once.                                                   *)
(***************************************************************************)
ImplementsVault == V!Spec

(***************************************************************************)
(* An approved request that the balance covers is executed in the end, or  *)
(* another one takes the balance: also when those who approved it are no   *)
(* signers any more and when the threshold has been raised above them.     *)
(***************************************************************************)
Covered(id) ==
  /\ id \in DOMAIN withdrawals
  /\ withdrawals[id].amount <= funds[<<withdrawals[id].token, Contract>>]

EventuallyPaid ==
  \A id \in 0 .. (MaxProposals - 1) :
    (Covered(id) /\ withdrawals[id].status = "Approved")
      ~> (~Covered(id) \/ withdrawals[id].status = "Executed")
=============================================================================
