--------------------------- MODULE TreasuryProofs ---------------------------
(***************************************************************************)
(* Proofs about Treasury for any users, signers, amounts and thresholds.   *)
(***************************************************************************)
EXTENDS Treasury, DataTheorems

(***************************************************************************)
(* The inductive invariant.  A request whose last approval was counted     *)
(* against the threshold n is Sound if it has the approvals of different   *)
(* addresses, the first of them from the start, and if their number        *)
(* decides whether it is pending: unless nobody has joined the first.      *)
(***************************************************************************)
Sound(r, n) ==
  /\ Distinct(r.approvals)
  /\ Len(r.approvals) >= 1
  /\ r.status \in {"Pending", "Approved", "Executed"}
  /\ r.status # "Pending" => Len(r.approvals) >= n
  /\ r.status = "Pending" /\ Len(r.approvals) > 1 => Len(r.approvals) < n

AllSound == \A id \in DOMAIN withdrawals : Sound(withdrawals[id], asked[id])

(***************************************************************************)
(* initialize starts the count anew: it may because no request was created *)
(* before.                                                                 *)
(***************************************************************************)
Unused == admin = None => proposal_count = 0

IInv == TypeOK /\ AllSound /\ Unused

(***************************************************************************)
(* A transfer within the balance keeps the ledger a ledger.                *)
(***************************************************************************)
LEMMA TransferType ==
  ASSUME NEW ledger \in Ledgers(Tokens, Accounts), NEW token \in Tokens,
         NEW from \in Accounts, NEW to \in Accounts, NEW amount \in Nat,
         CanTransfer(ledger, token, from, amount)
  PROVE  Transfer(ledger, token, from, to, amount) \in Ledgers(Tokens, Accounts)
  BY DEF Transfer, CanTransfer, Ledgers

-----------------------------------------------------------------------------
(***************************************************************************)
(* Each step keeps the inductive invariant.                                *)
(***************************************************************************)
LEMMA InitIInv == Init => IInv
<1> SUFFICES ASSUME Init PROVE IInv
  OBVIOUS
<1>1. TypeOK
  BY TreasuryAssumption DEF Init, TypeOK
<1> QED BY <1>1 DEF Init, IInv, AllSound, Unused

LEMMA InitializeIInv ==
  ASSUME IInv, NEW caller \in Admins, NEW list \in SignerLists,
         NEW new \in Thresholds, Initialize(caller, list, new)
  PROVE  IInv'
<1>1. /\ admin' \in Users /\ admin' # None /\ list \in Seq(Users) /\ new \in Nat
  BY TreasuryAssumption DEF Initialize
<1>2. proposal_count = 0 /\ withdrawals' = withdrawals
  BY DEF IInv, Unused, Initialize
<1>3. TypeOK'
  BY <1>1, <1>2 DEF IInv, TypeOK, Initialize
<1>4. DOMAIN withdrawals' = {}
  BY <1>2 DEF IInv, TypeOK
<1> QED BY <1>1, <1>3, <1>4 DEF IInv, AllSound, Unused

LEMMA CreateWithdrawalIInv ==
  ASSUME IInv, NEW proposer \in Users, NEW token \in Tokens,
         NEW recipient \in Recipients, NEW amount \in Amounts,
         CreateWithdrawal(proposer, token, recipient, amount)
  PROVE  IInv'
<1> DEFINE r == NewRequest(proposer, token, recipient, amount)
<1>1. amount \in Nat /\ recipient \in Accounts
  BY TreasuryAssumption DEF CreateWithdrawal, ValidAmount
<1>2. r \in WithdrawalRequest
  BY <1>1 DEF NewRequest, WithdrawalRequest, Statuses
<1>3. r.approvals = <<proposer>> /\ r.status = "Pending"
  BY DEF NewRequest
<1>4. /\ proposal_count \in Nat /\ proposal_count < MaxProposals
      /\ proposal_count' = proposal_count + 1
      /\ DOMAIN withdrawals = 0 .. (proposal_count - 1)
      /\ withdrawals \in [DOMAIN withdrawals -> WithdrawalRequest]
      /\ asked \in [DOMAIN withdrawals -> Nat] /\ threshold \in Nat
      /\ UNCHANGED <<admin, signers, threshold, funds>>
  BY DEF IInv, TypeOK, CreateWithdrawal
<1>5. withdrawals' = [id \in (DOMAIN withdrawals) \cup {proposal_count} |->
                        IF id \in DOMAIN withdrawals THEN withdrawals[id] ELSE r]
  BY DEF CreateWithdrawal
<1>6. asked' = [id \in (DOMAIN withdrawals) \cup {proposal_count} |->
                  IF id \in DOMAIN withdrawals THEN asked[id] ELSE threshold]
  BY <1>4 DEF CreateWithdrawal
<1> HIDE DEF r
<1>7. 0 .. (proposal_count' - 1) = (DOMAIN withdrawals) \cup {proposal_count}
  BY <1>4
<1>8. /\ withdrawals' \in [0 .. (proposal_count' - 1) -> WithdrawalRequest]
      /\ asked' \in [0 .. (proposal_count' - 1) -> Nat]
  BY <1>2, <1>4, <1>5, <1>6, <1>7
<1>9. TypeOK'
  <2>1. proposal_count' \in 0 .. MaxProposals
    BY <1>4, TreasuryAssumption
  <2> QED BY <1>4, <1>8, <2>1 DEF IInv, TypeOK
<1>10. Sound(r, threshold)
  <2>1. Distinct(<<proposer>>) /\ Len(<<proposer>>) = 1
    BY DEF Distinct
  <2> QED BY <1>3, <2>1 DEF Sound
<1>11. AllSound'
  <2>1. \A id \in DOMAIN withdrawals' : Sound(withdrawals'[id], asked'[id])
    BY <1>5, <1>6, <1>10 DEF IInv, AllSound
  <2> QED BY <2>1 DEF AllSound, Sound
<1>12. Unused'
  BY <1>4 DEF Unused, CreateWithdrawal
<1> QED BY <1>9, <1>11, <1>12 DEF IInv

(***************************************************************************)
(* An approval is of another signer, and is counted with the others        *)
(* against the threshold of that moment.                                   *)
(***************************************************************************)
LEMMA ApprovedBySound ==
  ASSUME IInv, NEW signer \in Users, NEW r \in WithdrawalRequest, NEW n,
         Sound(r, n), MayApprove(signer, r)
  PROVE  /\ ApprovedBy(signer, r) \in WithdrawalRequest
         /\ Sound(ApprovedBy(signer, r), threshold)
<1> DEFINE q == ApprovedBy(signer, r)
           l == Append(r.approvals, signer)
<1>1. r.approvals \in Seq(Users) /\ Len(r.approvals) \in Nat
  BY DEF WithdrawalRequest
<1>2. /\ l \in Seq(Users) /\ Len(l) = Len(r.approvals) + 1
      /\ Elements(l) = Elements(r.approvals) \cup {signer} /\ Distinct(l)
  BY <1>1, AppendElements DEF MayApprove, Sound
<1>3. /\ q.approvals = l
      /\ q.status = IF Len(r.approvals) + 1 >= threshold THEN "Approved"
                                                        ELSE "Pending"
  BY DEF ApprovedBy, WithdrawalRequest, MayApprove
<1>4. q \in WithdrawalRequest
  BY <1>2 DEF ApprovedBy, WithdrawalRequest, Statuses
<1>5. threshold \in Nat
  BY DEF IInv, TypeOK
<1> HIDE DEF q, l
<1>6. Sound(q, threshold)
  BY <1>1, <1>2, <1>3, <1>5 DEF Sound
<1> QED BY <1>4, <1>6 DEF q

(***************************************************************************)
(* A sound request in the place of another keeps the invariant.            *)
(***************************************************************************)
LEMMA ReplacedIInv ==
  ASSUME IInv, NEW id \in DOMAIN withdrawals, NEW r \in WithdrawalRequest,
         NEW n \in Nat, Sound(r, n),
         withdrawals' = [withdrawals EXCEPT ![id] = r],
         asked' = [asked EXCEPT ![id] = n],
         funds' \in Ledgers(Tokens, Accounts), UNCHANGED config
  PROVE  IInv'
<1>1. TypeOK'
  BY DEF IInv, TypeOK, config
<1>2. AllSound'
  <2>1. \A i \in DOMAIN withdrawals' : Sound(withdrawals'[i], asked'[i])
    BY DEF IInv, TypeOK, AllSound
  <2> QED BY <2>1 DEF AllSound, Sound
<1> QED BY <1>1, <1>2 DEF IInv, Unused, config

LEMMA ApproveWithdrawalIInv ==
  ASSUME IInv, NEW signer \in Users, NEW id \in DOMAIN withdrawals,
         ApproveWithdrawal(signer, id)
  PROVE  IInv'
<1> DEFINE r == withdrawals[id]
<1>1. r \in WithdrawalRequest /\ Sound(r, asked[id]) /\ MayApprove(signer, r)
  BY DEF IInv, TypeOK, AllSound, ApproveWithdrawal
<1>2. /\ ApprovedBy(signer, r) \in WithdrawalRequest
      /\ Sound(ApprovedBy(signer, r), threshold)
  BY <1>1, ApprovedBySound
<1>3. funds' \in Ledgers(Tokens, Accounts) /\ threshold \in Nat
  BY DEF IInv, TypeOK, ApproveWithdrawal
<1> QED BY <1>2, <1>3, ReplacedIInv DEF ApproveWithdrawal

LEMMA ExecuteWithdrawalIInv ==
  ASSUME IInv, NEW executor \in Users, NEW id \in DOMAIN withdrawals,
         ExecuteWithdrawal(executor, id)
  PROVE  IInv'
<1> DEFINE r == withdrawals[id]
<1>1. r \in WithdrawalRequest /\ Sound(r, asked[id]) /\ r.status = "Approved"
  BY DEF IInv, TypeOK, AllSound, ExecuteWithdrawal, MayExecute
<1>2. Executed(r) \in WithdrawalRequest /\ Sound(Executed(r), asked[id])
  BY <1>1 DEF Executed, WithdrawalRequest, Statuses, Sound
<1>3. funds' \in Ledgers(Tokens, Accounts)
  <2>1. /\ CanTransfer(funds, r.token, Contract, r.amount)
        /\ funds' = Transfer(funds, r.token, Contract, r.recipient, r.amount)
    BY DEF ExecuteWithdrawal
  <2>2. /\ funds \in Ledgers(Tokens, Accounts) /\ r.token \in Tokens
        /\ Contract \in Accounts /\ r.recipient \in Accounts /\ r.amount \in Nat
    BY <1>1 DEF IInv, TypeOK, WithdrawalRequest, Accounts
  <2> QED BY <2>1, <2>2, TransferType
<1>4. asked[id] \in Nat /\ asked' = [asked EXCEPT ![id] = asked[id]]
  BY DEF IInv, TypeOK, ExecuteWithdrawal
<1> QED BY <1>2, <1>3, <1>4, ReplacedIInv DEF ExecuteWithdrawal

(***************************************************************************)
(* Nothing that the admin changes is in what is claimed of the requests.   *)
(***************************************************************************)
LEMMA ReformedIInv ==
  ASSUME IInv, signers' \in Seq(Users), threshold' \in Nat,
         UNCHANGED <<admin, proposal_count, withdrawals, funds, asked>>
  PROVE  IInv'
BY DEF IInv, TypeOK, AllSound, Sound, Unused

LEMMA AddSignerIInv ==
  ASSUME IInv, NEW caller \in Users, NEW new \in Users, AddSigner(caller, new)
  PROVE  IInv'
<1>1. signers \in Seq(Users) /\ threshold \in Nat
  BY DEF IInv, TypeOK
<1>2. signers' \in Seq(Users)
  BY <1>1, AppendElements DEF AddSigner
<1> QED BY <1>1, <1>2, ReformedIInv DEF AddSigner

LEMMA RemoveSignerIInv ==
  ASSUME IInv, NEW caller \in Users, NEW signer \in Users,
         RemoveSigner(caller, signer)
  PROVE  IInv'
<1>1. signers \in Seq(Users) /\ threshold \in Nat
  BY DEF IInv, TypeOK
<1>2. signers' \in Seq(Users)
  BY <1>1, WithoutType DEF RemoveSigner
<1> QED BY <1>1, <1>2, ReformedIInv DEF RemoveSigner

LEMMA UpdateThresholdIInv ==
  ASSUME IInv, NEW caller \in Users, NEW new \in Thresholds,
         UpdateThreshold(caller, new)
  PROVE  IInv'
<1>1. signers \in Seq(Users) /\ new \in Nat
  BY TreasuryAssumption DEF IInv, TypeOK
<1> QED BY <1>1, ReformedIInv DEF UpdateThreshold

LEMMA GiveIInv ==
  ASSUME IInv, NEW token \in Tokens, NEW from \in Users, NEW to \in Accounts,
         NEW amount \in Gifts, Give(token, from, to, amount)
  PROVE  IInv'
<1>1. funds' \in Ledgers(Tokens, Accounts)
  <2>1. from \in Accounts /\ amount \in Nat
    BY TreasuryAssumption DEF Accounts
  <2> QED BY <2>1, TransferType DEF IInv, TypeOK, Give
<1>2. TypeOK'
  BY <1>1 DEF IInv, TypeOK, Give, config
<1> QED BY <1>2 DEF IInv, AllSound, Sound, Unused, Give, config

LEMMA NextIInv ==
  ASSUME IInv, [Next]_vars
  PROVE  IInv'
<1>1. CASE \E caller \in Admins, list \in SignerLists, new \in Thresholds :
             Initialize(caller, list, new)
  BY <1>1, InitializeIInv
<1>2. CASE \E from \in Users, token \in Tokens, amount \in Amounts :
             Deposit(from, token, amount)
  BY <1>2 DEF Deposit, vars, config, IInv, TypeOK, AllSound, Sound, Unused
<1>3. CASE \E proposer \in Users, token \in Tokens, recipient \in Recipients,
              amount \in Amounts :
             CreateWithdrawal(proposer, token, recipient, amount)
  BY <1>3, CreateWithdrawalIInv
<1>4. CASE \E signer \in Users, id \in DOMAIN withdrawals :
             ApproveWithdrawal(signer, id)
  BY <1>4, ApproveWithdrawalIInv
<1>5. CASE \E executor \in Users, id \in DOMAIN withdrawals :
             ExecuteWithdrawal(executor, id)
  BY <1>5, ExecuteWithdrawalIInv
<1>6. CASE \E caller \in Users, new \in Users : AddSigner(caller, new)
  BY <1>6, AddSignerIInv
<1>7. CASE \E caller \in Users, signer \in Users : RemoveSigner(caller, signer)
  BY <1>7, RemoveSignerIInv
<1>8. CASE \E caller \in Users, new \in Thresholds : UpdateThreshold(caller, new)
  BY <1>8, UpdateThresholdIInv
<1>9. CASE \E token \in Tokens, from \in Users, to \in Accounts,
              amount \in Gifts :
             Give(token, from, to, amount)
  BY <1>9, GiveIInv
<1>10. CASE UNCHANGED vars
  BY <1>10 DEF vars, config, IInv, TypeOK, AllSound, Sound, Unused
<1> QED
  BY <1>1, <1>2, <1>3, <1>4, <1>5, <1>6, <1>7, <1>8, <1>9, <1>10 DEF Next

LEMMA Inductive == Spec => []IInv
<1>1. IInv /\ [Next]_vars => IInv'
  BY NextIInv
<1> QED BY InitIInv, <1>1, PTL DEF Spec

(***************************************************************************)
(* The types of the variables.                                             *)
(***************************************************************************)
THEOREM TypeCorrect == Spec => []TypeOK
<1>1. IInv => TypeOK
  BY DEF IInv
<1> QED BY Inductive, <1>1, PTL

(***************************************************************************)
(* Nobody counts twice, and the status of a request is what the threshold  *)
(* in force at its last approval made of the number of its approvers:      *)
(* whatever vectors initialize is given and however signers and threshold  *)
(* change.                                                                 *)
(***************************************************************************)
THEOREM Quorum == Spec => []ApprovedByQuorum
<1>1. IInv => ApprovedByQuorum
  <2> SUFFICES ASSUME IInv, NEW id \in DOMAIN withdrawals
               PROVE  LET r == withdrawals[id]
                          approvers == Cardinality(Elements(r.approvals))
                      IN /\ approvers = Len(r.approvals)
                         /\ r.status \in {"Approved", "Executed"} =>
                              approvers >= asked[id]
                         /\ r.status = "Pending" /\ approvers > 1 =>
                              approvers < asked[id]
    BY DEF ApprovedByQuorum
  <2> DEFINE r == withdrawals[id]
  <2>1. Sound(r, asked[id]) /\ r.approvals \in Seq(Users)
    BY DEF IInv, TypeOK, AllSound, WithdrawalRequest
  <2>2. Cardinality(Elements(r.approvals)) = Len(r.approvals)
    BY <2>1, DistinctLength DEF Sound
  <2> QED BY <2>1, <2>2 DEF Sound
<1> QED BY Inductive, <1>1, PTL

-----------------------------------------------------------------------------
(***************************************************************************)
(* When the first signers are different, so are all later ones; a removal  *)
(* then takes one signer away and no more.                                 *)
(***************************************************************************)
DInv == Distinct(signers) /\ ThresholdAchievable

LEMMA NextDInv ==
  ASSUME \A list \in SignerLists : Distinct(list), TypeOK, DInv, [Next]_vars
  PROVE  DInv'
<1>1. signers \in Seq(Users) /\ Len(signers) \in Nat /\ threshold \in Nat
  BY DEF TypeOK
<1>2. CASE \E caller \in Admins, list \in SignerLists, new \in Thresholds :
             Initialize(caller, list, new)
  <2>1. PICK caller \in Admins, list \in SignerLists, new \in Thresholds :
               Initialize(caller, list, new)
    BY <1>2
  <2>2. Distinct(list) /\ new \in Nat /\ Len(list) \in Nat
    BY TreasuryAssumption
  <2> QED BY <2>1, <2>2 DEF Initialize, ValidThreshold, DInv, ThresholdAchievable
<1>3. CASE \E caller \in Users, new \in Users : AddSigner(caller, new)
  <2>1. PICK caller \in Users, new \in Users : AddSigner(caller, new)
    BY <1>3
  <2>2. Distinct(signers') /\ Len(signers') = Len(signers) + 1
    BY <1>1, <2>1, AppendElements DEF AddSigner, DInv
  <2> QED BY <1>1, <2>1, <2>2 DEF AddSigner, DInv, ThresholdAchievable
<1>4. CASE \E caller \in Users, signer \in Users : RemoveSigner(caller, signer)
  <2>1. PICK caller \in Users, signer \in Users : RemoveSigner(caller, signer)
    BY <1>4
  <2>2. /\ signer \in Elements(signers) /\ Len(signers) > threshold
        /\ signers' = Without(signers, signer) /\ UNCHANGED <<admin, threshold>>
    BY <2>1 DEF RemoveSigner, MayRemove
  <2>3. Distinct(signers') /\ Len(signers') = Len(signers) - 1
    BY <1>1, <2>2, WithoutType, WithoutLength DEF DInv
  <2> QED BY <1>1, <2>2, <2>3 DEF DInv, ThresholdAchievable
<1>5. CASE \E caller \in Users, new \in Thresholds : UpdateThreshold(caller, new)
  <2>1. PICK caller \in Users, new \in Thresholds : UpdateThreshold(caller, new)
    BY <1>5
  <2>2. new \in Nat
    BY TreasuryAssumption
  <2> QED BY <1>1, <2>1, <2>2 DEF UpdateThreshold, ValidThreshold, DInv,
                                   ThresholdAchievable
<1>6. CASE UNCHANGED <<admin, signers, threshold>>
  BY <1>6 DEF DInv, ThresholdAchievable
<1> QED
  BY <1>2, <1>3, <1>4, <1>5, <1>6
  DEF Next, Deposit, CreateWithdrawal, ApproveWithdrawal, ExecuteWithdrawal,
      Give, vars, config

(***************************************************************************)
(* As long as initialize is given no address twice, the threshold never    *)
(* asks for more signers than there are, however the admin changes both.   *)
(***************************************************************************)
THEOREM Achievable ==
  ASSUME \A list \in SignerLists : Distinct(list)
  PROVE  Spec => []ThresholdAchievable
<1>1. Init => DInv
  BY DEF Init, DInv, Distinct, ThresholdAchievable
<1>2. TypeOK /\ DInv /\ [Next]_vars => DInv'
  BY NextDInv
<1>3. DInv => ThresholdAchievable
  BY DEF DInv
<1> QED BY TypeCorrect, <1>1, <1>2, <1>3, PTL DEF Spec

-----------------------------------------------------------------------------
(***************************************************************************)
(* The treasury implements the vault, step by step.  The vault's ledger is *)
(* the treasury's.                                                         *)
(***************************************************************************)
LEMMA TransferIsOurs ==
  ASSUME NEW ledger, NEW token, NEW from, NEW to, NEW amount
  PROVE  /\ V!Transfer(ledger, token, from, to, amount)
              = Transfer(ledger, token, from, to, amount)
         /\ V!CanTransfer(ledger, token, from, amount)
              <=> CanTransfer(ledger, token, from, amount)
  BY DEF Transfer, V!Transfer, CanTransfer, V!CanTransfer

Requests == [id \in DOMAIN withdrawals |-> RequestOf(withdrawals[id])]

(***************************************************************************)
(* Whatever the admin does is a reform of the vault.                       *)
(***************************************************************************)
LEMMA ConfigReforms ==
  ASSUME signers' \in Seq(Users), threshold' \in Nat,
         UNCHANGED <<withdrawals, funds>>
  PROVE  V!Reform
<1>1. Elements(signers') \subseteq Users
  BY DEF Elements
<1> QED BY <1>1 DEF V!Reform, Elements, RequestOf, StageOf

LEMMA CreateWithdrawalAsks ==
  ASSUME TypeOK, NEW proposer \in Users, NEW token \in Tokens,
         NEW recipient \in Recipients, NEW amount \in Amounts,
         CreateWithdrawal(proposer, token, recipient, amount)
  PROVE  V!Next
<1> DEFINE n == proposal_count
           r == NewRequest(proposer, token, recipient, amount)
<1>1. /\ n \in Nat /\ n < MaxProposals /\ n \notin DOMAIN withdrawals
      /\ proposer \in Elements(signers) /\ amount > 0
      /\ withdrawals' = [id \in (DOMAIN withdrawals) \cup {n} |->
                           IF id \in DOMAIN withdrawals THEN withdrawals[id]
                                                        ELSE r]
      /\ UNCHANGED <<signers, threshold, funds>>
  BY DEF TypeOK, CreateWithdrawal, ValidAmount
<1>2. RequestOf(r) = V!Asked(proposer, token, recipient, amount)
  <2>1. Elements(<<proposer>>) = {proposer}
    BY DEF Elements
  <2> QED BY <2>1 DEF RequestOf, NewRequest, StageOf, V!Asked
<1>3. /\ n \in 0 .. (MaxProposals - 1) /\ amount \in {a \in Amounts : a > 0}
      /\ recipient \in V!Accounts
  BY <1>1, TreasuryAssumption DEF Accounts, V!Accounts
<1> HIDE DEF r, n
<1>4. Requests' = [id \in (DOMAIN Requests) \cup {n} |->
                     IF id = n THEN V!Asked(proposer, token, recipient, amount)
                     ELSE Requests[id]]
  BY <1>1, <1>2, Zenon DEF Requests
<1>5. V!Ask(proposer, n, token, recipient, amount)
  <2>1. DOMAIN Requests = DOMAIN withdrawals
    BY DEF Requests
  <2> QED BY <1>1, <1>4, <2>1 DEF V!Ask, Requests
<1> QED BY <1>3, <1>5 DEF V!Next

LEMMA ApproveWithdrawalApproves ==
  ASSUME TypeOK, AllSound, NEW signer \in Users, NEW id \in DOMAIN withdrawals,
         ApproveWithdrawal(signer, id)
  PROVE  V!Next
<1> DEFINE r == withdrawals[id]
           l == Append(r.approvals, signer)
           q == ApprovedBy(signer, r)
<1>1. /\ r \in WithdrawalRequest /\ Sound(r, asked[id]) /\ r.approvals \in Seq(Users)
      /\ Len(r.approvals) \in Nat /\ threshold \in Nat
      /\ MayApprove(signer, r) /\ withdrawals' = [withdrawals EXCEPT ![id] = q]
      /\ UNCHANGED <<signers, threshold, funds>>
  BY DEF TypeOK, AllSound, ApproveWithdrawal, WithdrawalRequest, config
<1>2. /\ l \in Seq(Users) /\ Len(l) = Len(r.approvals) + 1
      /\ Elements(l) = Elements(r.approvals) \cup {signer} /\ Distinct(l)
  BY <1>1, AppendElements DEF MayApprove, Sound
<1>3. Cardinality(Elements(l)) = Len(r.approvals) + 1
  BY <1>2, DistinctLength
<1>4. V!Granted(Elements(r.approvals) \cup {signer})
        <=> Len(r.approvals) + 1 >= threshold
  BY <1>2, <1>3 DEF V!Granted, Cardinality, V!Cardinality
<1>5. /\ q.token = r.token /\ q.recipient = r.recipient /\ q.amount = r.amount
      /\ q.approvals = l
      /\ q.status = IF Len(r.approvals) + 1 >= threshold THEN "Approved"
                                                        ELSE "Pending"
  BY <1>1 DEF ApprovedBy, WithdrawalRequest, MayApprove
<1>6. /\ RequestOf(r).stage = "open"
      /\ RequestOf(r).approvers = Elements(r.approvals)
  BY <1>1 DEF RequestOf, StageOf, MayApprove
<1> HIDE DEF q, l
<1>7. RequestOf(q) =
        [RequestOf(r) EXCEPT
           !.approvers = RequestOf(r).approvers \cup {signer},
           !.stage = IF V!Granted(RequestOf(r).approvers \cup {signer})
                     THEN "granted" ELSE "open"]
  <2> DEFINE both == Elements(r.approvals) \cup {signer}
  <2>1. StageOf(q.status) = IF V!Granted(both) THEN "granted" ELSE "open"
    BY <1>4, <1>5 DEF StageOf
  <2>2. Elements(q.approvals) = both
    BY <1>2, <1>5
  <2> DEFINE stage == IF V!Granted(both) THEN "granted" ELSE "open"
  <2>3. RequestOf(q) =
          [token |-> r.token, recipient |-> r.recipient, amount |-> r.amount,
           approvers |-> both, stage |-> stage]
    BY <1>5, <2>1, <2>2 DEF RequestOf
  <2>4. RequestOf(r) =
          [token |-> r.token, recipient |-> r.recipient, amount |-> r.amount,
           approvers |-> Elements(r.approvals), stage |-> "open"]
    BY <1>6 DEF RequestOf
  <2>5. RequestOf(r).approvers \cup {signer} = both
    BY <1>6
  <2> HIDE DEF both, stage, r
  <2> DEFINE m == [RequestOf(r) EXCEPT !.approvers = both]
  <2>6. m = [token |-> r.token, recipient |-> r.recipient, amount |-> r.amount,
             approvers |-> both, stage |-> "open"]
    BY <2>4
  <2>7. RequestOf(q) = [m EXCEPT !.stage = stage]
    <3> HIDE DEF m
    <3> QED BY <2>3, <2>6
  <2>8. RequestOf(q) = [RequestOf(r) EXCEPT !.approvers = both, !.stage = stage]
    BY <2>7, Zenon
  <2> QED BY <2>5, <2>8 DEF stage
<1>8. Requests' = [Requests EXCEPT ![id] = RequestOf(q)]
  BY <1>1 DEF Requests
<1>9. Requests[id] = RequestOf(r) /\ id \in DOMAIN Requests
  BY DEF Requests
<1>10. signer \in Elements(signers) \ RequestOf(r).approvers
  BY <1>1, <1>6 DEF MayApprove
<1> HIDE DEF r
<1>11. V!Approve(signer, id)
  BY <1>1, <1>6, <1>7, <1>8, <1>9, <1>10 DEF V!Approve, Requests
<1> QED BY <1>9, <1>11 DEF V!Next, Requests

LEMMA ExecuteWithdrawalPays ==
  ASSUME TypeOK, NEW executor \in Users, NEW id \in DOMAIN withdrawals,
         ExecuteWithdrawal(executor, id)
  PROVE  V!Next
<1> DEFINE r == withdrawals[id]
<1>1. /\ r \in WithdrawalRequest /\ r.status = "Approved"
      /\ CanTransfer(funds, r.token, Contract, r.amount)
      /\ funds' = Transfer(funds, r.token, Contract, r.recipient, r.amount)
      /\ withdrawals' = [withdrawals EXCEPT ![id] = Executed(r)]
      /\ UNCHANGED <<signers, threshold>>
  BY DEF TypeOK, ExecuteWithdrawal, MayExecute, config
<1>2. /\ RequestOf(r).stage = "granted" /\ RequestOf(r).token = r.token
      /\ RequestOf(r).recipient = r.recipient /\ RequestOf(r).amount = r.amount
      /\ RequestOf(Executed(r)) = [RequestOf(r) EXCEPT !.stage = "paid"]
  BY <1>1 DEF RequestOf, StageOf, Executed, WithdrawalRequest
<1>3. /\ Requests' = [Requests EXCEPT ![id] = RequestOf(Executed(r))]
      /\ Requests[id] = RequestOf(r) /\ id \in DOMAIN Requests
  BY <1>1 DEF Requests
<1> HIDE DEF r
<1>4. V!Pay(id)
  BY <1>1, <1>2, <1>3, TransferIsOurs DEF V!Pay, Requests
<1> QED BY <1>3, <1>4 DEF V!Next, Requests

LEMMA GiveGives ==
  ASSUME NEW token \in Tokens, NEW from \in Users, NEW to \in Accounts,
         NEW amount \in Gifts, Give(token, from, to, amount)
  PROVE  V!Next
<1>1. /\ CanTransfer(funds, token, from, amount)
      /\ funds' = Transfer(funds, token, from, to, amount)
      /\ UNCHANGED <<signers, threshold, withdrawals>>
  BY DEF Give, config
<1>2. V!Give(token, from, to, amount)
  BY <1>1, TransferIsOurs DEF V!Give
<1> QED BY <1>2 DEF V!Next, V!Accounts, Accounts

LEMMA NextImplements ==
  ASSUME TypeOK, AllSound, TypeOK', [Next]_vars
  PROVE  [V!Next]_(V!vars)
<1>1. CASE \E caller \in Admins, list \in SignerLists, new \in Thresholds :
             Initialize(caller, list, new)
  BY <1>1, ConfigReforms DEF Initialize, TypeOK, V!Next
<1>2. CASE \E from \in Users, token \in Tokens, amount \in Amounts :
             Deposit(from, token, amount)
  BY <1>2 DEF Deposit, vars, config, V!vars
<1>3. CASE \E proposer \in Users, token \in Tokens, recipient \in Recipients,
              amount \in Amounts :
             CreateWithdrawal(proposer, token, recipient, amount)
  BY <1>3, CreateWithdrawalAsks
<1>4. CASE \E signer \in Users, id \in DOMAIN withdrawals :
             ApproveWithdrawal(signer, id)
  BY <1>4, ApproveWithdrawalApproves
<1>5. CASE \E executor \in Users, id \in DOMAIN withdrawals :
             ExecuteWithdrawal(executor, id)
  BY <1>5, ExecuteWithdrawalPays
<1>6. CASE \E caller \in Users, new \in Users : AddSigner(caller, new)
  BY <1>6, ConfigReforms DEF AddSigner, TypeOK, V!Next
<1>7. CASE \E caller \in Users, signer \in Users : RemoveSigner(caller, signer)
  BY <1>7, ConfigReforms DEF RemoveSigner, TypeOK, V!Next
<1>8. CASE \E caller \in Users, new \in Thresholds : UpdateThreshold(caller, new)
  BY <1>8, ConfigReforms DEF UpdateThreshold, TypeOK, V!Next
<1>9. CASE \E token \in Tokens, from \in Users, to \in Accounts,
              amount \in Gifts :
             Give(token, from, to, amount)
  BY <1>9, GiveGives
<1>10. CASE UNCHANGED vars
  BY <1>10 DEF vars, config, V!vars
<1> QED
  BY <1>1, <1>2, <1>3, <1>4, <1>5, <1>6, <1>7, <1>8, <1>9, <1>10 DEF Next

(***************************************************************************)
(* The treasury implements the vault: approvals are of different keepers,  *)
(* what is granted is counted against the threshold of that moment, its    *)
(* terms never change and it is paid at most once.                         *)
(***************************************************************************)
THEOREM TreasuryImplementsVault == Spec => ImplementsVault
<1>1. Init => V!Init
  <2>1. Elements(<<>>) = {}
    BY DEF Elements
  <2> QED BY <2>1 DEF Init, V!Init
<1>2. IInv /\ IInv' /\ [Next]_vars => [V!Next]_(V!vars)
  BY NextImplements DEF IInv
<1> QED BY Inductive, <1>1, <1>2, PTL DEF Spec, ImplementsVault, V!Spec
=============================================================================
