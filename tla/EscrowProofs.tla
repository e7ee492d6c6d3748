---------------------------- MODULE EscrowProofs ----------------------------
(***************************************************************************)
(* Proofs about Escrow for any number of accounts, tokens and deals.       *)
(***************************************************************************)
EXTENDS Escrow, DataTheorems

USE DEF EscrowAssumption

(***************************************************************************)
(* A transfer that the sender can afford keeps every balance natural.      *)
(***************************************************************************)
LEMMA TransferType ==
  ASSUME NEW ledger \in Ledgers(Tokens, Accounts),
         NEW token \in Tokens, NEW from \in Accounts, NEW to \in Accounts,
         NEW amount \in Nat, CanTransfer(ledger, token, from, amount),
         NEW after, after = Transfer(ledger, token, from, to, amount)
  PROVE  after \in Ledgers(Tokens, Accounts)
  BY DEF Transfer, CanTransfer, Ledgers

(***************************************************************************)
(* Adjoining deals under new identifiers adds what they hold to what the   *)
(* deals held before.                                                      *)
(***************************************************************************)
LEMMA AdjoinHeld ==
  ASSUME NEW D, IsFiniteSet(D), NEW ds \in [D -> Deal],
         NEW E, IsFiniteSet(E), NEW es \in [E -> Deal], D \cap E = {},
         NEW all, all = Adjoin(ds, es), NEW token
  PROVE  /\ Total(HeldOf(all, token))
              = Total(HeldOf(ds, token)) + Total(HeldOf(es, token))
         /\ Total(HeldOf(ds, token)) \in Nat
         /\ Total(HeldOf(es, token)) \in Nat
<1> DEFINE h == HeldOf(all, token)
<1>1. all \in [D \cup E -> Deal] /\ DOMAIN all = D \cup E
  BY DEF Adjoin
<1>2. h \in [D \cup E -> Nat]
  BY <1>1 DEF HeldOf, Deal
<1>3. [i \in D |-> h[i]] = HeldOf(ds, token)
  BY DEF HeldOf, Adjoin
<1>4. [i \in E |-> h[i]] = HeldOf(es, token)
  BY DEF HeldOf, Adjoin
<1>5. D \cap E = {} /\ IsFiniteSet(D) /\ IsFiniteSet(E)
  OBVIOUS
<1> HIDE DEF h
<1>6. /\ Total(h) = Total(HeldOf(ds, token)) + Total(HeldOf(es, token))
      /\ Total(HeldOf(ds, token)) \in Nat
      /\ Total(HeldOf(es, token)) \in Nat
  BY <1>2, <1>3, <1>4, <1>5, TotalSplit
<1> QED BY <1>6 DEF h

LEMMA AdjoinType ==
  ASSUME NEW D, IsFiniteSet(D), NEW ds \in [D -> Deal],
         NEW E, IsFiniteSet(E), NEW es \in [E -> Deal]
  PROVE  /\ Adjoin(ds, es) \in [D \cup E -> Deal]
         /\ IsFiniteSet(D \cup E)
  BY FS_Union DEF Adjoin

(***************************************************************************)
(* Paying from one deal lowers what the deals hold of its token by what is *)
(* paid, and leaves what they hold of the others alone.                    *)
(***************************************************************************)
LEMMA ReleaseHeld ==
  ASSUME NEW D, IsFiniteSet(D), NEW ds \in [D -> Deal], NEW id \in D,
         NEW paid \in Nat, paid <= ds[id].held,
         NEW rest, rest = Draw(ds, id, paid), NEW token
  PROVE  /\ ds[id].token = token =>
              Total(HeldOf(rest, token)) = Total(HeldOf(ds, token)) - paid
         /\ ds[id].token # token =>
              Total(HeldOf(rest, token)) = Total(HeldOf(ds, token))
         /\ Total(HeldOf(ds, token)) \in Nat
         /\ ds[id].token = token => ds[id].held <= Total(HeldOf(ds, token))
<1> DEFINE h == HeldOf(ds, token)
           v == IF ds[id].token = token THEN ds[id].held - paid ELSE 0
<1>1. h \in [D -> Nat] /\ v \in Nat /\ ds[id].held \in Nat
  BY DEF HeldOf, Deal
<1>2. HeldOf(rest, token) = [h EXCEPT ![id] = v]
  BY DEF HeldOf, Deal, Draw
<1>3. h[id] = IF ds[id].token = token THEN ds[id].held ELSE 0
  BY DEF HeldOf
<1>4. Total(h) \in Nat
  BY <1>1, TotalType
<1> HIDE DEF h, v
<1>5. Total([h EXCEPT ![id] = v]) = Total(h) - h[id] + v /\ h[id] <= Total(h)
  BY <1>1, TotalUpdate
<1>6. /\ ds[id].token = token => Total(HeldOf(rest, token)) = Total(h) - paid
      /\ ds[id].token # token => Total(HeldOf(rest, token)) = Total(h)
  BY <1>1, <1>2, <1>3, <1>4, <1>5 DEF v
<1> QED BY <1>3, <1>4, <1>5, <1>6 DEF h

LEMMA ReleaseType ==
  ASSUME NEW D, NEW ds \in [D -> Deal], NEW id \in D,
         NEW paid \in Nat, paid <= ds[id].held
  PROVE  Draw(ds, id, paid) \in [D -> Deal]
  BY DEF Deal, Draw

-----------------------------------------------------------------------------
(***************************************************************************)
(* The invariant: the type invariant and the cover of the deals are        *)
(* inductive together.                                                     *)
(***************************************************************************)
IInv == TypeOK /\ Backed

LEMMA InitIInv ==
  ASSUME EscrowAssumption, Init
  PROVE  IInv
<1> USE EscrowAssumption
<1>1. DOMAIN deals = {} /\ IsFiniteSet(DOMAIN deals)
  BY FS_EmptySet DEF Init
<1>2. TypeOK
  BY <1>1 DEF Init, TypeOK, Ledgers
<1>3. ASSUME NEW token \in Tokens
      PROVE  Total(HeldOf(deals, token)) = 0
  <2>1. Units(HeldOf(deals, token)) = {}
    BY <1>1 DEF Units, HeldOf
  <2> QED BY <2>1, FS_EmptySet DEF Total
<1>4. Backed
  BY <1>2, <1>3 DEF Backed, TypeOK, Ledgers
<1> QED BY <1>2, <1>4 DEF IInv

(***************************************************************************)
(* Opening a deal brings in what the deal holds.                           *)
(***************************************************************************)
LEMMA OpenIInv ==
  ASSUME EscrowAssumption, IInv, NEW id \in DealIds, NEW deal \in Deal, Open(id, deal)
  PROVE  IInv'
<1> USE EscrowAssumption
<1> DEFINE new == [i \in {id} |-> deal]
<1>1. /\ IsFiniteSet(DOMAIN deals) /\ deals \in [DOMAIN deals -> Deal]
      /\ funds \in Ledgers(Tokens, Accounts)
      /\ unbacked \in [Tokens -> Nat]
  BY DEF IInv, TypeOK
<1>2. /\ IsFiniteSet({id}) /\ DOMAIN deals \cap {id} = {}
      /\ new \in [{id} -> Deal]
  BY FS_Singleton DEF Open
<1>3. /\ deal.token \in Tokens /\ deal.payer \in Accounts \ {Contract}
      /\ deal.held \in Nat
  BY DEF Deal
<1>4. /\ deals' = Adjoin(deals, new) /\ unbacked' = unbacked
      /\ funds' = Transfer(funds, deal.token, deal.payer, Contract, deal.held)
      /\ CanTransfer(funds, deal.token, deal.payer, deal.held)
  BY DEF Open
<1>5. funds' \in Ledgers(Tokens, Accounts)
  BY <1>1, <1>3, <1>4, TransferType
<1>6. TypeOK'
  <2>1. /\ deals' \in [DOMAIN deals \cup {id} -> Deal]
        /\ IsFiniteSet(DOMAIN deals \cup {id})
    BY <1>1, <1>2, <1>4, AdjoinType
  <2> QED BY <1>1, <1>4, <1>5, <2>1 DEF TypeOK
<1>7. Backed'
  <2> SUFFICES ASSUME NEW t \in Tokens
               PROVE  Total(HeldOf(deals', t))
                        <= funds'[<<t, Contract>>] + unbacked'[t]
    BY DEF Backed
  <2>1. /\ Total(HeldOf(deals', t))
              = Total(HeldOf(deals, t)) + Total(HeldOf(new, t))
        /\ Total(HeldOf(deals, t)) \in Nat
    BY <1>1, <1>2, <1>4, AdjoinHeld
  <2>2. Total(HeldOf(new, t)) = IF t = deal.token THEN deal.held ELSE 0
    <3> DEFINE v == IF t = deal.token THEN deal.held ELSE 0
    <3>1. HeldOf(new, t) = [i \in {id} |-> v]
      BY DEF HeldOf
    <3>2. v \in Nat
      BY <1>3
    <3> HIDE DEF v
    <3>3. Total([i \in {id} |-> v]) = v
      BY <3>2, TotalSingleton
    <3> QED BY <3>1, <3>3 DEF v
  <2>3. Total(HeldOf(deals, t)) <= funds[<<t, Contract>>] + unbacked[t]
    BY DEF IInv, Backed
  <2>4. funds[<<t, Contract>>] \in Nat /\ unbacked[t] \in Nat
    BY <1>1 DEF Ledgers
  <2>5. /\ t = deal.token =>
             funds'[<<t, Contract>>] = funds[<<t, Contract>>] + deal.held
        /\ t # deal.token => funds'[<<t, Contract>>] = funds[<<t, Contract>>]
    BY <1>1, <1>3, <1>4 DEF Transfer, CanTransfer, Ledgers
  <2> QED BY <1>3, <1>4, <2>1, <2>2, <2>3, <2>4, <2>5
<1> QED BY <1>6, <1>7 DEF IInv

(***************************************************************************)
(* Recording deals without a transfer raises what is unbacked by what the  *)
(* new deals hold.                                                         *)
(***************************************************************************)
LEMMA OpenUnbackedIInv ==
  ASSUME EscrowAssumption, IInv, NEW ids, IsFiniteSet(ids), NEW opened \in [ids -> Deal],
         OpenUnbacked(opened)
  PROVE  IInv'
<1>1. /\ IsFiniteSet(DOMAIN deals) /\ deals \in [DOMAIN deals -> Deal]
      /\ funds \in Ledgers(Tokens, Accounts)
      /\ unbacked \in [Tokens -> Nat]
  BY DEF IInv, TypeOK
<1>2. DOMAIN deals \cap ids = {}
  BY DEF OpenUnbacked
<1>3. /\ deals' = Adjoin(deals, opened) /\ funds' = funds
      /\ unbacked' = [token \in Tokens |->
                         unbacked[token] + Total(HeldOf(opened, token))]
  BY DEF OpenUnbacked
<1>4. \A t \in Tokens :
        /\ Total(HeldOf(deals', t))
              = Total(HeldOf(deals, t)) + Total(HeldOf(opened, t))
        /\ Total(HeldOf(deals, t)) \in Nat
        /\ Total(HeldOf(opened, t)) \in Nat
  BY <1>1, <1>2, <1>3, AdjoinHeld
<1>5. TypeOK'
  <2>1. /\ deals' \in [DOMAIN deals \cup ids -> Deal]
        /\ IsFiniteSet(DOMAIN deals \cup ids)
    BY <1>1, <1>3, AdjoinType
  <2>2. unbacked' \in [Tokens -> Nat]
    BY <1>1, <1>3, <1>4
  <2> QED BY <1>1, <1>3, <2>1, <2>2 DEF TypeOK
<1>6. Backed'
  <2> SUFFICES ASSUME NEW t \in Tokens
               PROVE  Total(HeldOf(deals', t))
                        <= funds'[<<t, Contract>>] + unbacked'[t]
    BY DEF Backed
  <2>1. Total(HeldOf(deals, t)) <= funds[<<t, Contract>>] + unbacked[t]
    BY DEF IInv, Backed
  <2>2. funds[<<t, Contract>>] \in Nat /\ unbacked[t] \in Nat
    BY <1>1, EscrowAssumption DEF Ledgers
  <2>3. unbacked'[t] = unbacked[t] + Total(HeldOf(opened, t))
    BY <1>3
  <2> QED BY <1>3, <1>4, <2>1, <2>2, <2>3
<1> QED BY <1>5, <1>6 DEF IInv

(***************************************************************************)
(* A payment from a deal takes from the contract at most what it takes     *)
(* from the deal.                                                          *)
(***************************************************************************)
LEMMA ReleaseIInv ==
  ASSUME EscrowAssumption, IInv, NEW id \in DOMAIN deals, NEW paid \in Nat, NEW refund \in Nat,
         paid + refund <= deals[id].held, Release(id, paid, refund)
  PROVE  IInv'
<1> USE EscrowAssumption
<1> DEFINE deal == deals[id]
           out == paid + refund
           paidOut == Transfer(funds, deal.token, Contract, deal.payee, paid)
<1>1. /\ IsFiniteSet(DOMAIN deals) /\ deals \in [DOMAIN deals -> Deal]
      /\ funds \in Ledgers(Tokens, Accounts)
      /\ unbacked \in [Tokens -> Nat]
  BY DEF IInv, TypeOK
<1>2. /\ deal.token \in Tokens /\ deal.payer \in Accounts \ {Contract}
      /\ deal.payee \in Accounts /\ deal.held \in Nat
  BY <1>1 DEF Deal
<1>3. /\ CanTransfer(funds, deal.token, Contract, paid)
      /\ CanTransfer(paidOut, deal.token, Contract, refund)
      /\ funds' = Transfer(paidOut, deal.token, Contract, deal.payer, refund)
      /\ deals' = Draw(deals, id, out)
      /\ unbacked' = unbacked
  BY DEF Release
<1> HIDE DEF deal
<1>4. out \in Nat /\ out <= deals[id].held
  OBVIOUS
<1> HIDE DEF out
<1>5. paidOut \in Ledgers(Tokens, Accounts)
  BY <1>1, <1>2, <1>3, TransferType
<1> HIDE DEF paidOut
<1>6. funds' \in Ledgers(Tokens, Accounts)
  BY <1>2, <1>3, <1>5, TransferType
<1>7. deals' \in [DOMAIN deals -> Deal]
  BY <1>1, <1>3, <1>4, ReleaseType
<1>8. TypeOK'
  BY <1>1, <1>3, <1>6, <1>7 DEF TypeOK
<1>9. Backed'
  <2> SUFFICES ASSUME NEW t \in Tokens
               PROVE  Total(HeldOf(deals', t))
                        <= funds'[<<t, Contract>>] + unbacked'[t]
    BY DEF Backed
  <2>1. Total(HeldOf(deals, t)) <= funds[<<t, Contract>>] + unbacked[t]
    BY DEF IInv, Backed
  <2>2. /\ funds[<<t, Contract>>] \in Nat /\ unbacked[t] \in Nat
        /\ paidOut[<<t, Contract>>] \in Nat /\ funds'[<<t, Contract>>] \in Nat
    BY <1>1, <1>5, <1>6 DEF Ledgers
  <2>3. /\ deals[id].token = t =>
             Total(HeldOf(deals', t)) = Total(HeldOf(deals, t)) - out
        /\ deals[id].token # t => Total(HeldOf(deals', t)) = Total(HeldOf(deals, t))
        /\ Total(HeldOf(deals, t)) \in Nat
    BY <1>1, <1>3, <1>4, ReleaseHeld
  <2>4. CASE t = deal.token
    <3>1. paidOut[<<t, Contract>>] >= funds[<<t, Contract>>] - paid
      BY <1>1, <1>2, <1>3, <2>4 DEF Transfer, CanTransfer, paidOut, Ledgers
    <3>2. funds'[<<t, Contract>>] >= paidOut[<<t, Contract>>] - refund
      BY <1>2, <1>3, <1>5, <2>4 DEF Transfer, CanTransfer, Ledgers
    <3>3. Total(HeldOf(deals', t)) = Total(HeldOf(deals, t)) - out
      BY <2>3, <2>4 DEF deal
    <3> QED BY <1>3, <2>1, <2>2, <2>3, <3>1, <3>2, <3>3 DEF out
  <2>5. CASE t # deal.token
    <3>1. paidOut[<<t, Contract>>] = funds[<<t, Contract>>]
      BY <1>1, <1>2, <1>3, <2>5 DEF Transfer, CanTransfer, paidOut, Ledgers
    <3>2. funds'[<<t, Contract>>] = paidOut[<<t, Contract>>]
      BY <1>2, <1>3, <1>5, <2>5 DEF Transfer, CanTransfer, Ledgers
    <3>3. Total(HeldOf(deals', t)) = Total(HeldOf(deals, t))
      BY <2>3, <2>5 DEF deal
    <3> QED BY <1>3, <2>1, <2>2, <3>1, <3>2, <3>3
  <2> QED BY <2>4, <2>5
<1> QED BY <1>8, <1>9 DEF IInv

(***************************************************************************)
(* A gift never lowers the contract's balance.                             *)
(***************************************************************************)
LEMMA GiveIInv ==
  ASSUME EscrowAssumption, IInv, NEW token \in Tokens, NEW from \in Accounts \ {Contract},
         NEW to \in Accounts, NEW amount \in Nat, Give(token, from, to, amount)
  PROVE  IInv'
<1>1. /\ CanTransfer(funds, token, from, amount)
      /\ funds' = Transfer(funds, token, from, to, amount)
      /\ deals' = deals /\ unbacked' = unbacked
  BY DEF Give
<1>2. /\ funds \in Ledgers(Tokens, Accounts)
      /\ unbacked \in [Tokens -> Nat]
      /\ IsFiniteSet(DOMAIN deals) /\ deals \in [DOMAIN deals -> Deal]
  BY DEF IInv, TypeOK
<1>3. funds' \in Ledgers(Tokens, Accounts)
  BY <1>1, <1>2, TransferType
<1>4. TypeOK'
  BY <1>1, <1>2, <1>3 DEF TypeOK
<1>5. Backed'
  <2> SUFFICES ASSUME NEW t \in Tokens
               PROVE  Total(HeldOf(deals, t))
                        <= funds'[<<t, Contract>>] + unbacked[t]
    BY <1>1 DEF Backed
  <2>1. Total(HeldOf(deals, t)) <= funds[<<t, Contract>>] + unbacked[t]
    BY DEF IInv, Backed
  <2>2. Total(HeldOf(deals, t)) \in Nat
    <3>1. HeldOf(deals, t) \in [DOMAIN deals -> Nat]
      BY <1>2 DEF HeldOf, Deal
    <3> QED BY <1>2, <3>1, TotalType
  <2>3. funds'[<<t, Contract>>] >= funds[<<t, Contract>>]
    BY <1>1, <1>2, EscrowAssumption DEF Transfer, CanTransfer, Ledgers
  <2>4. /\ funds[<<t, Contract>>] \in Nat /\ funds'[<<t, Contract>>] \in Nat
        /\ unbacked[t] \in Nat
    BY <1>2, <1>3, EscrowAssumption DEF Ledgers
  <2> QED BY <2>1, <2>2, <2>3, <2>4
<1> QED BY <1>4, <1>5 DEF IInv

LEMMA NextIInv ==
  ASSUME EscrowAssumption, IInv, [Next]_vars
  PROVE  IInv'
<1>1. CASE OpenStep
  <2>1. PICK id \in DealIds,
             deal \in [payer : Accounts \ {Contract}, payee : Accounts,
                       token : Tokens, held : Sums] : Open(id, deal)
    BY <1>1 DEF OpenStep
  <2>2. deal \in Deal
    BY EscrowAssumption DEF Deal
  <2> QED BY <2>1, <2>2, OpenIInv
<1>2. CASE ReleaseStep
  <2>1. PICK id \in DOMAIN deals : \E paid \in 0 .. deals[id].held :
               \E refund \in 0 .. (deals[id].held - paid) :
                 Release(id, paid, refund)
    BY <1>2 DEF ReleaseStep
  <2>2. deals[id].held \in Nat
    BY DEF IInv, TypeOK, Deal
  <2>3. PICK paid \in 0 .. deals[id].held :
          \E refund \in 0 .. (deals[id].held - paid) : Release(id, paid, refund)
    BY <2>1
  <2>4. PICK refund \in 0 .. (deals[id].held - paid) : Release(id, paid, refund)
    BY <2>3
  <2>5. paid \in Nat /\ refund \in Nat /\ paid + refund <= deals[id].held
    BY <2>2
  <2> QED BY <2>4, <2>5, ReleaseIInv
<1>3. CASE GiveStep
  <2>1. PICK token \in Tokens, from \in Accounts \ {Contract},
             to \in Accounts, amount \in Gifts : Give(token, from, to, amount)
    BY <1>3 DEF GiveStep
  <2>2. amount \in Nat
    BY EscrowAssumption
  <2> QED BY <2>1, <2>2, GiveIInv
<1>4. CASE OpenUnbackedStep
  <2>1. PICK ids \in SUBSET DealIds :
          /\ IsFiniteSet(ids)
          /\ \E opened \in [ids -> [payer : Accounts \ {Contract},
                                    payee : Accounts, token : Tokens,
                                    held : Sums]] : OpenUnbacked(opened)
    BY <1>4 DEF OpenUnbackedStep
  <2>2. PICK opened \in [ids -> Deal] : OpenUnbacked(opened)
    BY <2>1, EscrowAssumption DEF Deal
  <2> QED BY <2>1, <2>2, OpenUnbackedIInv
<1>5. CASE UNCHANGED vars
  BY <1>5 DEF vars, IInv, TypeOK, Backed
<1> QED BY <1>1, <1>2, <1>3, <1>4, <1>5 DEF Next, FundedNext

(***************************************************************************)
(* The contract's balance always covers what its deals hold, except what   *)
(* was recorded without a transfer.                                        *)
(***************************************************************************)
THEOREM Solvency ==
  ASSUME EscrowAssumption
  PROVE  Spec => [](TypeOK /\ Backed)
<1>1. Init => IInv
  BY InitIInv
<1>2. IInv /\ [Next]_vars => IInv'
  BY NextIInv
<1> QED BY <1>1, <1>2, PTL DEF Spec, IInv

(***************************************************************************)
(* Where every deal is paid in when it is opened, nothing is excepted: the *)
(* contract can always pay all its deals out.                              *)
(***************************************************************************)
THEOREM FundedSolvency ==
  ASSUME EscrowAssumption
  PROVE  FundedSpec => []Solvent
<1> DEFINE AllPaidIn == IInv /\ unbacked = [token \in Tokens |-> 0]
<1>1. Init => AllPaidIn
  BY InitIInv DEF Init
<1>2. AllPaidIn /\ [FundedNext]_vars => AllPaidIn'
  <2> SUFFICES ASSUME AllPaidIn, [FundedNext]_vars PROVE AllPaidIn'
    OBVIOUS
  <2>1. IInv'
    BY NextIInv DEF Next
  <2>2. unbacked' = unbacked
    BY DEF FundedNext, OpenStep, ReleaseStep, GiveStep, Open, Release, Give, vars
  <2> QED BY <2>1, <2>2
<1>3. AllPaidIn => Solvent
  <2> SUFFICES ASSUME AllPaidIn, NEW token \in Tokens
               PROVE  Total(HeldOf(deals, token)) <= funds[<<token, Contract>>]
    BY DEF Solvent
  <2>1. Total(HeldOf(deals, token)) <= funds[<<token, Contract>>] + unbacked[token]
    BY DEF IInv, Backed
  <2>2. funds[<<token, Contract>>] \in Nat /\ unbacked[token] = 0
    BY EscrowAssumption DEF IInv, TypeOK, Ledgers
  <2> QED BY <2>1, <2>2
<1> QED BY <1>1, <1>2, <1>3, PTL DEF FundedSpec
=============================================================================
