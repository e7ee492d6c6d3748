------------------------------ MODULE Vesting ------------------------------
(***************************************************************************)
(* The vesting contract: a grantor locks tokens for a beneficiary; nothing *)
(* vests before the cliff, cliff_amount vests at the cliff and the rest    *)
(* linearly until the end.  A grantor may revoke a revocable schedule,     *)
(* which returns what has not vested.                                      *)
(*                                                                         *)
(* As in PayrollStream every call is one action, a call that fails is no   *)
(* step, and the checks of a call are the guards of its action.            *)
(***************************************************************************)
EXTENDS TokenLedger, FiniteSets, Vectors

CONSTANTS Users,          \* the addresses that sign calls
          Contract,       \* the contract's own address
          None,           \* the admin before initialize
          Tokens,         \* the token contracts in use
          Params,         \* the parameters callers pass to create_schedule
          Gifts,          \* the amounts users transfer on their own
          InitialFunds,   \* the balances when the contract is deployed
          MaxSchedules,   \* bound on schedule_count
          MaxTime,        \* bound on the ledger's timestamp
          MaxI128         \* the largest i128, 2^127 - 1 in the program

Accounts == Users \cup {Contract}

ScheduleParams ==
  [beneficiary : Accounts, token : Tokens, total_amount : Int,
   start_time : Nat, cliff_duration : Nat, cliff_amount : Int,
   total_duration : Nat, revocable : BOOLEAN]

ASSUME VestingAssumption ==
  /\ IsFiniteSet(Users)
  /\ Contract \notin Users
  /\ None \notin Users
  /\ Params \subseteq ScheduleParams
  /\ Gifts \subseteq Nat
  /\ InitialFunds \in Ledgers(Tokens, Accounts)
  /\ MaxSchedules \in Nat /\ MaxTime \in Nat /\ MaxI128 \in Nat

VARIABLES
  admin,                  \* DataKey::Admin
  schedules,              \* DataKey::Schedule(id), a function on the ids in use
  schedule_count,         \* DataKey::ScheduleCount
  grantor_schedules,      \* DataKey::GrantorSchedules(grantor)
  beneficiary_schedules,  \* DataKey::BeneficiarySchedules(beneficiary)
  now,                    \* env.ledger().timestamp()
  funds                   \* the token balances, see TokenLedger

records == <<schedules, schedule_count, grantor_schedules, beneficiary_schedules>>
vars == <<admin, records, now, funds>>

Statuses == {"Active", "Revoked", "FullyClaimed"}

(***************************************************************************)
(* The label is stored and never read, and is left out.                    *)
(***************************************************************************)
VestingSchedule ==
  [grantor : Users, beneficiary : Accounts, token : Tokens,
   total_amount : Nat, claimed_amount : Nat, start_time : Nat,
   cliff_duration : Nat, cliff_amount : Nat, total_duration : Nat,
   status : Statuses, revocable : BOOLEAN]

-----------------------------------------------------------------------------
(***************************************************************************)
(* calculate_vested, at time t.  Division truncates towards zero: after a  *)
(* revocation the capped total may be less than cliff_amount, and the      *)
(* dividend negative.                                                      *)
(***************************************************************************)
Quotient(a, d) == IF a >= 0 THEN a \div d ELSE -((-a) \div d)

BeforeCliff(s, t) == t < s.start_time + s.cliff_duration

AfterEnd(s, t) == t >= s.start_time + s.total_duration

(* remaining_amount * time_since_cliff *)
Product(s, t) ==
  (s.total_amount - s.cliff_amount) * (t - s.start_time - s.cliff_duration)

(* Mutant: the rest vests over the whole duration, cliff included. *)
VestedOverWholeDuration(s, t) ==
  IF BeforeCliff(s, t) THEN 0
  ELSE s.cliff_amount
         + Quotient((s.total_amount - s.cliff_amount)
                      * ((IF AfterEnd(s, t) THEN s.total_duration
                          ELSE t - s.start_time) - s.cliff_duration),
                    s.total_duration)

Vested(s, t) ==
  IF BeforeCliff(s, t) THEN 0
  ELSE IF AfterEnd(s, t) THEN s.total_amount
  ELSE s.cliff_amount
         + Quotient(Product(s, t), s.total_duration - s.cliff_duration)

(***************************************************************************)
(* The product is an i128 and traps when it does not fit; it is not        *)
(* computed before the cliff and after the end.                            *)
(***************************************************************************)
Computable(s, t) ==
  \/ BeforeCliff(s, t) \/ AfterEnd(s, t)
  \/ Product(s, t) \in (-MaxI128 - 1) .. MaxI128

(* Mutant: what was claimed before is not subtracted. *)
ClaimableAgain(s, t) == Vested(s, t)

Claimable(s, t) == Vested(s, t) - s.claimed_amount

(***************************************************************************)
(* What revoke returns to the grantor.                                     *)
(***************************************************************************)
(* Mutant: all that was not claimed is returned. *)
UnvestedOrUnclaimed(s, t) == s.total_amount - s.claimed_amount

Unvested(s, t) == s.total_amount - Vested(s, t)

-----------------------------------------------------------------------------
Init ==
  /\ admin = None
  /\ schedules = [id \in {} |-> id]
  /\ schedule_count = 0
  /\ grantor_schedules = [u \in Users |-> <<>>]
  /\ beneficiary_schedules = [a \in Accounts |-> <<>>]
  /\ now = 0
  /\ funds = InitialFunds

Initialize(caller) ==
  /\ admin = None
  /\ admin' = caller
  /\ schedule_count' = 0
  /\ UNCHANGED <<schedules, grantor_schedules, beneficiary_schedules, now, funds>>

(* Mutant: a negative cliff_amount is accepted. *)
ValidNegativeCliff(params) ==
  /\ params.total_amount > 0
  /\ params.cliff_duration < params.total_duration
  /\ params.cliff_amount <= params.total_amount

Valid(params) ==
  /\ params.total_amount > 0
  /\ params.total_duration > 0
  /\ params.cliff_duration < params.total_duration
  /\ params.cliff_amount \in 0 .. params.total_amount

NewSchedule(from, params) ==
  [grantor |-> from, beneficiary |-> params.beneficiary,
   token |-> params.token, total_amount |-> params.total_amount,
   claimed_amount |-> 0, start_time |-> params.start_time,
   cliff_duration |-> params.cliff_duration,
   cliff_amount |-> params.cliff_amount,
   total_duration |-> params.total_duration,
   status |-> "Active", revocable |-> params.revocable]

(* Mutant: push_front for push_back. *)
EnteredFirst(index, key, id) == [index EXCEPT ![key] = <<id>> \o @]

Entered(index, key, id) == [index EXCEPT ![key] = Append(@, id)]

CreateSchedule(grantor, params) ==
  /\ admin # None
  /\ Valid(params)
  /\ schedule_count < MaxSchedules
  /\ CanTransfer(funds, params.token, grantor, params.total_amount)
  /\ funds' = Transfer(funds, params.token, grantor, Contract,
                       params.total_amount)
  /\ schedules' = [id \in (DOMAIN schedules) \cup {schedule_count} |->
                     IF id \in DOMAIN schedules THEN schedules[id]
                     ELSE NewSchedule(grantor, params)]
  /\ schedule_count' = schedule_count + 1
  /\ grantor_schedules' = Entered(grantor_schedules, grantor, schedule_count)
  /\ beneficiary_schedules' =
       Entered(beneficiary_schedules, params.beneficiary, schedule_count)
  /\ UNCHANGED <<admin, now>>

(***************************************************************************)
(* The checks of claim on the schedule itself.                             *)
(***************************************************************************)
MayClaim(s, t) ==
  /\ s.status = "Active"
  /\ Computable(s, t)
  /\ Claimable(s, t) > 0

Claim(beneficiary, id) ==
  LET s == schedules[id]
      claimed == s.claimed_amount + Claimable(s, now)
  IN /\ admin # None
     /\ id \in DOMAIN schedules
     /\ s.beneficiary = beneficiary
     /\ MayClaim(s, now)
     /\ CanTransfer(funds, s.token, Contract, Claimable(s, now))
     /\ funds' = Transfer(funds, s.token, Contract, beneficiary,
                          Claimable(s, now))
     /\ schedules' =
          [schedules EXCEPT
             ![id].claimed_amount = claimed,
             ![id].status = IF claimed >= s.total_amount
                            THEN "FullyClaimed" ELSE s.status]
     /\ UNCHANGED <<admin, schedule_count, grantor_schedules,
                    beneficiary_schedules, now>>

(* Mutant: the amount is capped at what was claimed. *)
CappedAtClaimed(s, t) ==
  [s EXCEPT !.status = "Revoked", !.total_amount = s.claimed_amount]

Capped(s, t) ==
  [s EXCEPT !.status = "Revoked", !.total_amount = Vested(s, t)]

(***************************************************************************)
(* Also a FullyClaimed schedule can be revoked.  No transfer is made when  *)
(* nothing is left to return.                                              *)
(***************************************************************************)
Revoke(grantor, id) ==
  LET s == schedules[id]
      unvested == Unvested(s, now)
  IN /\ admin # None
     /\ id \in DOMAIN schedules
     /\ s.grantor = grantor
     /\ s.status # "Revoked"
     /\ s.revocable
     /\ Computable(s, now)
     /\ \/ /\ unvested > 0
           /\ CanTransfer(funds, s.token, Contract, unvested)
           /\ funds' = Transfer(funds, s.token, Contract, grantor, unvested)
        \/ /\ unvested <= 0
           /\ UNCHANGED funds
     /\ schedules' = [schedules EXCEPT ![id] = Capped(s, now)]
     /\ UNCHANGED <<admin, schedule_count, grantor_schedules,
                    beneficiary_schedules, now>>

-----------------------------------------------------------------------------
(***************************************************************************)
(* The environment, as in PayrollStream.                                   *)
(***************************************************************************)
Tick ==
  /\ now < MaxTime
  /\ now' = now + 1
  /\ UNCHANGED <<admin, records, funds>>

Give(token, from, to, amount) ==
  /\ CanTransfer(funds, token, from, amount)
  /\ funds' = Transfer(funds, token, from, to, amount)
  /\ UNCHANGED <<admin, records, now>>

GiveStep ==
  \E token \in Tokens, from \in Users, to \in Accounts, amount \in Gifts :
    Give(token, from, to, amount)

Next ==
  \/ \E caller \in Users : Initialize(caller)
  \/ \E grantor \in Users, params \in Params : CreateSchedule(grantor, params)
  \/ \E beneficiary \in Users, id \in DOMAIN schedules : Claim(beneficiary, id)
  \/ \E grantor \in Users, id \in DOMAIN schedules : Revoke(grantor, id)
  \/ Tick
  \/ GiveStep

Spec == Init /\ [][Next]_vars

(***************************************************************************)
(* The clock advances, and a beneficiary who may claim eventually does.    *)
(***************************************************************************)
FairSpec ==
  /\ Spec
  /\ WF_vars(Tick)
  /\ \A beneficiary \in Users, id \in 0 .. (MaxSchedules - 1) :
       WF_vars(Claim(beneficiary, id))

-----------------------------------------------------------------------------
(***************************************************************************)
(* get_progress                                                            *)
(***************************************************************************)
(* Mutant: what was claimed before is shown as claimable. *)
ProgressUnclaimed(s, t) ==
  [total_amount |-> s.total_amount, vested_amount |-> Vested(s, t),
   claimed_amount |-> s.claimed_amount, claimable_amount |-> Vested(s, t)]

Progress(s, t) ==
  [total_amount |-> s.total_amount, vested_amount |-> Vested(s, t),
   claimed_amount |-> s.claimed_amount,
   claimable_amount |-> IF Claimable(s, t) > 0 THEN Claimable(s, t) ELSE 0]

(***************************************************************************)
(* The types of the variables; what the two indexes hold is IndexesExact.  *)
(***************************************************************************)
TypeOK ==
  /\ admin \in Users \cup {None}
  /\ schedule_count \in 0 .. MaxSchedules
  /\ schedules \in [0 .. (schedule_count - 1) -> VestingSchedule]
  /\ DOMAIN grantor_schedules = Users
  /\ DOMAIN beneficiary_schedules = Accounts
  /\ now \in 0 .. MaxTime
  /\ funds \in Ledgers(Tokens, Accounts)

(***************************************************************************)
(* Nobody has claimed more than has vested, and only a schedule that has   *)
(* vested completely is FullyClaimed.                                      *)
(***************************************************************************)
ClaimedWithinVested ==
  \A id \in DOMAIN schedules :
    LET s == schedules[id]
    IN /\ s.claimed_amount <= s.total_amount
       /\ s.status # "Revoked" => s.claimed_amount <= Vested(s, now)
       /\ s.status = "FullyClaimed" <=>
            s.claimed_amount = s.total_amount /\ s.status # "Revoked"

(***************************************************************************)
(* What a beneficiary has become entitled to, claimed or not, is never     *)
(* reduced again: not by time, not by rounding, not by a revocation.  The  *)
(* other terms never change, and an irrevocable schedule is never revoked. *)
(***************************************************************************)
Entitlement(s, t) ==
  IF s.status = "Revoked" THEN s.total_amount ELSE Vested(s, t)

Terms(s) ==
  <<s.grantor, s.beneficiary, s.token, s.start_time, s.cliff_duration,
    s.cliff_amount, s.total_duration, s.revocable>>

Kept(s, r) ==
  /\ Terms(r) = Terms(s)
  /\ Entitlement(r, now') >= Entitlement(s, now)
  /\ r.claimed_amount >= s.claimed_amount
  /\ ~s.revocable => r.status # "Revoked" /\ r.total_amount = s.total_amount
  /\ s.status = "Revoked" => r = s

AllKept ==
  \A id \in DOMAIN schedules :
    id \in DOMAIN schedules' /\ Kept(schedules[id], schedules'[id])

EntitlementKept == [][AllKept]_vars

(***************************************************************************)
(* The lookups by grantor and by beneficiary return every schedule of      *)
(* theirs once, oldest first, and no other.                                *)
(***************************************************************************)
IndexesExact ==
  /\ \A u \in Users :
       Enumerates(grantor_schedules[u],
                  {id \in DOMAIN schedules : schedules[id].grantor = u})
  /\ \A a \in Accounts :
       Enumerates(beneficiary_schedules[a],
                  {id \in DOMAIN schedules : schedules[id].beneficiary = a})

(***************************************************************************)
(* The contract seen as an escrow: a schedule holds what it has not paid.  *)
(* A revoked schedule goes on holding what had vested and was not claimed. *)
(***************************************************************************)
DealOf(s) == [payer |-> s.grantor, payee |-> s.beneficiary, token |-> s.token,
              held |-> s.total_amount - s.claimed_amount]

Deals == [id \in DOMAIN schedules |-> DealOf(schedules[id])]

NothingUnbacked == [token \in Tokens |-> 0]

E == INSTANCE Escrow
       WITH deals <- Deals, unbacked <- NothingUnbacked,
            DealIds <- 0 .. (MaxSchedules - 1),
            Sums <- {amount \in {p.total_amount : p \in Params} : amount > 0}

(***************************************************************************)
(* The contract moves money only as an escrow does in which every deal is  *)
(* paid in when it is opened.                                              *)
(***************************************************************************)
FundedEscrow == E!FundedSpec

(***************************************************************************)
(* What get_progress shows as claimable of a schedule that is not revoked  *)
(* is what claim pays at that second: it is not rejected, and the shared   *)
(* balance is there; what is not shown cannot be claimed.                  *)
(***************************************************************************)
ShownIsPayable ==
  \A id \in DOMAIN schedules :
    LET s == schedules[id]
        shown == Progress(s, now)
    IN  s.status # "Revoked" /\ Computable(s, now) =>
          /\ shown.claimed_amount + shown.claimable_amount = shown.vested_amount
          /\ shown.claimable_amount > 0 <=> MayClaim(s, now)
          /\ CanTransfer(funds, s.token, Contract, shown.claimable_amount)

(***************************************************************************)
(* What vested before a revocation and was not claimed can be claimed      *)
(* afterwards.                                                             *)
(***************************************************************************)
RevokedStaysClaimable ==
  \A id \in DOMAIN schedules :
    LET s == schedules[id]
    IN  s.status = "Revoked" /\ s.claimed_amount < s.total_amount =>
          \E t \in now .. MaxTime : MayClaim(s, t)

(***************************************************************************)
(* A schedule of a user who keeps claiming is paid in full or revoked in   *)
(* the end, also when its product overflows on the way.                    *)
(***************************************************************************)
EventuallySettled ==
  \A id \in 0 .. (MaxSchedules - 1) :
    (id \in DOMAIN schedules /\ schedules[id].beneficiary \in Users)
      ~> (id \in DOMAIN schedules /\ schedules[id].status # "Active")
=============================================================================
