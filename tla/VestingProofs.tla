---------------------------- MODULE VestingProofs ----------------------------
(***************************************************************************)
(* Proofs about Vesting for any users, tokens, amounts and times.          *)
(***************************************************************************)
EXTENDS Vesting, DataTheorems

(***************************************************************************)
(* A vesting schedule as create_schedule accepts it: nothing has vested    *)
(* before the cliff and all of it has at the end; between them what vests  *)
(* never decreases.                                                        *)
(***************************************************************************)
Granted(s) ==
  /\ s.total_amount \in Nat \ {0}
  /\ s.start_time \in Nat /\ s.cliff_duration \in Nat /\ s.total_duration \in Nat
  /\ s.cliff_duration < s.total_duration
  /\ s.cliff_amount \in 0 .. s.total_amount

LEMMA VestedBetween ==
  ASSUME NEW s, Granted(s), NEW t \in Nat, ~BeforeCliff(s, t), ~AfterEnd(s, t),
         NEW rest, rest = s.total_amount - s.cliff_amount,
         NEW span, span = s.total_duration - s.cliff_duration,
         NEW e, e = t - s.start_time - s.cliff_duration
  PROVE  /\ rest \in Nat /\ span \in Nat \ {0} /\ e \in Nat /\ e < span
         /\ (rest * e) \div span \in 0 .. rest
         /\ Vested(s, t) = s.cliff_amount + (rest * e) \div span
<1>1. /\ rest \in Nat /\ span \in Nat \ {0}
      /\ e \in Nat /\ e < span /\ e <= span
  BY DEF Granted, BeforeCliff, AfterEnd
<1>2. rest * e \in Nat /\ rest * e <= rest * span
  BY <1>1, ProductOrder
<1>3. (rest * e) \div span \in Nat /\ (rest * e) \div span <= rest
  BY <1>1, <1>2, QuotientOrder, QuotientBound
<1>4. Quotient(rest * e, span) = (rest * e) \div span
  BY <1>2 DEF Quotient
<1>5. Vested(s, t) = s.cliff_amount + Quotient(rest * e, span)
  BY DEF Vested, Product
<1> QED BY <1>1, <1>3, <1>4, <1>5

LEMMA VestedRange ==
  ASSUME NEW s, Granted(s), NEW t \in Nat
  PROVE  /\ Vested(s, t) \in 0 .. s.total_amount
         /\ AfterEnd(s, t) => Vested(s, t) = s.total_amount
<1>1. /\ s.total_amount \in Nat /\ s.cliff_amount \in Nat
      /\ s.cliff_amount <= s.total_amount
      /\ AfterEnd(s, t) => ~BeforeCliff(s, t)
  BY DEF Granted, AfterEnd, BeforeCliff
<1>2. CASE BeforeCliff(s, t) \/ AfterEnd(s, t)
  BY <1>1, <1>2 DEF Vested
<1>3. CASE ~BeforeCliff(s, t) /\ ~AfterEnd(s, t)
  <2> DEFINE rest == s.total_amount - s.cliff_amount
             span == s.total_duration - s.cliff_duration
             e == t - s.start_time - s.cliff_duration
             q == (rest * e) \div span
  <2>1. q \in 0 .. rest /\ Vested(s, t) = s.cliff_amount + q
    BY <1>3, VestedBetween
  <2>2. rest = s.total_amount - s.cliff_amount
    OBVIOUS
  <2> HIDE DEF q, rest
  <2> QED BY <1>1, <1>3, <2>1, <2>2
<1> QED BY <1>2, <1>3

LEMMA VestedOrder ==
  ASSUME NEW s, Granted(s), NEW t \in Nat, NEW u \in Nat, t <= u
  PROVE  Vested(s, t) <= Vested(s, u)
<1>1. Vested(s, t) \in 0 .. s.total_amount /\ Vested(s, u) \in 0 .. s.total_amount
  BY VestedRange
<1>2. s.total_amount \in Nat
  BY DEF Granted
<1>3. CASE BeforeCliff(s, t)
  BY <1>1, <1>2, <1>3 DEF Vested
<1>4. CASE AfterEnd(s, u)
  BY <1>1, <1>2, <1>4, VestedRange
<1>5. CASE ~BeforeCliff(s, t) /\ ~AfterEnd(s, u)
  <2> DEFINE rest == s.total_amount - s.cliff_amount
             span == s.total_duration - s.cliff_duration
             e == t - s.start_time - s.cliff_duration
             f == u - s.start_time - s.cliff_duration
  <2>1. ~AfterEnd(s, t) /\ ~BeforeCliff(s, u)
    BY <1>5 DEF AfterEnd, BeforeCliff, Granted
  <2>2. /\ rest \in Nat /\ span \in Nat \ {0} /\ e \in Nat
        /\ (rest * e) \div span \in 0 .. rest
        /\ Vested(s, t) = s.cliff_amount + (rest * e) \div span
    BY <1>5, <2>1, VestedBetween
  <2>3. /\ f \in Nat /\ (rest * f) \div span \in 0 .. rest
        /\ Vested(s, u) = s.cliff_amount + (rest * f) \div span
    BY <1>5, <2>1, VestedBetween
  <2>4. e <= f
    BY DEF Granted
  <2>5. s.cliff_amount \in Nat
    BY DEF Granted
  <2> HIDE DEF rest, span, e, f
  <2>6. rest * e \in Nat /\ rest * f \in Nat /\ rest * e <= rest * f
    BY <2>2, <2>3, <2>4, ProductOrder
  <2>7. (rest * e) \div span <= (rest * f) \div span
    BY <2>2, <2>6, QuotientOrder
  <2> DEFINE q == (rest * e) \div span
             r == (rest * f) \div span
  <2>8. q \in Int /\ r \in Int /\ q <= r
    BY <2>2, <2>3, <2>7
  <2>9. Vested(s, t) = s.cliff_amount + q /\ Vested(s, u) = s.cliff_amount + r
    BY <2>2, <2>3
  <2> HIDE DEF q, r
  <2> QED BY <2>5, <2>8, <2>9
<1> QED BY <1>3, <1>4, <1>5

(***************************************************************************)
(* What has vested depends on the terms alone.                             *)
(***************************************************************************)
LEMMA VestedTerms ==
  ASSUME NEW s, NEW r, NEW t, r.total_amount = s.total_amount, Terms(r) = Terms(s)
  PROVE  Vested(r, t) = Vested(s, t) /\ (Granted(s) => Granted(r))
  BY DEF Vested, BeforeCliff, AfterEnd, Product, Granted, Terms

-----------------------------------------------------------------------------
(***************************************************************************)
(* The inductive invariant.  A schedule that is Sound at time t has paid   *)
(* at most what has vested, and all of it exactly when it is FullyClaimed; *)
(* a revoked one was revocable and has paid at most the total that it was  *)
(* capped at.                                                              *)
(***************************************************************************)
Sound(s, t) ==
  /\ s.claimed_amount <= s.total_amount
  /\ s.status = "Revoked" => s.revocable
  /\ s.status # "Revoked" =>
       /\ Granted(s)
       /\ s.claimed_amount <= Vested(s, t)
       /\ s.status = "FullyClaimed" <=> s.claimed_amount = s.total_amount

AllSound == \A id \in DOMAIN schedules : Sound(schedules[id], now)

(***************************************************************************)
(* initialize writes 0 to the counter of the ids: it may because no        *)
(* schedule was created before.                                            *)
(***************************************************************************)
Unused == admin = None => schedule_count = 0

IInv == TypeOK /\ AllSound /\ Unused

LEMMA ScheduleFacts ==
  ASSUME IInv, NEW id \in DOMAIN schedules
  PROVE  LET s == schedules[id]
         IN  /\ s \in VestingSchedule /\ Sound(s, now) /\ now \in Nat
             /\ s.claimed_amount \in Nat /\ s.total_amount \in Nat
             /\ s.grantor \in Accounts /\ s.beneficiary \in Accounts
             /\ s.token \in Tokens /\ Contract \in Accounts
             /\ funds \in Ledgers(Tokens, Accounts)
             /\ funds[<<s.token, Contract>>] \in Nat
             /\ s.status # "Revoked" =>
                  Vested(s, now) \in Nat /\ Vested(s, now) <= s.total_amount
<1> DEFINE s == schedules[id]
<1>1. s \in VestingSchedule /\ Sound(s, now) /\ now \in Nat
  BY VestingAssumption DEF IInv, TypeOK, AllSound
<1>2. s.status # "Revoked" => Vested(s, now) \in 0 .. s.total_amount
  BY <1>1, VestedRange DEF Sound
<1>3. funds \in Ledgers(Tokens, Accounts)
  BY DEF IInv, TypeOK
<1> HIDE DEF s
<1>4. /\ s.claimed_amount \in Nat /\ s.total_amount \in Nat
      /\ s.grantor \in Accounts /\ s.beneficiary \in Accounts
      /\ s.token \in Tokens /\ Contract \in Accounts
  BY <1>1 DEF VestingSchedule, Accounts
<1>5. s.status # "Revoked" =>
        Vested(s, now) \in Nat /\ Vested(s, now) <= s.total_amount
  BY <1>2, <1>4
<1>6. funds[<<s.token, Contract>>] \in Nat
  BY <1>3, <1>4 DEF Ledgers
<1> QED BY <1>1, <1>2, <1>3, <1>4, <1>5, <1>6 DEF s

(***************************************************************************)
(* A schedule after claim, and what claim and revoke do to a sound one.    *)
(***************************************************************************)
Paid(s, t) ==
  [s EXCEPT !.claimed_amount = s.claimed_amount + Claimable(s, t),
            !.status = IF s.claimed_amount + Claimable(s, t) >= s.total_amount
                       THEN "FullyClaimed" ELSE s.status]

LEMMA PaidSound ==
  ASSUME NEW s \in VestingSchedule, NEW t \in Nat, Sound(s, t),
         s.status = "Active"
  PROVE  LET r == Paid(s, t)
         IN  /\ r \in VestingSchedule /\ Sound(r, t) /\ Terms(r) = Terms(s)
             /\ r.total_amount = s.total_amount /\ r.status # "Revoked"
             /\ r.claimed_amount = Vested(s, t)
             /\ s.claimed_amount + Claimable(s, t) = Vested(s, t)
<1> DEFINE v == Vested(s, t)
           status == IF v >= s.total_amount THEN "FullyClaimed" ELSE "Active"
           r == [s EXCEPT !.claimed_amount = v, !.status = status]
<1>1. /\ Granted(s) /\ s.claimed_amount \in Nat /\ s.total_amount \in Nat
      /\ s.claimed_amount <= v
  BY DEF Sound, VestingSchedule
<1>2. v \in Nat /\ v <= s.total_amount
  BY <1>1, VestedRange
<1>3. s.claimed_amount + Claimable(s, t) = v
  <2>1. Claimable(s, t) = v - s.claimed_amount
    BY DEF Claimable
  <2> HIDE DEF v
  <2> QED BY <1>1, <1>2, <2>1
<1>4. Paid(s, t) = r
  BY <1>3 DEF Paid
<1> HIDE DEF v
<1>5. status \in Statuses /\ status # "Revoked"
  BY DEF Statuses
<1> HIDE DEF status
<1>6. /\ r \in VestingSchedule /\ r.claimed_amount = v /\ r.status = status
      /\ r.total_amount = s.total_amount /\ Terms(r) = Terms(s)
  BY <1>2, <1>5 DEF VestingSchedule, Terms
<1> HIDE DEF r
<1>7. Granted(r) /\ Vested(r, t) = v
  BY <1>1, <1>6, VestedTerms DEF v
<1>8. Sound(r, t)
  BY <1>1, <1>2, <1>6, <1>7 DEF Sound, status
<1> QED BY <1>3, <1>4, <1>5, <1>6, <1>8 DEF v

LEMMA CappedSound ==
  ASSUME NEW s \in VestingSchedule, NEW t \in Nat, Sound(s, t),
         s.status # "Revoked", s.revocable
  PROVE  LET r == Capped(s, t)
         IN  /\ r \in VestingSchedule /\ Sound(r, t) /\ Terms(r) = Terms(s)
             /\ r.status = "Revoked" /\ r.total_amount = Vested(s, t)
             /\ r.claimed_amount = s.claimed_amount
             /\ Vested(s, t) \in s.claimed_amount .. s.total_amount
<1> DEFINE v == Vested(s, t)
           r == [s EXCEPT !.status = "Revoked", !.total_amount = v]
<1>1. /\ Granted(s) /\ s.claimed_amount \in Nat /\ s.total_amount \in Nat
      /\ s.claimed_amount <= v
  BY DEF Sound, VestingSchedule
<1>2. v \in Nat /\ v <= s.total_amount
  BY <1>1, VestedRange
<1>3. Capped(s, t) = r
  BY DEF Capped
<1> HIDE DEF v
<1>4. /\ r \in VestingSchedule /\ r.claimed_amount = s.claimed_amount
      /\ r.status = "Revoked" /\ r.total_amount = v /\ Terms(r) = Terms(s)
      /\ r.revocable = s.revocable
  BY <1>2 DEF VestingSchedule, Statuses, Terms
<1> HIDE DEF r
<1>5. Sound(r, t)
  BY <1>1, <1>4 DEF Sound
<1>6. v \in s.claimed_amount .. s.total_amount
  BY <1>1, <1>2
<1> QED BY <1>3, <1>4, <1>5, <1>6 DEF v

-----------------------------------------------------------------------------
(***************************************************************************)
(* What claim and revoke find and do.                                      *)
(***************************************************************************)
ClaimFacts(beneficiary, id) ==
  LET s == schedules[id]
  IN  /\ s.status = "Active" /\ s.beneficiary = beneficiary
      /\ Claimable(s, now) \in Nat
      /\ s.claimed_amount + Claimable(s, now) = Vested(s, now)
      /\ CanTransfer(funds, s.token, Contract, Claimable(s, now))
      /\ funds' = Transfer(funds, s.token, Contract, s.beneficiary,
                           Claimable(s, now))
      /\ schedules' = [schedules EXCEPT ![id] = Paid(s, now)]
      /\ s.claimed_amount <= Vested(s, now)

LEMMA ClaimType ==
  ASSUME IInv, NEW beneficiary \in Users, NEW id \in DOMAIN schedules,
         Claim(beneficiary, id)
  PROVE  ClaimFacts(beneficiary, id)
<1> DEFINE s == schedules[id]
<1>1. /\ s \in VestingSchedule /\ Sound(s, now) /\ now \in Nat
      /\ s.claimed_amount \in Nat
      /\ s.status # "Revoked" =>
           Vested(s, now) \in Nat /\ Vested(s, now) <= s.total_amount
  BY ScheduleFacts
<1>2. /\ s.status = "Active" /\ s.beneficiary = beneficiary
      /\ CanTransfer(funds, s.token, Contract, Claimable(s, now))
      /\ funds' = Transfer(funds, s.token, Contract, s.beneficiary,
                           Claimable(s, now))
  BY DEF Claim, MayClaim
<1>3. schedules' =
        [schedules EXCEPT
           ![id].claimed_amount = s.claimed_amount + Claimable(s, now),
           ![id].status = IF s.claimed_amount + Claimable(s, now) >= s.total_amount
                          THEN "FullyClaimed" ELSE s.status]
  BY DEF Claim
<1>4. schedules' = [schedules EXCEPT ![id] = Paid(s, now)]
  BY <1>3 DEF Paid
<1>5. s.claimed_amount + Claimable(s, now) = Vested(s, now)
  BY <1>1, <1>2, PaidSound
<1>6. s.claimed_amount <= Vested(s, now) /\ Vested(s, now) \in Nat
  BY <1>1, <1>2 DEF Sound
<1> HIDE DEF s
<1>7. Claimable(s, now) \in Nat
  BY <1>1, <1>6 DEF Claimable
<1> QED BY <1>2, <1>4, <1>5, <1>6, <1>7 DEF ClaimFacts, s

RevokeFacts(grantor, id) ==
  LET s == schedules[id]
  IN  /\ s.status # "Revoked" /\ s.grantor = grantor /\ s.revocable
      /\ Unvested(s, now) \in Nat
      /\ Vested(s, now) + Unvested(s, now) = s.total_amount
      /\ \/ /\ CanTransfer(funds, s.token, Contract, Unvested(s, now))
            /\ funds' = Transfer(funds, s.token, Contract, s.grantor,
                                 Unvested(s, now))
         \/ Unvested(s, now) = 0 /\ funds' = funds
      /\ schedules' = [schedules EXCEPT ![id] = Capped(s, now)]

LEMMA RevokeType ==
  ASSUME IInv, NEW grantor \in Users, NEW id \in DOMAIN schedules,
         Revoke(grantor, id)
  PROVE  RevokeFacts(grantor, id)
<1> DEFINE s == schedules[id]
           v == Vested(s, now)
<1>1. /\ s.total_amount \in Nat /\ s.status # "Revoked"
      /\ s.grantor = grantor /\ s.revocable
      /\ v \in Nat /\ v <= s.total_amount
      /\ schedules' = [schedules EXCEPT ![id] = Capped(s, now)]
  BY ScheduleFacts DEF Revoke
<1>2. Unvested(s, now) = s.total_amount - v
  BY DEF Unvested
<1>3. Unvested(s, now) \in Nat /\ v + Unvested(s, now) = s.total_amount
  <2> HIDE DEF s, v
  <2> QED BY <1>1, <1>2
<1>4. \/ /\ CanTransfer(funds, s.token, Contract, Unvested(s, now))
         /\ funds' = Transfer(funds, s.token, Contract, s.grantor,
                              Unvested(s, now))
      \/ Unvested(s, now) <= 0 /\ funds' = funds
  BY DEF Revoke
<1>5. Unvested(s, now) <= 0 => Unvested(s, now) = 0
  BY <1>3
<1> QED BY <1>1, <1>3, <1>4, <1>5 DEF RevokeFacts

(***************************************************************************)
(* A schedule that stays the same while the clock stands is kept.          *)
(***************************************************************************)
LEMMA SameKept ==
  ASSUME IInv, now' = now, NEW id \in DOMAIN schedules
  PROVE  Kept(schedules[id], schedules[id])
<1> DEFINE s == schedules[id]
<1>1. /\ Sound(s, now) /\ s.claimed_amount \in Nat /\ s.total_amount \in Nat
      /\ s.status # "Revoked" =>
           Vested(s, now) \in Nat /\ Vested(s, now) <= s.total_amount
  BY ScheduleFacts
<1> HIDE DEF s
<1>2. Entitlement(s, now) \in Nat
  BY <1>1 DEF Entitlement
<1> QED BY <1>1, <1>2 DEF Kept, Sound, s

-----------------------------------------------------------------------------
(***************************************************************************)
(* Each step keeps the inductive invariant, and what it grants.            *)
(***************************************************************************)
LEMMA InitIInv == Init => IInv
  BY VestingAssumption DEF Init, IInv, TypeOK, AllSound, Unused

(***************************************************************************)
(* A transfer within the balance keeps the ledger a ledger.                *)
(***************************************************************************)
LEMMA TransferType ==
  ASSUME NEW ledger \in Ledgers(Tokens, Accounts), NEW token \in Tokens,
         NEW from \in Accounts, NEW to \in Accounts, NEW amount \in Nat,
         CanTransfer(ledger, token, from, amount)
  PROVE  Transfer(ledger, token, from, to, amount) \in Ledgers(Tokens, Accounts)
  BY DEF Transfer, CanTransfer, Ledgers

LEMMA NewScheduleSound ==
  ASSUME NEW grantor \in Users, NEW params \in Params, Valid(params),
         NEW t \in Nat
  PROVE  LET s == NewSchedule(grantor, params)
         IN  /\ s \in VestingSchedule /\ Sound(s, t)
             /\ s.grantor = grantor /\ s.beneficiary = params.beneficiary
             /\ s.token = params.token /\ s.total_amount = params.total_amount
             /\ s.claimed_amount = 0
             /\ params.beneficiary \in Accounts /\ params.token \in Tokens
             /\ params.total_amount \in Nat \ {0}
<1> DEFINE s == NewSchedule(grantor, params)
<1>1. /\ params.beneficiary \in Accounts /\ params.token \in Tokens
      /\ params.total_amount \in Nat \ {0} /\ params.start_time \in Nat
      /\ params.cliff_duration \in Nat /\ params.total_duration \in Nat
      /\ params.cliff_duration < params.total_duration
      /\ params.cliff_amount \in 0 .. params.total_amount
      /\ params.cliff_amount \in Nat /\ params.revocable \in BOOLEAN
  BY VestingAssumption DEF ScheduleParams, Valid
<1>2. /\ s.grantor = grantor /\ s.beneficiary = params.beneficiary
      /\ s.token = params.token /\ s.total_amount = params.total_amount
      /\ s.claimed_amount = 0 /\ s.start_time = params.start_time
      /\ s.cliff_duration = params.cliff_duration
      /\ s.cliff_amount = params.cliff_amount
      /\ s.total_duration = params.total_duration /\ s.status = "Active"
  BY DEF NewSchedule
<1>3. s \in VestingSchedule
  BY <1>1 DEF NewSchedule, VestingSchedule, Statuses
<1> HIDE DEF s
<1>4. Granted(s)
  BY <1>1, <1>2 DEF Granted
<1>5. Vested(s, t) \in Nat
  BY <1>1, <1>2, <1>4, VestedRange
<1>6. Sound(s, t)
  BY <1>1, <1>2, <1>4, <1>5 DEF Sound
<1> QED BY <1>1, <1>2, <1>3, <1>6 DEF s

LEMMA CreateScheduleIInv ==
  ASSUME IInv, NEW grantor \in Users, NEW params \in Params,
         CreateSchedule(grantor, params)
  PROVE  IInv' /\ AllKept
<1> DEFINE s == NewSchedule(grantor, params)
<1>1. /\ now \in Nat /\ schedule_count \in Nat /\ schedule_count < MaxSchedules
      /\ schedule_count' = schedule_count + 1
      /\ schedules \in [0 .. (schedule_count - 1) -> VestingSchedule]
      /\ DOMAIN schedules = 0 .. (schedule_count - 1)
      /\ schedules' = [id \in (DOMAIN schedules) \cup {schedule_count} |->
                         IF id \in DOMAIN schedules THEN schedules[id] ELSE s]
      /\ now' = now /\ admin' = admin /\ admin # None
  BY VestingAssumption DEF IInv, TypeOK, CreateSchedule
<1>2. /\ s \in VestingSchedule /\ Sound(s, now)
      /\ params.token \in Tokens /\ params.total_amount \in Nat
      /\ params.beneficiary \in Accounts
  BY <1>1, NewScheduleSound DEF CreateSchedule
<1>3. funds' \in Ledgers(Tokens, Accounts)
  <2>1. /\ CanTransfer(funds, params.token, grantor, params.total_amount)
        /\ funds' = Transfer(funds, params.token, grantor, Contract,
                             params.total_amount)
    BY DEF CreateSchedule
  <2>2. /\ funds \in Ledgers(Tokens, Accounts) /\ grantor \in Accounts
        /\ Contract \in Accounts
    BY DEF IInv, TypeOK, Accounts
  <2> QED BY <1>2, <2>1, <2>2, TransferType
<1>4. /\ DOMAIN grantor_schedules' = Users
      /\ DOMAIN beneficiary_schedules' = Accounts
  BY DEF IInv, TypeOK, CreateSchedule, Entered
<1> HIDE DEF s
<1>5. 0 .. (schedule_count' - 1) = (DOMAIN schedules) \cup {schedule_count}
  BY <1>1
<1>6. schedules' \in [0 .. (schedule_count' - 1) -> VestingSchedule]
  BY <1>1, <1>2, <1>5
<1>7. schedule_count' \in 0 .. MaxSchedules
  BY <1>1, VestingAssumption
<1>8. TypeOK'
  BY <1>1, <1>3, <1>4, <1>6, <1>7 DEF IInv, TypeOK
<1>9. AllSound'
  BY <1>1, <1>2 DEF IInv, AllSound
<1>10. AllKept
  <2> SUFFICES ASSUME NEW id \in DOMAIN schedules
               PROVE  id \in DOMAIN schedules' /\ Kept(schedules[id], schedules'[id])
    BY DEF AllKept
  <2>1. id \in DOMAIN schedules' /\ schedules'[id] = schedules[id]
    BY <1>1
  <2> QED BY <1>1, <2>1, SameKept
<1> QED BY <1>1, <1>8, <1>9, <1>10 DEF IInv, Unused

(***************************************************************************)
(* A sound schedule in the place of another keeps the invariant.           *)
(***************************************************************************)
LEMMA ReplacedIInv ==
  ASSUME IInv, NEW id \in DOMAIN schedules, NEW r \in VestingSchedule,
         Sound(r, now), Kept(schedules[id], r),
         schedules' = [schedules EXCEPT ![id] = r],
         funds' \in Ledgers(Tokens, Accounts),
         UNCHANGED <<admin, schedule_count, grantor_schedules,
                     beneficiary_schedules, now>>
  PROVE  IInv' /\ AllKept
<1>1. TypeOK'
  BY DEF IInv, TypeOK
<1>2. AllSound'
  BY DEF IInv, AllSound
<1>3. AllKept
  <2> SUFFICES ASSUME NEW i \in DOMAIN schedules
               PROVE  i \in DOMAIN schedules' /\ Kept(schedules[i], schedules'[i])
    BY DEF AllKept
  <2>1. CASE i = id
    BY <2>1
  <2>2. CASE i # id
    BY <2>2, SameKept
  <2> QED BY <2>1, <2>2
<1> QED BY <1>1, <1>2, <1>3 DEF IInv, Unused

LEMMA ClaimIInv ==
  ASSUME IInv, NEW beneficiary \in Users, NEW id \in DOMAIN schedules,
         Claim(beneficiary, id)
  PROVE  IInv' /\ AllKept
<1> DEFINE s == schedules[id]
           r == Paid(s, now)
<1>1. ClaimFacts(beneficiary, id)
  BY ClaimType
<1>2. /\ r \in VestingSchedule /\ Sound(r, now) /\ Terms(r) = Terms(s)
      /\ r.total_amount = s.total_amount /\ r.status # "Revoked"
      /\ r.claimed_amount = Vested(s, now)
  BY <1>1, ScheduleFacts, PaidSound DEF ClaimFacts
<1>3. funds' \in Ledgers(Tokens, Accounts)
  BY <1>1, ScheduleFacts, TransferType DEF ClaimFacts
<1>4. /\ s.status = "Active" /\ schedules' = [schedules EXCEPT ![id] = r]
      /\ Vested(s, now) \in Nat /\ s.claimed_amount <= Vested(s, now)
      /\ UNCHANGED <<admin, schedule_count, grantor_schedules,
                     beneficiary_schedules, now>>
  <2>1. Vested(s, now) \in Nat
    BY <1>1, ScheduleFacts DEF ClaimFacts
  <2> QED BY <1>1, <2>1 DEF ClaimFacts, Claim
<1> HIDE DEF r, s
<1>5. Kept(s, r)
  <2>1. Vested(r, now) = Vested(s, now)
    BY <1>2, VestedTerms
  <2> QED BY <1>2, <1>4, <2>1 DEF Kept, Entitlement
<1> QED BY <1>2, <1>3, <1>4, <1>5, ReplacedIInv DEF s

LEMMA RevokeIInv ==
  ASSUME IInv, NEW grantor \in Users, NEW id \in DOMAIN schedules,
         Revoke(grantor, id)
  PROVE  IInv' /\ AllKept
<1> DEFINE s == schedules[id]
           r == Capped(s, now)
<1>1. RevokeFacts(grantor, id)
  BY RevokeType
<1>2. /\ r \in VestingSchedule /\ Sound(r, now) /\ Terms(r) = Terms(s)
      /\ r.status = "Revoked" /\ r.total_amount = Vested(s, now)
      /\ r.claimed_amount = s.claimed_amount
  BY <1>1, ScheduleFacts, CappedSound DEF RevokeFacts
<1>3. funds' \in Ledgers(Tokens, Accounts)
  BY <1>1, ScheduleFacts, TransferType DEF RevokeFacts
<1>4. /\ s.status # "Revoked" /\ s.revocable
      /\ schedules' = [schedules EXCEPT ![id] = r]
      /\ Vested(s, now) \in Nat /\ s.claimed_amount \in Nat
      /\ UNCHANGED <<admin, schedule_count, grantor_schedules,
                     beneficiary_schedules, now>>
  <2>1. s.claimed_amount \in Nat /\ Vested(s, now) \in Nat
    BY <1>1, ScheduleFacts DEF RevokeFacts
  <2> QED BY <1>1, <2>1 DEF RevokeFacts, Revoke
<1> HIDE DEF r, s
<1>5. Kept(s, r)
  BY <1>2, <1>4 DEF Kept, Entitlement
<1> QED BY <1>2, <1>3, <1>4, <1>5, ReplacedIInv DEF s

LEMMA TickIInv ==
  ASSUME IInv, Tick
  PROVE  IInv' /\ AllKept
<1>1. /\ now \in Nat /\ now' \in Nat /\ now <= now' /\ now' \in 0 .. MaxTime
      /\ UNCHANGED <<admin, schedules, schedule_count, grantor_schedules,
                     beneficiary_schedules, funds>>
  BY VestingAssumption DEF IInv, TypeOK, Tick, records
<1>2. TypeOK'
  BY <1>1 DEF IInv, TypeOK
<1>3. ASSUME NEW id \in DOMAIN schedules
      PROVE  Sound(schedules[id], now') /\ Kept(schedules[id], schedules[id])
  <2> DEFINE s == schedules[id]
  <2>1. /\ Sound(s, now) /\ s.claimed_amount \in Nat /\ s.total_amount \in Nat
    BY ScheduleFacts
  <2> HIDE DEF s
  <2>2. ASSUME s.status # "Revoked"
        PROVE  /\ Vested(s, now) \in Nat /\ Vested(s, now') \in Nat
               /\ Vested(s, now) <= Vested(s, now')
    BY <1>1, <2>1, <2>2, VestedRange, VestedOrder DEF Sound
  <2> QED BY <2>1, <2>2 DEF Sound, Kept, Entitlement, s
<1>4. AllSound' /\ AllKept
  BY <1>1, <1>3 DEF AllSound, AllKept
<1> QED BY <1>1, <1>2, <1>4 DEF IInv, Unused

(***************************************************************************)
(* initialize, gifts and idle steps leave the schedules alone.             *)
(***************************************************************************)
LEMMA UnchangedIInv ==
  ASSUME IInv, TypeOK', UNCHANGED <<schedules, now>>, Unused'
  PROVE  IInv' /\ AllKept
<1>1. AllSound'
  BY DEF IInv, AllSound
<1>2. AllKept
  BY SameKept DEF AllKept
<1> QED BY <1>1, <1>2 DEF IInv

LEMMA NextIInv == IInv /\ [Next]_vars => IInv' /\ AllKept
<1> SUFFICES ASSUME IInv, [Next]_vars PROVE IInv' /\ AllKept
  OBVIOUS
<1>1. CASE \E caller \in Users : Initialize(caller)
  <2>1. PICK caller \in Users : Initialize(caller)
    BY <1>1
  <2>2. /\ schedule_count = 0 /\ schedule_count' = 0 /\ admin' = caller
        /\ UNCHANGED <<schedules, grantor_schedules, beneficiary_schedules,
                       now, funds>>
    BY <2>1 DEF IInv, Unused, Initialize
  <2>3. TypeOK' /\ Unused'
    BY <2>2 DEF IInv, TypeOK, Unused
  <2> QED BY <2>2, <2>3, UnchangedIInv
<1>2. CASE \E grantor \in Users, params \in Params :
             CreateSchedule(grantor, params)
  BY <1>2, CreateScheduleIInv
<1>3. CASE \E beneficiary \in Users, id \in DOMAIN schedules :
             Claim(beneficiary, id)
  BY <1>3, ClaimIInv
<1>4. CASE \E grantor \in Users, id \in DOMAIN schedules : Revoke(grantor, id)
  BY <1>4, RevokeIInv
<1>5. CASE Tick
  BY <1>5, TickIInv
<1>6. CASE GiveStep
  <2>1. PICK token \in Tokens, from \in Users, to \in Accounts,
             amount \in Gifts : Give(token, from, to, amount)
    BY <1>6 DEF GiveStep
  <2>2. /\ from \in Accounts /\ amount \in Nat
        /\ funds \in Ledgers(Tokens, Accounts)
    BY VestingAssumption DEF Accounts, IInv, TypeOK
  <2>3. funds' \in Ledgers(Tokens, Accounts)
    BY <2>1, <2>2, TransferType DEF Give
  <2>4. UNCHANGED <<admin, schedules, schedule_count, grantor_schedules,
                    beneficiary_schedules, now>>
    BY <2>1 DEF Give, records
  <2>5. TypeOK' /\ Unused'
    BY <2>3, <2>4 DEF IInv, TypeOK, Unused
  <2> QED BY <2>4, <2>5, UnchangedIInv
<1>7. CASE UNCHANGED vars
  <2>1. TypeOK' /\ Unused' /\ UNCHANGED <<schedules, now>>
    BY <1>7 DEF vars, records, IInv, TypeOK, Unused
  <2> QED BY <2>1, UnchangedIInv
<1> QED BY <1>1, <1>2, <1>3, <1>4, <1>5, <1>6, <1>7 DEF Next

LEMMA Invariance == Spec => []IInv
<1>1. IInv /\ [Next]_vars => IInv'
  BY NextIInv
<1> QED BY InitIInv, <1>1, PTL DEF Spec

(***************************************************************************)
(* The variables keep their types.                                         *)
(***************************************************************************)
THEOREM TypeCorrect == Spec => []TypeOK
<1>1. IInv => TypeOK
  BY DEF IInv
<1> QED BY <1>1, Invariance, PTL

(***************************************************************************)
(* Nobody has claimed more than has vested, and only a schedule that has   *)
(* vested completely is FullyClaimed.                                      *)
(***************************************************************************)
THEOREM WithinVested == Spec => []ClaimedWithinVested
<1>1. IInv => ClaimedWithinVested
  <2> SUFFICES ASSUME IInv, NEW id \in DOMAIN schedules
               PROVE  LET s == schedules[id]
                      IN /\ s.claimed_amount <= s.total_amount
                         /\ s.status # "Revoked" =>
                              s.claimed_amount <= Vested(s, now)
                         /\ s.status = "FullyClaimed" <=>
                              /\ s.claimed_amount = s.total_amount
                              /\ s.status # "Revoked"
    BY DEF ClaimedWithinVested
  <2>1. Sound(schedules[id], now)
    BY ScheduleFacts
  <2> QED BY <2>1 DEF Sound
<1> QED BY <1>1, Invariance, PTL

(***************************************************************************)
(* What a beneficiary has become entitled to is never reduced again: not   *)
(* by time, not by rounding, not by a revocation; an irrevocable schedule  *)
(* is never revoked and the other terms never change.                      *)
(***************************************************************************)
THEOREM Entitled == Spec => EntitlementKept
<1>1. IInv /\ [Next]_vars => AllKept
  BY NextIInv
<1> QED BY <1>1, Invariance, PTL DEF Spec, EntitlementKept

-----------------------------------------------------------------------------
(***************************************************************************)
(* The indexes.  create_schedule pushes the new id onto the lists of the   *)
(* grantor and of the beneficiary; every other step leaves them alone.     *)
(***************************************************************************)
Indexed ==
  /\ grantor_schedules \in [Users -> Seq(Nat)]
  /\ beneficiary_schedules \in [Accounts -> Seq(Nat)]
  /\ IndexesExact

GrantedBy(ss, u) == {id \in DOMAIN ss : ss[id].grantor = u}

GrantedTo(ss, a) == {id \in DOMAIN ss : ss[id].beneficiary = a}

LEMMA IndexedSets ==
  Indexed <=>
    /\ grantor_schedules \in [Users -> Seq(Nat)]
    /\ beneficiary_schedules \in [Accounts -> Seq(Nat)]
    /\ \A u \in Users : Enumerates(grantor_schedules[u], GrantedBy(schedules, u))
    /\ \A a \in Accounts :
         Enumerates(beneficiary_schedules[a], GrantedTo(schedules, a))
  BY DEF Indexed, IndexesExact, GrantedBy, GrantedTo

LEMMA SameIndexed ==
  ASSUME Indexed, AllKept, DOMAIN schedules' = DOMAIN schedules,
         UNCHANGED <<grantor_schedules, beneficiary_schedules>>
  PROVE  Indexed'
<1>1. \A id \in DOMAIN schedules :
        /\ schedules'[id].grantor = schedules[id].grantor
        /\ schedules'[id].beneficiary = schedules[id].beneficiary
  BY DEF AllKept, Kept, Terms
<1>2. \A u \in Users : GrantedBy(schedules, u)' = GrantedBy(schedules, u)
  BY <1>1 DEF GrantedBy
<1>3. \A a \in Accounts : GrantedTo(schedules, a)' = GrantedTo(schedules, a)
  BY <1>1 DEF GrantedTo
<1>4. /\ \A u \in Users : Enumerates(grantor_schedules'[u], GrantedBy(schedules, u)')
      /\ \A a \in Accounts :
           Enumerates(beneficiary_schedules'[a], GrantedTo(schedules, a)')
  BY <1>2, <1>3, IndexedSets
<1> QED BY <1>4 DEF Indexed, IndexesExact, GrantedBy, GrantedTo, Enumerates, Elements

(***************************************************************************)
(* One index: the next id, entered for the key it belongs to.              *)
(***************************************************************************)
LEMMA EnteredExact ==
  ASSUME NEW K, NEW index \in [K -> Seq(Nat)], NEW key \in K, NEW n \in Nat,
         NEW k \in K, NEW ids, Enumerates(index[k], ids), \A id \in ids : id < n,
         NEW more, more = IF k = key THEN ids \cup {n} ELSE ids
  PROVE  /\ Entered(index, key, n)[k] \in Seq(Nat)
         /\ Enumerates(Entered(index, key, n)[k], more)
<1>1. Entered(index, key, n)[k] = IF k = key THEN Append(index[k], n) ELSE index[k]
  BY DEF Entered
<1>2. index[k] \in Seq(Nat)
  OBVIOUS
<1>3. CASE k = key
  BY <1>1, <1>2, <1>3, EnumeratesPushed
<1>4. CASE k # key
  BY <1>1, <1>2, <1>4
<1> QED BY <1>3, <1>4

LEMMA CreateScheduleIndexed ==
  ASSUME IInv, Indexed, NEW grantor \in Users, NEW params \in Params,
         CreateSchedule(grantor, params)
  PROVE  Indexed'
<1> DEFINE s == NewSchedule(grantor, params)
           n == schedule_count
<1>1. /\ n \in Nat /\ n \notin DOMAIN schedules
      /\ \A id \in DOMAIN schedules : id < n
      /\ schedules' = [id \in (DOMAIN schedules) \cup {n} |->
                         IF id \in DOMAIN schedules THEN schedules[id] ELSE s]
      /\ grantor_schedules' = Entered(grantor_schedules, grantor, n)
      /\ beneficiary_schedules' =
           Entered(beneficiary_schedules, params.beneficiary, n)
  BY DEF IInv, TypeOK, CreateSchedule
<1>2. /\ s.grantor = grantor /\ s.beneficiary = params.beneficiary
      /\ params.beneficiary \in Accounts
  <2>1. now \in Nat
    BY DEF IInv, TypeOK
  <2> QED BY <2>1, NewScheduleSound DEF CreateSchedule
<1> HIDE DEF s, n
<1>3. /\ DOMAIN schedules' = (DOMAIN schedules) \cup {n}
      /\ \A id \in DOMAIN schedules : schedules'[id] = schedules[id]
      /\ schedules'[n] = s
  BY <1>1
<1>4. ASSUME NEW u \in Users
      PROVE  /\ grantor_schedules'[u] \in Seq(Nat)
             /\ Enumerates(grantor_schedules'[u], GrantedBy(schedules, u)')
  <2>1. GrantedBy(schedules, u)' =
          IF u = grantor THEN GrantedBy(schedules, u) \cup {n}
                         ELSE GrantedBy(schedules, u)
    BY <1>1, <1>2, <1>3 DEF GrantedBy
  <2>2. \A id \in GrantedBy(schedules, u) : id < n
    BY <1>1 DEF GrantedBy
  <2>3. /\ grantor_schedules \in [Users -> Seq(Nat)]
        /\ Enumerates(grantor_schedules[u], GrantedBy(schedules, u))
    BY IndexedSets
  <2> QED BY <1>1, <2>1, <2>2, <2>3, EnteredExact
<1>5. ASSUME NEW a \in Accounts
      PROVE  /\ beneficiary_schedules'[a] \in Seq(Nat)
             /\ Enumerates(beneficiary_schedules'[a], GrantedTo(schedules, a)')
  <2>1. GrantedTo(schedules, a)' =
          IF a = params.beneficiary THEN GrantedTo(schedules, a) \cup {n}
                                    ELSE GrantedTo(schedules, a)
    BY <1>1, <1>2, <1>3 DEF GrantedTo
  <2>2. \A id \in GrantedTo(schedules, a) : id < n
    BY <1>1 DEF GrantedTo
  <2>3. /\ beneficiary_schedules \in [Accounts -> Seq(Nat)]
        /\ Enumerates(beneficiary_schedules[a], GrantedTo(schedules, a))
    BY IndexedSets
  <2> QED BY <1>1, <1>2, <2>1, <2>2, <2>3, EnteredExact
<1>6. /\ DOMAIN grantor_schedules' = Users
      /\ DOMAIN beneficiary_schedules' = Accounts
      /\ grantor_schedules' = [u \in Users |-> grantor_schedules'[u]]
      /\ beneficiary_schedules' = [a \in Accounts |-> beneficiary_schedules'[a]]
  BY <1>1 DEF Indexed, Entered
<1>7. /\ grantor_schedules' \in [Users -> Seq(Nat)]
      /\ beneficiary_schedules' \in [Accounts -> Seq(Nat)]
  BY <1>4, <1>5, <1>6
<1> QED BY <1>4, <1>5, <1>7
        DEF Indexed, IndexesExact, GrantedBy, GrantedTo, Enumerates, Elements

LEMMA NextIndexed == IInv /\ Indexed /\ [Next]_vars => Indexed'
<1> SUFFICES ASSUME IInv, Indexed, [Next]_vars PROVE Indexed'
  OBVIOUS
<1>1. AllKept
  BY NextIInv
<1>2. CASE \E grantor \in Users, params \in Params :
             CreateSchedule(grantor, params)
  BY <1>2, CreateScheduleIndexed
<1>3. CASE /\ DOMAIN schedules' = DOMAIN schedules
           /\ UNCHANGED <<grantor_schedules, beneficiary_schedules>>
  BY <1>1, <1>3, SameIndexed
<1> QED
  BY <1>2, <1>3
  DEF Next, Initialize, Claim, Revoke, Tick, GiveStep, Give, vars, records

(***************************************************************************)
(* The lookups by grantor and by beneficiary return every schedule of      *)
(* theirs once, oldest first, and no other.                                *)
(***************************************************************************)
THEOREM Lookups == Spec => []IndexesExact
<1>1. Init => Indexed
  BY DEF Init, Indexed, IndexesExact, Enumerates, Elements
<1>2. IInv /\ Indexed /\ [Next]_vars => Indexed'
  BY NextIndexed
<1>3. Indexed => IndexesExact
  BY DEF Indexed
<1> QED BY <1>1, <1>2, <1>3, Invariance, PTL DEF Spec

-----------------------------------------------------------------------------
(***************************************************************************)
(* The contract moves money only as an escrow does that every deal is paid *)
(* into when it is opened.  The operators of the escrow's modules, as      *)
(* instantiated, are ours.                                                 *)
(***************************************************************************)
LEMMA TransferIsOurs ==
  ASSUME NEW ledger, NEW token, NEW from, NEW to, NEW amount
  PROVE  /\ E!Transfer(ledger, token, from, to, amount)
              = Transfer(ledger, token, from, to, amount)
         /\ E!CanTransfer(ledger, token, from, amount)
              <=> CanTransfer(ledger, token, from, amount)
  BY DEF Transfer, E!Transfer, CanTransfer, E!CanTransfer

LEMMA TransferNothing ==
  ASSUME NEW ledger \in Ledgers(Tokens, Accounts), NEW token \in Tokens,
         NEW from \in Accounts, NEW to \in Accounts
  PROVE  /\ Transfer(ledger, token, from, to, 0) = ledger
         /\ CanTransfer(ledger, token, from, 0)
  BY DEF Transfer, CanTransfer, Ledgers

Totals == {amount \in {p.total_amount : p \in Params} : amount > 0}

OpenDeal == [payer : Accounts \ {Contract}, payee : Accounts, token : Tokens,
             held : Totals]

LEMMA CreateScheduleSimulates ==
  ASSUME IInv, NEW grantor \in Users, NEW params \in Params,
         CreateSchedule(grantor, params)
  PROVE  E!OpenStep
<1> DEFINE s == NewSchedule(grantor, params)
           n == schedule_count
           deal == DealOf(s)
<1>1. /\ n \in 0 .. (MaxSchedules - 1) /\ n \notin DOMAIN schedules
      /\ schedules' = [id \in (DOMAIN schedules) \cup {n} |->
                         IF id \in DOMAIN schedules THEN schedules[id] ELSE s]
      /\ CanTransfer(funds, params.token, grantor, params.total_amount)
      /\ funds' = Transfer(funds, params.token, grantor, Contract,
                           params.total_amount)
  BY VestingAssumption DEF IInv, TypeOK, CreateSchedule
<1>2. /\ s.grantor = grantor /\ s.beneficiary = params.beneficiary
      /\ s.token = params.token /\ s.total_amount = params.total_amount
      /\ s.claimed_amount = 0
      /\ params.beneficiary \in Accounts /\ params.token \in Tokens
      /\ params.total_amount \in Nat \ {0}
  <2>1. now \in Nat
    BY DEF IInv, TypeOK
  <2> QED BY <2>1, NewScheduleSound DEF CreateSchedule
<1> HIDE DEF s, n
<1>3. deal = [payer |-> grantor, payee |-> params.beneficiary,
              token |-> params.token, held |-> params.total_amount]
  BY <1>2 DEF DealOf
<1>4. deal \in OpenDeal
  <2>1. grantor \in Accounts \ {Contract}
    BY VestingAssumption DEF Accounts
  <2>2. params.total_amount \in Totals
    BY <1>2 DEF Totals
  <2> QED BY <1>2, <1>3, <2>1, <2>2 DEF OpenDeal
<1>5. /\ deal.payer = grantor /\ deal.token = params.token
      /\ deal.held = params.total_amount
  BY <1>3
<1>6. DOMAIN Deals = DOMAIN schedules
  BY DEF Deals
<1>7. Deals' = E!Adjoin(Deals, [i \in {n} |-> deal])
  <2>1. Deals' = [id \in DOMAIN schedules' |-> DealOf(schedules'[id])]
    BY DEF Deals, DealOf
  <2>2. /\ DOMAIN schedules' = (DOMAIN schedules) \cup {n}
        /\ \A id \in DOMAIN schedules' :
             schedules'[id] = IF id \in DOMAIN schedules THEN schedules[id] ELSE s
    BY <1>1
  <2>3. \A id \in DOMAIN schedules' :
          DealOf(schedules'[id]) = IF id \in DOMAIN schedules THEN Deals[id] ELSE deal
    BY <2>2 DEF Deals
  <2> HIDE DEF deal
  <2>4. E!Adjoin(Deals, [i \in {n} |-> deal])
          = [id \in (DOMAIN schedules) \cup {n} |->
               IF id \in DOMAIN schedules THEN Deals[id] ELSE deal]
    BY <1>6 DEF E!Adjoin
  <2> QED BY <2>1, <2>2, <2>3, <2>4
<1>8. UNCHANGED NothingUnbacked
  BY DEF NothingUnbacked
<1> HIDE DEF deal
<1>9. E!Open(n, deal)
  BY <1>1, <1>5, <1>6, <1>7, <1>8, TransferIsOurs DEF E!Open
<1> QED BY <1>1, <1>4, <1>9 DEF E!OpenStep, OpenDeal, Totals

(***************************************************************************)
(* A payment from a schedule draws on its deal, and on no other.           *)
(***************************************************************************)
LEMMA ReplacedDraws ==
  ASSUME NEW id \in DOMAIN schedules, NEW r, NEW drawn,
         schedules' = [schedules EXCEPT ![id] = r],
         r.grantor = schedules[id].grantor,
         r.beneficiary = schedules[id].beneficiary,
         r.token = schedules[id].token,
         r.total_amount - r.claimed_amount =
           (schedules[id].total_amount - schedules[id].claimed_amount) - drawn
  PROVE  Deals' = E!Draw(Deals, id, drawn)
<1>1. /\ DOMAIN schedules' = DOMAIN schedules
      /\ \A i \in DOMAIN schedules :
           schedules'[i] = IF i = id THEN r ELSE schedules[i]
  OBVIOUS
<1>2. Deals' = [i \in DOMAIN schedules' |-> DealOf(schedules'[i])]
  BY DEF Deals, DealOf
<1>3. DealOf(r) = [DealOf(schedules[id]) EXCEPT !.held = @ - drawn]
  BY DEF DealOf
<1>4. Deals[id] = DealOf(schedules[id])
  BY DEF Deals
<1>5. E!Draw(Deals, id, drawn) = [Deals EXCEPT ![id] = DealOf(r)]
  BY <1>3, <1>4 DEF E!Draw
<1>6. [Deals EXCEPT ![id] = DealOf(r)]
        = [i \in DOMAIN schedules |-> DealOf(IF i = id THEN r ELSE schedules[i])]
  BY DEF Deals
<1> QED BY <1>1, <1>2, <1>5, <1>6

LEMMA ReleaseSimulates ==
  ASSUME NEW id \in DOMAIN schedules, NEW s, s = schedules[id],
         NEW paid \in Nat, NEW refund \in Nat,
         NEW held, held = s.total_amount - s.claimed_amount,
         held \in Nat, paid + refund <= held,
         NEW paidOut,
         paidOut = Transfer(funds, s.token, Contract, s.beneficiary, paid),
         CanTransfer(funds, s.token, Contract, paid),
         CanTransfer(paidOut, s.token, Contract, refund),
         funds' = Transfer(paidOut, s.token, Contract, s.grantor, refund),
         Deals' = E!Draw(Deals, id, paid + refund)
  PROVE  E!ReleaseStep
<1>1. /\ id \in DOMAIN Deals
      /\ Deals[id].payer = s.grantor /\ Deals[id].payee = s.beneficiary
      /\ Deals[id].token = s.token /\ Deals[id].held = held
  BY DEF Deals, DealOf
<1>2. UNCHANGED NothingUnbacked
  BY DEF NothingUnbacked
<1>3. E!Release(id, paid, refund)
  BY <1>1, <1>2, TransferIsOurs DEF E!Release
<1>4. paid \in 0 .. Deals[id].held /\ refund \in 0 .. (Deals[id].held - paid)
  BY <1>1
<1> QED BY <1>1, <1>3, <1>4 DEF E!ReleaseStep

LEMMA ClaimSimulates ==
  ASSUME IInv, NEW beneficiary \in Users, NEW id \in DOMAIN schedules,
         Claim(beneficiary, id)
  PROVE  E!ReleaseStep
<1> DEFINE s == schedules[id]
           r == Paid(s, now)
           c == Claimable(s, now)
           v == Vested(s, now)
           held == s.total_amount - s.claimed_amount
           paidOut == Transfer(funds, s.token, Contract, s.beneficiary, c)
<1>1. /\ s.status = "Active" /\ c \in Nat /\ s.claimed_amount + c = v
      /\ CanTransfer(funds, s.token, Contract, c) /\ funds' = paidOut
      /\ schedules' = [schedules EXCEPT ![id] = r]
  BY ClaimType DEF ClaimFacts
<1>2. /\ s \in VestingSchedule /\ Sound(s, now) /\ now \in Nat
      /\ s.claimed_amount \in Nat /\ s.total_amount \in Nat
      /\ s.grantor \in Accounts /\ s.beneficiary \in Accounts
      /\ s.token \in Tokens /\ Contract \in Accounts
      /\ funds \in Ledgers(Tokens, Accounts)
      /\ v \in Nat /\ v <= s.total_amount
  BY <1>1, ScheduleFacts
<1>3. /\ Terms(r) = Terms(s) /\ r.total_amount = s.total_amount
      /\ r.claimed_amount = v
  BY <1>1, <1>2, PaidSound
<1>4. /\ r.grantor = s.grantor /\ r.beneficiary = s.beneficiary
      /\ r.token = s.token
  BY <1>3 DEF Terms
<1>5. paidOut \in Ledgers(Tokens, Accounts)
  BY <1>1, <1>2, TransferType
<1> HIDE DEF paidOut
<1>6. /\ CanTransfer(paidOut, s.token, Contract, 0)
      /\ Transfer(paidOut, s.token, Contract, s.grantor, 0) = paidOut
  BY <1>2, <1>5, TransferNothing
<1> HIDE DEF r, c, v
<1>7. held \in Nat /\ c + 0 <= held /\ r.total_amount - r.claimed_amount = held - (c + 0)
  <2> HIDE DEF s
  <2> QED BY <1>1, <1>2, <1>3
<1>8. Deals' = E!Draw(Deals, id, c + 0)
  BY <1>1, <1>4, <1>7, ReplacedDraws
<1>9. paidOut = Transfer(funds, s.token, Contract, s.beneficiary, c)
  BY DEF paidOut
<1> HIDE DEF s
<1> QED BY <1>1, <1>6, <1>7, <1>8, <1>9, ReleaseSimulates DEF s

(***************************************************************************)
(* A revocation pays the grantor alone; when nothing is left to return it  *)
(* changes no deal.                                                        *)
(***************************************************************************)
LEMMA RevokeSimulates ==
  ASSUME IInv, NEW grantor \in Users, NEW id \in DOMAIN schedules,
         Revoke(grantor, id)
  PROVE  E!ReleaseStep
<1> DEFINE s == schedules[id]
           r == Capped(s, now)
           u == Unvested(s, now)
           v == Vested(s, now)
           held == s.total_amount - s.claimed_amount
<1>1. /\ s.status # "Revoked" /\ s.revocable /\ u \in Nat
      /\ v + u = s.total_amount
      /\ \/ /\ CanTransfer(funds, s.token, Contract, u)
            /\ funds' = Transfer(funds, s.token, Contract, s.grantor, u)
         \/ u = 0 /\ funds' = funds
      /\ schedules' = [schedules EXCEPT ![id] = r]
  BY RevokeType DEF RevokeFacts
<1>2. /\ s \in VestingSchedule /\ Sound(s, now) /\ now \in Nat
      /\ s.claimed_amount \in Nat /\ s.total_amount \in Nat
      /\ s.grantor \in Accounts /\ s.beneficiary \in Accounts
      /\ s.token \in Tokens /\ Contract \in Accounts
      /\ funds \in Ledgers(Tokens, Accounts) /\ v \in Nat
  BY <1>1, ScheduleFacts
<1>3. /\ Terms(r) = Terms(s) /\ r.total_amount = v
      /\ r.claimed_amount = s.claimed_amount /\ s.claimed_amount <= v
  <2>1. v \in s.claimed_amount .. s.total_amount
    BY <1>1, <1>2, CappedSound
  <2> QED BY <1>1, <1>2, <2>1, CappedSound
<1>4. /\ r.grantor = s.grantor /\ r.beneficiary = s.beneficiary
      /\ r.token = s.token
  BY <1>3 DEF Terms
<1>5. /\ CanTransfer(funds, s.token, Contract, 0)
      /\ Transfer(funds, s.token, Contract, s.beneficiary, 0) = funds
      /\ Transfer(funds, s.token, Contract, s.grantor, 0) = funds
  BY <1>2, TransferNothing
<1>6. /\ CanTransfer(funds, s.token, Contract, u)
      /\ funds' = Transfer(funds, s.token, Contract, s.grantor, u)
  <2> HIDE DEF u, s
  <2> QED BY <1>1, <1>5
<1> HIDE DEF r, u, v
<1>7. held \in Nat /\ 0 + u <= held /\ r.total_amount - r.claimed_amount = held - (0 + u)
  <2> HIDE DEF s
  <2> QED BY <1>1, <1>2, <1>3
<1>8. Deals' = E!Draw(Deals, id, 0 + u)
  BY <1>1, <1>4, <1>7, ReplacedDraws
<1> HIDE DEF s
<1> QED BY <1>1, <1>5, <1>6, <1>7, <1>8, ReleaseSimulates DEF s

LEMMA NextSimulates ==
  ASSUME IInv, [Next]_vars
  PROVE  [E!FundedNext]_(E!vars)
<1>1. ASSUME UNCHANGED <<schedules, funds>>
      PROVE  UNCHANGED E!vars
  BY <1>1 DEF E!vars, Deals, DealOf, NothingUnbacked
<1>2. CASE \/ \E caller \in Users : Initialize(caller)
           \/ Tick
           \/ UNCHANGED vars
  BY <1>1, <1>2 DEF Initialize, Tick, vars, records
<1>3. CASE \E grantor \in Users, params \in Params :
             CreateSchedule(grantor, params)
  BY <1>3, CreateScheduleSimulates DEF E!FundedNext
<1>4. CASE \E beneficiary \in Users, id \in DOMAIN schedules :
             Claim(beneficiary, id)
  BY <1>4, ClaimSimulates DEF E!FundedNext
<1>5. CASE \E grantor \in Users, id \in DOMAIN schedules : Revoke(grantor, id)
  BY <1>5, RevokeSimulates DEF E!FundedNext
<1>6. CASE GiveStep
  <2>1. PICK token \in Tokens, from \in Users, to \in Accounts,
             amount \in Gifts : Give(token, from, to, amount)
    BY <1>6 DEF GiveStep
  <2>2. from \in Accounts \ {Contract}
    BY VestingAssumption DEF Accounts
  <2>3. /\ CanTransfer(funds, token, from, amount)
        /\ funds' = Transfer(funds, token, from, to, amount)
        /\ Deals' = Deals /\ NothingUnbacked' = NothingUnbacked
    BY <2>1 DEF Give, records, Deals, DealOf, NothingUnbacked
  <2>4. E!Give(token, from, to, amount)
    BY <2>3, TransferIsOurs DEF E!Give
  <2> QED BY <2>2, <2>4 DEF E!GiveStep, E!FundedNext
<1> QED BY <1>2, <1>3, <1>4, <1>5, <1>6 DEF Next

(***************************************************************************)
(* The contract implements the funded escrow: what it does to schedules    *)
(* and balances is the opening of a deal that is paid in, a payment out of *)
(* one deal to its own parties, or nothing.                                *)
(***************************************************************************)
THEOREM FundedRefinement == Spec => FundedEscrow
<1>1. Init => E!Init
  BY DEF Init, E!Init, Deals, NothingUnbacked
<1>2. IInv /\ [Next]_vars => [E!FundedNext]_(E!vars)
  BY NextSimulates
<1> QED BY <1>1, <1>2, Invariance, PTL DEF Spec, FundedEscrow, E!FundedSpec
-----------------------------------------------------------------------------
(***************************************************************************)
(* The escrow's own theorems, for the deals of this contract.              *)
(***************************************************************************)
EP == INSTANCE EscrowProofs
        WITH deals <- Deals, unbacked <- NothingUnbacked,
             DealIds <- 0 .. (MaxSchedules - 1),
             Sums <- {amount \in {p.total_amount : p \in Params} : amount > 0}

LEMMA EscrowAssumptionHolds == EP!EscrowAssumption
<1>1. IsFiniteSet(Accounts)
  BY VestingAssumption, FS_Singleton, FS_Union DEF Accounts
<1>2. EP!IsFiniteSet(Accounts)
  BY <1>1 DEF IsFiniteSet, EP!IsFiniteSet
<1>3. Contract \in Accounts
  BY DEF Accounts
<1>4. MaxSchedules \in Nat /\ Gifts \subseteq Nat
  BY VestingAssumption
<1>5. 0 .. (MaxSchedules - 1) \subseteq Nat
  BY <1>4
<1>6. Totals \subseteq Nat
  <2>1. ASSUME NEW p \in Params, p.total_amount > 0
        PROVE  p.total_amount \in Nat
    <3>1. p.total_amount \in Int
      BY VestingAssumption DEF ScheduleParams
    <3> QED BY <2>1, <3>1
  <2> QED BY <2>1 DEF Totals
<1>7. InitialFunds \in EP!Ledgers(Tokens, Accounts)
  BY VestingAssumption DEF Ledgers, EP!Ledgers
<1> QED BY <1>2, <1>3, <1>4, <1>5, <1>6, <1>7 DEF EP!EscrowAssumption, Totals

LEMMA SameEscrow ==
  /\ E!Init => EP!Init
  /\ [E!FundedNext]_(E!vars) => [EP!FundedNext]_(EP!vars)
  /\ EP!Solvent => E!Solvent
<1> USE DEF E!vars, EP!vars
<1>1. E!Init => EP!Init
  BY DEF E!Init, EP!Init
<1>2. E!OpenStep => EP!OpenStep
  BY DEF E!OpenStep, EP!OpenStep, E!Open, EP!Open, E!Adjoin, EP!Adjoin,
         E!CanTransfer, EP!CanTransfer, E!Transfer, EP!Transfer
<1>3. E!ReleaseStep => EP!ReleaseStep
  BY DEF E!ReleaseStep, EP!ReleaseStep, E!Release, EP!Release, E!Draw, EP!Draw,
         E!CanTransfer, EP!CanTransfer, E!Transfer, EP!Transfer
<1>4. E!GiveStep => EP!GiveStep
  BY DEF E!GiveStep, EP!GiveStep, E!Give, EP!Give,
         E!CanTransfer, EP!CanTransfer, E!Transfer, EP!Transfer
<1>5. ASSUME NEW ds, NEW token
      PROVE  E!Total(E!HeldOf(ds, token)) = EP!Total(EP!HeldOf(ds, token))
  BY DEF E!HeldOf, EP!HeldOf, E!Total, EP!Total, E!Units, EP!Units,
         E!UnitsAt, EP!UnitsAt, E!Cardinality, EP!Cardinality
<1>6. E!FundedNext => EP!FundedNext
  BY <1>2, <1>3, <1>4 DEF E!FundedNext, EP!FundedNext
<1>7. EP!Solvent => E!Solvent
  BY <1>5 DEF E!Solvent, EP!Solvent
<1> QED BY <1>1, <1>6, <1>7

LEMMA TotalIsOurs ==
  ASSUME NEW f
  PROVE  E!Total(f) = Total(f)
  BY DEF E!Total, Total, E!Units, Units, E!UnitsAt, UnitsAt,
         E!Cardinality, Cardinality

(***************************************************************************)
(* What one schedule holds is part of the balance.                         *)
(***************************************************************************)
LEMMA HeldIsInTotal ==
  ASSUME IInv, E!Solvent, NEW id \in DOMAIN schedules
  PROVE  schedules[id].total_amount - schedules[id].claimed_amount
           <= funds[<<schedules[id].token, Contract>>]
<1> DEFINE token == schedules[id].token
           held(i) == schedules[i].total_amount - schedules[i].claimed_amount
           f == E!HeldOf(Deals, token)
<1>1. DOMAIN f = DOMAIN schedules
  BY DEF E!HeldOf, Deals
<1>2. f \in [DOMAIN schedules -> Nat]
  <2>1. ASSUME NEW i \in DOMAIN schedules
        PROVE  held(i) \in Nat
    <3> DEFINE s == schedules[i]
    <3>1. /\ s.claimed_amount \in Nat /\ s.total_amount \in Nat
          /\ Sound(s, now)
      BY ScheduleFacts
    <3> HIDE DEF s
    <3>2. s.total_amount - s.claimed_amount \in Nat
      BY <3>1 DEF Sound
    <3> QED BY <3>2 DEF s
  <2> QED BY <2>1 DEF E!HeldOf, Deals, DealOf
<1>3. f[id] = held(id)
  BY DEF E!HeldOf, Deals, DealOf
<1>4. IsFiniteSet(DOMAIN schedules)
  BY FS_Interval, VestingAssumption DEF IInv, TypeOK
<1>5. /\ token \in Tokens /\ funds[<<token, Contract>>] \in Nat
  BY ScheduleFacts
<1>6. Total(f) <= funds[<<token, Contract>>]
  BY <1>5, TotalIsOurs DEF E!Solvent
<1> HIDE DEF f
<1>7. f[id] <= Total(f) /\ Total(f) \in Nat /\ f[id] \in Nat
  BY <1>1, <1>2, <1>4, TotalUpdate, TotalType
<1> QED BY <1>3, <1>5, <1>6, <1>7

(***************************************************************************)
(* The contract's balance of each token covers what its schedules have yet *)
(* to pay: a revoked one holds what had vested and was not claimed.        *)
(***************************************************************************)
THEOREM SchedulesSolvent == Spec => []E!Solvent
<1>1. E!FundedSpec => EP!FundedSpec
  BY SameEscrow, PTL DEF E!FundedSpec, EP!FundedSpec
<1>2. EP!FundedSpec => []EP!Solvent
  BY EscrowAssumptionHolds, EP!FundedSolvency
<1>3. EP!Solvent => E!Solvent
  BY SameEscrow
<1> QED BY <1>1, <1>2, <1>3, FundedRefinement, PTL DEF FundedEscrow

(***************************************************************************)
(* What get_progress shows as claimable of a schedule that is not revoked  *)
(* is what claim pays at that second: it is not rejected, and the shared   *)
(* balance is there; what is not shown cannot be claimed.                  *)
(***************************************************************************)
THEOREM ShownPayable == Spec => []ShownIsPayable
<1>1. IInv /\ E!Solvent => ShownIsPayable
  <2> SUFFICES
        ASSUME IInv, E!Solvent, NEW id \in DOMAIN schedules,
               NEW s, s = schedules[id],
               NEW shown, shown = Progress(s, now),
               s.status # "Revoked", Computable(s, now)
        PROVE  /\ shown.claimed_amount + shown.claimable_amount
                    = shown.vested_amount
               /\ shown.claimable_amount > 0 <=> MayClaim(s, now)
               /\ CanTransfer(funds, s.token, Contract, shown.claimable_amount)
    BY DEF ShownIsPayable
  <2> DEFINE v == Vested(s, now)
             c == Claimable(s, now)
             balance == funds[<<s.token, Contract>>]
  <2>1. /\ s.claimed_amount \in Nat /\ s.total_amount \in Nat
        /\ v \in Nat /\ v <= s.total_amount /\ balance \in Nat
        /\ s.status \in Statuses /\ Sound(s, now)
    BY ScheduleFacts DEF VestingSchedule
  <2>2. /\ s.claimed_amount <= v
        /\ s.status = "FullyClaimed" <=> s.claimed_amount = s.total_amount
    BY <2>1 DEF Sound
  <2>3. s.total_amount - s.claimed_amount <= balance
    BY HeldIsInTotal
  <2>4. c = v - s.claimed_amount
    BY DEF Claimable
  <2> HIDE DEF v, balance
  <2>5. c \in Nat /\ s.claimed_amount + c = v /\ c <= balance
    BY <2>1, <2>2, <2>3, <2>4
  <2>6. c > 0 => s.status = "Active"
    BY <2>1, <2>2, <2>5 DEF Statuses
  <2>7. MayClaim(s, now) <=> c > 0
    BY <2>6 DEF MayClaim
  <2> HIDE DEF c
  <2>8. /\ shown.vested_amount = v /\ shown.claimed_amount = s.claimed_amount
        /\ shown.claimable_amount = c
    BY <2>5 DEF Progress, v, c
  <2> QED BY <2>5, <2>7, <2>8 DEF CanTransfer, balance
<1> QED BY <1>1, Invariance, SchedulesSolvent, PTL
=============================================================================
