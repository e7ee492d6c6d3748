----------------------------- MODULE MCVesting -----------------------------
(* Instances of Vesting for TLC. *)
EXTENDS Vesting

CONSTANTS Acme, Dev, Usdc

(* Acme can fund a schedule of 3 and one of 1, or give 3 away. *)
MCInitialFunds ==
  [p \in Tokens \X Accounts |-> IF p[2] = Acme THEN 4 ELSE 0]

MCSchedule(total, cliff, cliff_amount, duration, revocable) ==
  [beneficiary |-> Dev, token |-> Usdc, total_amount |-> total,
   start_time |-> 1, cliff_duration |-> cliff, cliff_amount |-> cliff_amount,
   total_duration |-> duration, revocable |-> revocable]

(* With and without a cliff, with and without a rest in the division. *)
MCValid ==
  {MCSchedule(total, cliff, cliff_amount, duration, revocable) :
     total \in {1, 3}, cliff \in {0, 1}, cliff_amount \in {0, 1, 3},
     duration \in {1, 3}, revocable \in BOOLEAN}

(* Each misses one of the checks of create_schedule. *)
MCInvalid ==
  {MCSchedule(0, 0, 0, 1, TRUE), MCSchedule(3, 1, -1, 3, TRUE),
   MCSchedule(1, 3, 0, 3, TRUE), MCSchedule(1, 0, 3, 1, TRUE),
   MCSchedule(1, 0, 0, 0, TRUE)}

(* The contract itself may be named as the beneficiary. *)
MCToContract == {[MCSchedule(1, 0, 0, 3, TRUE) EXCEPT !.beneficiary = Contract]}

MCParams == MCValid \cup MCInvalid \cup MCToContract
=============================================================================
