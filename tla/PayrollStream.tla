--------------------------- MODULE PayrollStream ---------------------------
(***************************************************************************)
(* The payroll_stream contract: senders lock tokens in streams, recipients *)
(* claim what has accrued linearly between start_time and end_time, and a  *)
(* sender may cancel, which splits what is left at the current second.     *)
(*                                                                         *)
(* Every call is one action: the host runs an invocation to its end and    *)
(* undoes all of it when it returns an error or traps.  A call that fails  *)
(* is therefore no step, and its checks are the guards of the action.      *)
(***************************************************************************)
EXTENDS TokenLedger, UnitSum, Vectors

CONSTANTS Users,          \* the addresses that sign calls
          Contract,       \* the contract's own address
          None,           \* the admin before initialize
          Tokens,         \* the token contracts in use
          Amounts,        \* the values callers pass as total_amount
          Times,          \* the values callers pass as start_time and end_time
          BatchSizes,     \* the lengths of the vectors of create_batch_streams
          Gifts,          \* the amounts users transfer on their own
          InitialFunds,   \* the balances when the contract is deployed
          MaxStreams,     \* bound on stream_count
          MaxTime,        \* bound on the ledger's timestamp
          MaxI128         \* the largest i128, 2^127 - 1 in the program

Accounts == Users \cup {Contract}

ASSUME PayrollAssumption ==
  /\ IsFiniteSet(Users)
  /\ Contract \notin Users
  /\ None \notin Users
  /\ Amounts \subseteq Int
  /\ Times \subseteq Nat
  /\ BatchSizes \subseteq Nat
  /\ Gifts \subseteq Nat
  /\ InitialFunds \in Ledgers(Tokens, Accounts)
  /\ MaxStreams \in Nat /\ MaxTime \in Nat /\ MaxI128 \in Nat

VARIABLES
  admin,              \* DataKey::Admin
  streams,            \* DataKey::Stream(id), a function on the ids in use
  stream_count,       \* DataKey::StreamCount
  sender_streams,     \* DataKey::SenderStreams(sender)
  recipient_streams,  \* DataKey::RecipientStreams(recipient)
  now,                \* env.ledger().timestamp()
  funds,              \* the token balances, see TokenLedger
  unbacked            \* history: what batches recorded and did not transfer in

records == <<streams, stream_count, sender_streams, recipient_streams>>
vars == <<admin, records, now, funds, unbacked>>

(***************************************************************************)
(* Paused is in the enum and no operation stores it; rate_per_second is    *)
(* stored and never read, and is left out.                                 *)
(***************************************************************************)
Statuses == {"Active", "Paused", "Cancelled", "Completed"}

Stream == [sender : Users, recipient : Accounts, token : Tokens,
           total_amount : Nat, claimed_amount : Nat,
           start_time : Nat, end_time : Nat, last_claim_time : Nat,
           status : Statuses]

CreateStreamParams == [recipient : Accounts, token : Tokens,
                       total_amount : Amounts,
                       start_time : Times, end_time : Times]

(* Mutant: the check for Completed is dropped. *)
SettledIfCancelled(s) == s.status = "Cancelled"

Settled(s) == s.status \in {"Cancelled", "Completed"}

Remaining(s) == IF Settled(s) THEN 0 ELSE s.total_amount - s.claimed_amount

-----------------------------------------------------------------------------
(***************************************************************************)
(* calculate_claimable, at time t.  What has accrued is recomputed from    *)
(* the whole amount and duration; the product is an i128 and traps when it *)
(* does not fit.                                                           *)
(***************************************************************************)
(* Mutant: the end is taken for the last second that does not count. *)
ElapsedBeforeEnd(s, t) ==
  IF t <= s.start_time THEN 0
  ELSE (IF t >= s.end_time THEN s.end_time - 1 ELSE t) - s.start_time

Elapsed(s, t) ==
  IF t <= s.start_time THEN 0
  ELSE (IF t >= s.end_time THEN s.end_time ELSE t) - s.start_time

(* Mutant: the quotient is rounded up. *)
AccruedRoundedUp(s, t) ==
  LET duration == s.end_time - s.start_time
  IN  (s.total_amount * Elapsed(s, t) + duration - 1) \div duration

Accrued(s, t) ==
  LET accrued == (s.total_amount * Elapsed(s, t))
                   \div (s.end_time - s.start_time)
  IN  IF accrued > s.total_amount THEN s.total_amount ELSE accrued

Computable(s, t) == s.total_amount * Elapsed(s, t) <= MaxI128

(* Mutant: what accrues is rate_per_second, rounded down, every second. *)
ClaimableByRate(s, t) ==
  (s.total_amount \div (s.end_time - s.start_time)) * Elapsed(s, t)
    - s.claimed_amount

Claimable(s, t) ==
  IF Accrued(s, t) < s.claimed_amount THEN 0
  ELSE Accrued(s, t) - s.claimed_amount

(***************************************************************************)
(* What cancel_stream returns to the sender at time t.                     *)
(***************************************************************************)
(* Mutant: what the recipient is paid on the way is refunded as well. *)
RefundOfUnclaimed(s, t) == s.total_amount - s.claimed_amount

Refund(s, t) == s.total_amount - s.claimed_amount - Claimable(s, t)

-----------------------------------------------------------------------------
Init ==
  /\ admin = None
  /\ streams = [id \in {} |-> id]
  /\ stream_count = 0
  /\ sender_streams = [u \in Users |-> <<>>]
  /\ recipient_streams = [a \in Accounts |-> <<>>]
  /\ now = 0
  /\ funds = InitialFunds
  /\ unbacked = [token \in Tokens |-> 0]

Initialize(caller) ==
  /\ admin = None
  /\ admin' = caller
  /\ stream_count' = 0
  /\ UNCHANGED <<streams, sender_streams, recipient_streams,
                 now, funds, unbacked>>

(* Mutant: the check of the amount is dropped. *)
ValidAnyAmount(sender, params) ==
  /\ sender # params.recipient
  /\ params.end_time > params.start_time

Valid(sender, params) ==
  /\ sender # params.recipient
  /\ params.total_amount > 0
  /\ params.end_time > params.start_time

NewStream(sender, params) ==
  [sender |-> sender, recipient |-> params.recipient, token |-> params.token,
   total_amount |-> params.total_amount, claimed_amount |-> 0,
   start_time |-> params.start_time, end_time |-> params.end_time,
   last_claim_time |-> params.start_time, status |-> "Active"]

CreateStream(sender, params) ==
  /\ admin # None
  /\ Valid(sender, params)
  /\ stream_count < MaxStreams
  /\ CanTransfer(funds, params.token, sender, params.total_amount)
  /\ funds' = Transfer(funds, params.token, sender, Contract,
                       params.total_amount)
  /\ streams' = [id \in (DOMAIN streams) \cup {stream_count} |->
                   IF id \in DOMAIN streams THEN streams[id]
                                            ELSE NewStream(sender, params)]
  /\ stream_count' = stream_count + 1
  /\ sender_streams' =
       [sender_streams EXCEPT ![sender] = Append(@, stream_count)]
  /\ recipient_streams' =
       [recipient_streams EXCEPT ![params.recipient] = Append(@, stream_count)]
  /\ UNCHANGED <<admin, now, unbacked>>

(***************************************************************************)
(* One invalid element rejects the whole batch.  No token moves: the       *)
(* transfer of create_stream is a TODO here, and unbacked adds up what it  *)
(* would have brought in.                                                  *)
(***************************************************************************)
AmountsIn(ss, token) ==
  [id \in DOMAIN ss |-> IF ss[id].token = token THEN ss[id].total_amount ELSE 0]

(***************************************************************************)
(* The new ids of a batch that go to one recipient, in the batch's order.  *)
(***************************************************************************)
(* Mutant: the batch is not entered in the index by recipient. *)
IdsToNobody(ids, batch, a) == <<>>

IdsTo(ids, batch, a) ==
  Selected(ids, {k \in DOMAIN batch : batch[k].recipient = a})

CreateBatchStreams(sender, batch) ==
  LET ids == [k \in 1 .. Len(batch) |-> stream_count + k - 1]
      opened == [id \in stream_count .. (stream_count + Len(batch) - 1) |->
                   NewStream(sender, batch[id - stream_count + 1])]
  IN /\ admin # None
     /\ \A k \in DOMAIN batch : Valid(sender, batch[k])
     /\ stream_count + Len(batch) <= MaxStreams
     /\ streams' = [id \in (DOMAIN streams) \cup (DOMAIN opened) |->
                      IF id \in DOMAIN streams THEN streams[id] ELSE opened[id]]
     /\ stream_count' = stream_count + Len(batch)
     /\ sender_streams' = [sender_streams EXCEPT ![sender] = @ \o ids]
     /\ recipient_streams' =
          [a \in Accounts |-> recipient_streams[a] \o IdsTo(ids, batch, a)]
     /\ unbacked' = [token \in Tokens |->
                       unbacked[token] + Total(AmountsIn(opened, token))]
     /\ UNCHANGED <<admin, now, funds>>

(***************************************************************************)
(* The record after claimable more has been counted as claimed.            *)
(***************************************************************************)
Paid(s, claimable, status) ==
  [s EXCEPT !.claimed_amount = @ + claimable,
            !.last_claim_time = now,
            !.status = status]

Claim(recipient, id) ==
  LET s == streams[id]
      claimable == Claimable(s, now)
  IN /\ admin # None
     /\ id \in DOMAIN streams
     /\ s.recipient = recipient
     /\ ~Settled(s)
     /\ Computable(s, now)
     /\ claimable > 0
     /\ CanTransfer(funds, s.token, Contract, claimable)
     /\ funds' = Transfer(funds, s.token, Contract, recipient, claimable)
     /\ streams' =
          [streams EXCEPT ![id] =
             Paid(s, claimable, IF s.claimed_amount + claimable >= s.total_amount
                                THEN "Completed" ELSE s.status)]
     /\ UNCHANGED <<admin, stream_count, sender_streams, recipient_streams,
                    now, unbacked>>

CancelStream(sender, id) ==
  LET s == streams[id]
      claimable == Claimable(s, now)
      refund == Refund(s, now)
      paidOut == Transfer(funds, s.token, Contract, s.recipient, claimable)
  IN /\ admin # None
     /\ id \in DOMAIN streams
     /\ s.sender = sender
     /\ ~Settled(s)
     /\ Computable(s, now)
     /\ CanTransfer(funds, s.token, Contract, claimable)
     /\ CanTransfer(paidOut, s.token, Contract, refund)
     /\ funds' = Transfer(paidOut, s.token, Contract, sender, refund)
     /\ streams' = [streams EXCEPT ![id] = Paid(s, claimable, "Cancelled")]
     /\ UNCHANGED <<admin, stream_count, sender_streams, recipient_streams,
                    now, unbacked>>

-----------------------------------------------------------------------------
(***************************************************************************)
(* The environment: the ledger's clock, and transfers that users make on   *)
(* the token contracts themselves.                                         *)
(***************************************************************************)
Tick ==
  /\ now < MaxTime
  /\ now' = now + 1
  /\ UNCHANGED <<admin, records, funds, unbacked>>

Give(token, from, to, amount) ==
  /\ CanTransfer(funds, token, from, amount)
  /\ funds' = Transfer(funds, token, from, to, amount)
  /\ UNCHANGED <<admin, records, now, unbacked>>

BatchStep ==
  \E sender \in Users, n \in BatchSizes :
    \E batch \in [1 .. n -> CreateStreamParams] :
      CreateBatchStreams(sender, batch)

GiveStep ==
  \E token \in Tokens, from \in Users, to \in Accounts, amount \in Gifts :
    Give(token, from, to, amount)

Next ==
  \/ \E caller \in Users : Initialize(caller)
  \/ \E sender \in Users, params \in CreateStreamParams :
       CreateStream(sender, params)
  \/ BatchStep
  \/ \E recipient \in Users, id \in DOMAIN streams : Claim(recipient, id)
  \/ \E sender \in Users, id \in DOMAIN streams : CancelStream(sender, id)
  \/ Tick
  \/ GiveStep

Spec == Init /\ [][Next]_vars

(***************************************************************************)
(* The clock advances, and a recipient who may claim eventually does.      *)
(***************************************************************************)
FairSpec ==
  /\ Spec
  /\ WF_vars(Tick)
  /\ \A recipient \in Users, id \in 0 .. (MaxStreams - 1) :
       WF_vars(Claim(recipient, id))

-----------------------------------------------------------------------------
(***************************************************************************)
(* The types of the variables.  The two indexes are only known to have an  *)
(* entry for every address here: IndexesExact says what they hold.         *)
(***************************************************************************)
TypeOK ==
  /\ admin \in Users \cup {None}
  /\ stream_count \in 0 .. MaxStreams
  /\ streams \in [0 .. (stream_count - 1) -> Stream]
  /\ DOMAIN sender_streams = Users /\ DOMAIN recipient_streams = Accounts
  /\ now \in 0 .. MaxTime
  /\ funds \in Ledgers(Tokens, Accounts)
  /\ unbacked \in [Tokens -> Nat]

(***************************************************************************)
(* What a stream has paid is what had accrued when it last paid: it does   *)
(* not depend on how often, or when, the recipient claimed before, and no  *)
(* rounding is lost or gained on the way.                                  *)
(***************************************************************************)
ClaimedIsAccrued ==
  \A id \in DOMAIN streams :
    streams[id].claimed_amount = Accrued(streams[id], streams[id].last_claim_time)

(***************************************************************************)
(* A stream is Completed exactly when all of it was claimed without a      *)
(* cancellation, and that is never before its end: rounding down keeps at  *)
(* least the last unit until then.                                         *)
(***************************************************************************)
CompletedAtEnd ==
  \A id \in DOMAIN streams :
    LET s == streams[id]
    IN /\ s.status \in {"Active", "Cancelled", "Completed"}
       /\ s.status = "Completed" => s.claimed_amount = s.total_amount
       /\ s.status = "Active" => s.claimed_amount < s.total_amount
       /\ s.claimed_amount = s.total_amount => s.end_time <= now

(***************************************************************************)
(* From a stream's end on, its recipient can claim all that it still holds.*)
(***************************************************************************)
AllClaimableAtEnd ==
  \A id \in DOMAIN streams :
    LET s == streams[id]
    IN  ~Settled(s) /\ s.end_time <= now =>
          Claimable(s, now) = s.total_amount - s.claimed_amount

(***************************************************************************)
(* The lookups by sender and by recipient return every stream of theirs    *)
(* once, oldest first, whichever call created it, and no other.            *)
(***************************************************************************)
IndexesExact ==
  /\ \A u \in Users :
       Enumerates(sender_streams[u],
                  {id \in DOMAIN streams : streams[id].sender = u})
  /\ \A a \in Accounts :
       Enumerates(recipient_streams[a],
                  {id \in DOMAIN streams : streams[id].recipient = a})

(***************************************************************************)
(* The contract seen as an escrow: a stream holds what it has not paid,    *)
(* and nothing once it is settled.                                         *)
(***************************************************************************)
DealOf(s) == [payer |-> s.sender, payee |-> s.recipient, token |-> s.token,
              held |-> Remaining(s)]

Deals == [id \in DOMAIN streams |-> DealOf(streams[id])]

E == INSTANCE Escrow
       WITH deals <- Deals, DealIds <- 0 .. (MaxStreams - 1),
            Sums <- {amount \in Amounts : amount > 0}

(***************************************************************************)
(* The contract moves money only as an escrow does.  FundedEscrow is the   *)
(* promise in full, for a contract without create_batch_streams; Escrow    *)
(* is what is left of it with that call.                                   *)
(***************************************************************************)
Escrow == E!Spec
FundedEscrow == E!FundedSpec

(***************************************************************************)
(* The contract's balance covers all that its streams have yet to pay,     *)
(* except for what batches did not bring in.                               *)
(***************************************************************************)
Backed == E!Backed

(***************************************************************************)
(* Whatever has accrued to a recipient can be paid at once.                *)
(***************************************************************************)
AccruedIsPayable ==
  \A id \in DOMAIN streams :
    LET s == streams[id]
    IN  ~Settled(s) => CanTransfer(funds, s.token, Contract, Claimable(s, now))

(***************************************************************************)
(* The terms of a stream never change, what it has paid never decreases,   *)
(* and a settled stream is never touched again.                            *)
(***************************************************************************)
Terms(s) == <<s.sender, s.recipient, s.token, s.total_amount,
              s.start_time, s.end_time>>

Kept(s, r) ==
  /\ Terms(r) = Terms(s)
  /\ r.claimed_amount >= s.claimed_amount
  /\ s.status \in {"Cancelled", "Completed"} => r = s

AllKept ==
  \A id \in DOMAIN streams :
    id \in DOMAIN streams' /\ Kept(streams[id], streams'[id])

AgreementKept == [][AllKept]_vars

(***************************************************************************)
(* A stream to a user who keeps claiming is settled in the end: nothing of *)
(* its amount stays behind in the contract.  The exception is a stream so  *)
(* large that its product overflows: neither claim nor cancel_stream ever  *)
(* returns from it again.                                                  *)
(***************************************************************************)
Settleable(id) ==
  /\ id \in DOMAIN streams
  /\ streams[id].recipient \in Users
  /\ LET s == streams[id]
     IN  s.total_amount * (s.end_time - s.start_time) <= MaxI128

EventuallySettled ==
  \A id \in 0 .. (MaxStreams - 1) :
    Settleable(id) ~> (id \in DOMAIN streams /\ Settled(streams[id]))
=============================================================================
