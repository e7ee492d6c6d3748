------------------------ MODULE PayrollStreamProofs ------------------------
(***************************************************************************)
(* Proofs about PayrollStream for any users, tokens, amounts and times.    *)
(***************************************************************************)
EXTENDS PayrollStream, DataTheorems

(***************************************************************************)
(* The accrual schedule of a stream: from nothing at its start to all of   *)
(* it at its end, never decreasing, and all of it only from the end on.    *)
(***************************************************************************)
Scheduled(s) ==
  /\ s.total_amount \in Nat \ {0}
  /\ s.start_time \in Nat /\ s.end_time \in Nat
  /\ s.start_time < s.end_time

LEMMA ElapsedRange ==
  ASSUME NEW s, Scheduled(s), NEW t \in Nat
  PROVE  /\ Elapsed(s, t) \in 0 .. (s.end_time - s.start_time)
         /\ t <= s.start_time => Elapsed(s, t) = 0
         /\ t < s.end_time => Elapsed(s, t) < s.end_time - s.start_time
         /\ \A u \in Nat : t <= u => Elapsed(s, t) <= Elapsed(s, u)
  BY DEF Elapsed, Scheduled

LEMMA AccruedRange ==
  ASSUME NEW s, Scheduled(s), NEW t \in Nat
  PROVE  /\ Accrued(s, t) = (s.total_amount * Elapsed(s, t))
                              \div (s.end_time - s.start_time)
         /\ Accrued(s, t) \in 0 .. s.total_amount
         /\ t <= s.start_time => Accrued(s, t) = 0
         /\ t < s.end_time => Accrued(s, t) < s.total_amount
<1> DEFINE q == s.total_amount
           d == s.end_time - s.start_time
           e == Elapsed(s, t)
<1>1. q \in Nat \ {0} /\ d \in Nat \ {0}
  BY DEF Scheduled
<1>2. /\ e \in Nat /\ e <= d
      /\ t <= s.start_time => e = 0
      /\ t < s.end_time => e < d
  BY ElapsedRange DEF Scheduled
<1>3. Accrued(s, t) = IF (q * e) \div d > q THEN q ELSE (q * e) \div d
  BY DEF Accrued
<1> HIDE DEF q, d, e
<1>4. q * e \in Nat /\ q * e <= q * d /\ (e < d => q * e < q * d)
  BY <1>1, <1>2, ProductOrder
<1>5. (q * e) \div d \in Nat
  BY <1>1, <1>4, QuotientOrder
<1>6. (q * e) \div d <= q /\ (e < d => (q * e) \div d < q)
  BY <1>1, <1>4, QuotientBound
<1>7. e = 0 => (q * e) \div d = 0
  BY <1>1
<1>8. Accrued(s, t) = (q * e) \div d
  BY <1>1, <1>3, <1>5, <1>6
<1> QED BY <1>1, <1>2, <1>5, <1>6, <1>7, <1>8 DEF q, d, e

LEMMA AccruedOrder ==
  ASSUME NEW s, Scheduled(s), NEW t \in Nat, NEW u \in Nat, t <= u
  PROVE  Accrued(s, t) <= Accrued(s, u)
<1> DEFINE q == s.total_amount
           d == s.end_time - s.start_time
           e == Elapsed(s, t)
           f == Elapsed(s, u)
<1>1. q \in Nat /\ d \in Nat \ {0}
  BY DEF Scheduled
<1>2. e \in Nat /\ f \in Nat /\ e <= f
  BY ElapsedRange DEF Scheduled
<1>3. Accrued(s, t) = (q * e) \div d /\ Accrued(s, u) = (q * f) \div d
  BY AccruedRange
<1> HIDE DEF q, d, e, f
<1>4. q * e \in Nat /\ q * f \in Nat /\ q * e <= q * f
  BY <1>1, <1>2, ProductOrder
<1>5. (q * e) \div d <= (q * f) \div d
  BY <1>1, <1>4, QuotientOrder
<1> QED BY <1>3, <1>5

LEMMA AccruedAtEnd ==
  ASSUME NEW s, Scheduled(s), NEW t \in Nat, s.end_time <= t
  PROVE  Accrued(s, t) = s.total_amount
<1> DEFINE q == s.total_amount
           d == s.end_time - s.start_time
<1>1. q \in Nat /\ d \in Nat \ {0}
  BY DEF Scheduled
<1>2. Elapsed(s, t) = d
  BY DEF Elapsed, Scheduled
<1>3. Accrued(s, t) = (q * d) \div d
  BY <1>2, AccruedRange
<1> HIDE DEF q, d
<1>4. (q * d) \div d = q
  BY <1>1, QuotientBound
<1> QED BY <1>3, <1>4 DEF q

(***************************************************************************)
(* What can be claimed, and what a cancellation refunds, are parts of what *)
(* the stream still holds.                                                 *)
(***************************************************************************)
LEMMA ClaimableRange ==
  ASSUME NEW s, Scheduled(s), s.claimed_amount \in 0 .. s.total_amount,
         NEW t \in Nat
  PROVE  /\ Claimable(s, t) \in Nat /\ Refund(s, t) \in Nat
         /\ s.claimed_amount + Claimable(s, t) + Refund(s, t) = s.total_amount
         /\ s.claimed_amount + Claimable(s, t)
              = IF Accrued(s, t) < s.claimed_amount THEN s.claimed_amount
                                                    ELSE Accrued(s, t)
  BY AccruedRange DEF Claimable, Refund, Scheduled

LEMMA AccruedTerms ==
  ASSUME NEW s, NEW r, NEW t,
         r.total_amount = s.total_amount, r.start_time = s.start_time,
         r.end_time = s.end_time
  PROVE  Accrued(r, t) = Accrued(s, t)
  BY DEF Accrued, Elapsed

-----------------------------------------------------------------------------
(***************************************************************************)
(* The inductive invariant.  A stream that is Sound at time t has paid     *)
(* exactly what had accrued when it last paid, so that the next payment is *)
(* exact again; the last payment was not after t, unless there was none.   *)
(***************************************************************************)
Sound(s, t) ==
  /\ Scheduled(s)
  /\ s.claimed_amount \in 0 .. s.total_amount
  /\ s.claimed_amount = Accrued(s, s.last_claim_time)
  /\ s.last_claim_time \in Nat
  /\ s.last_claim_time <= t \/ s.last_claim_time = s.start_time
  /\ s.status \in {"Active", "Cancelled", "Completed"}
  /\ s.status = "Completed" => s.claimed_amount = s.total_amount
  /\ s.status = "Active" => s.claimed_amount < s.total_amount

AllSound == \A id \in DOMAIN streams : Sound(streams[id], now)

(***************************************************************************)
(* initialize writes 0 to the counter of the ids: it may because no stream *)
(* was created before.                                                     *)
(***************************************************************************)
Unused == admin = None => stream_count = 0

IInv == TypeOK /\ AllSound /\ Unused

(***************************************************************************)
(* A payment of what is claimable brings the stream up to date.            *)
(***************************************************************************)
LEMMA ClaimableUpToDate ==
  ASSUME NEW s, NEW t \in Nat, Sound(s, t)
  PROVE  s.claimed_amount + Claimable(s, t) = Accrued(s, t)
<1>1. Scheduled(s) /\ s.claimed_amount \in 0 .. s.total_amount
  BY DEF Sound
<1>2. Accrued(s, t) >= s.claimed_amount
  <2>1. s.claimed_amount = Accrued(s, s.last_claim_time)
    BY DEF Sound
  <2>2. CASE s.last_claim_time <= t
    BY <1>1, <2>1, <2>2, AccruedOrder DEF Sound
  <2>3. CASE s.last_claim_time = s.start_time
    BY <1>1, <2>1, <2>3, AccruedRange DEF Sound, Scheduled
  <2> QED BY <2>2, <2>3 DEF Sound
<1>3. Accrued(s, t) \in Nat /\ s.claimed_amount \in Nat
  BY <1>1, AccruedRange DEF Scheduled
<1> QED BY <1>1, <1>2, <1>3, ClaimableRange

LEMMA UpdatedType ==
  ASSUME NEW s \in Stream, NEW claimed \in Nat, NEW time \in Nat,
         NEW status \in Statuses
  PROVE  [s EXCEPT !.claimed_amount = claimed, !.last_claim_time = time,
                   !.status = status] \in Stream
  BY DEF Stream

LEMMA PaidSound ==
  ASSUME NEW s \in Stream, NEW t \in Nat, t = now, Sound(s, t),
         NEW status \in {"Active", "Cancelled", "Completed"},
         status = "Completed" =>
           s.claimed_amount + Claimable(s, t) >= s.total_amount,
         status = "Active" =>
           s.claimed_amount + Claimable(s, t) < s.total_amount
  PROVE  LET r == Paid(s, Claimable(s, t), status)
         IN  r \in Stream /\ Sound(r, t) /\ Terms(r) = Terms(s)
<1> DEFINE r == Paid(s, Claimable(s, t), status)
<1>1. Scheduled(s) /\ s.claimed_amount \in 0 .. s.total_amount
  BY DEF Sound
<1>2. /\ r.claimed_amount = s.claimed_amount + Claimable(s, t)
      /\ r.last_claim_time = t /\ r.status = status
      /\ r.sender = s.sender /\ r.recipient = s.recipient
      /\ r.token = s.token /\ r.total_amount = s.total_amount
      /\ r.start_time = s.start_time /\ r.end_time = s.end_time
  BY DEF Paid, Stream
<1>3. Claimable(s, t) \in Nat
  BY <1>1, ClaimableRange
<1>4. r \in Stream
  <2>1. s.claimed_amount + Claimable(s, t) \in Nat
    BY <1>3 DEF Stream
  <2>2. now \in Nat /\ status \in Statuses
    BY DEF Statuses
  <2> QED BY <2>1, <2>2, UpdatedType DEF Paid
<1> HIDE DEF r
<1>5. Accrued(r, t) = Accrued(s, t)
  BY <1>2, AccruedTerms
<1>6. r.claimed_amount = Accrued(s, t)
  BY <1>2, ClaimableUpToDate
<1>7. Accrued(s, t) \in 0 .. s.total_amount
  BY <1>1, AccruedRange
<1>8. Sound(r, t)
  BY <1>1, <1>2, <1>5, <1>6, <1>7 DEF Sound, Scheduled
<1>9. Terms(r) = Terms(s)
  BY <1>2 DEF Terms
<1> QED BY <1>4, <1>8, <1>9 DEF r

-----------------------------------------------------------------------------
(***************************************************************************)
(* Each step keeps the inductive invariant.                                *)
(***************************************************************************)
LEMMA InitIInv == Init => IInv
  BY PayrollAssumption DEF Init, IInv, TypeOK, AllSound, Unused, Ledgers

(***************************************************************************)
(* A transfer within the balance keeps the ledger a ledger.                *)
(***************************************************************************)
LEMMA TransferType ==
  ASSUME NEW ledger \in Ledgers(Tokens, Accounts), NEW token \in Tokens,
         NEW from \in Accounts, NEW to \in Accounts, NEW amount \in Nat,
         CanTransfer(ledger, token, from, amount)
  PROVE  Transfer(ledger, token, from, to, amount) \in Ledgers(Tokens, Accounts)
  BY DEF Transfer, CanTransfer, Ledgers

LEMMA ParamsType ==
  ASSUME NEW sender, NEW params \in CreateStreamParams, Valid(sender, params)
  PROVE  /\ params.recipient \in Accounts /\ params.token \in Tokens
         /\ params.total_amount \in Nat \ {0}
         /\ params.total_amount \in Amounts
         /\ params.start_time \in Nat /\ params.end_time \in Nat
         /\ params.start_time < params.end_time
<1>1. /\ params.recipient \in Accounts /\ params.token \in Tokens
      /\ params.total_amount \in Amounts
      /\ params.start_time \in Times /\ params.end_time \in Times
  BY DEF CreateStreamParams
<1>2. params.total_amount > 0 /\ params.end_time > params.start_time
  BY DEF Valid
<1>3. Amounts \subseteq Int /\ Times \subseteq Nat
  BY PayrollAssumption
<1>4. params.total_amount \in Int /\ params.total_amount > 0
  BY <1>1, <1>2, <1>3
<1>5. params.total_amount \in Nat \ {0}
  BY <1>4
<1>6. /\ params.start_time \in Nat /\ params.end_time \in Nat
      /\ params.start_time < params.end_time
  BY <1>1, <1>2, <1>3
<1> QED BY <1>1, <1>5, <1>6

LEMMA NewStreamSound ==
  ASSUME NEW sender \in Users, NEW params \in CreateStreamParams,
         Valid(sender, params), NEW t \in Nat
  PROVE  /\ NewStream(sender, params) \in Stream
         /\ Sound(NewStream(sender, params), t)
<1> DEFINE s == NewStream(sender, params)
<1>1. /\ params.recipient \in Accounts /\ params.token \in Tokens
      /\ params.total_amount \in Nat \ {0}
      /\ params.start_time \in Nat /\ params.end_time \in Nat
      /\ params.start_time < params.end_time
  BY ParamsType
<1>2. s \in Stream
  BY <1>1 DEF NewStream, Stream, Statuses
<1>3. /\ s.total_amount = params.total_amount /\ s.claimed_amount = 0
      /\ s.start_time = params.start_time /\ s.end_time = params.end_time
      /\ s.last_claim_time = params.start_time /\ s.status = "Active"
  BY DEF NewStream
<1> HIDE DEF s
<1>4. Scheduled(s)
  BY <1>1, <1>3 DEF Scheduled
<1>5. Accrued(s, s.start_time) = 0
  BY <1>4, AccruedRange DEF Scheduled
<1>6. Sound(s, t)
  BY <1>1, <1>3, <1>4, <1>5 DEF Sound
<1> QED BY <1>2, <1>6 DEF s

(***************************************************************************)
(* New sound streams under the next ids keep all streams sound.            *)
(***************************************************************************)
LEMMA AddedSound ==
  ASSUME IInv, NEW n \in Nat, NEW opened, stream_count + n <= MaxStreams,
         DOMAIN opened = stream_count .. (stream_count + n - 1),
         \A id \in DOMAIN opened :
           opened[id] \in Stream /\ Sound(opened[id], now),
         streams' = [id \in (DOMAIN streams) \cup (DOMAIN opened) |->
                       IF id \in DOMAIN streams THEN streams[id]
                                                ELSE opened[id]],
         stream_count' = stream_count + n,
         now' = now
  PROVE  /\ stream_count' \in 0 .. MaxStreams
         /\ streams' \in [0 .. (stream_count' - 1) -> Stream]
         /\ AllSound'
<1>1. /\ stream_count \in Nat /\ n \in Nat /\ MaxStreams \in Nat
      /\ DOMAIN streams = 0 .. (stream_count - 1)
      /\ \A id \in DOMAIN streams :
           streams[id] \in Stream /\ Sound(streams[id], now)
  BY PayrollAssumption DEF IInv, TypeOK, AllSound
<1>2. stream_count' \in 0 .. MaxStreams
  BY <1>1
<1>3. (DOMAIN streams) \cup (DOMAIN opened) = 0 .. (stream_count' - 1)
  BY <1>1
<1>4. \A id \in 0 .. (stream_count' - 1) :
        streams'[id] \in Stream /\ Sound(streams'[id], now)
  BY <1>1, <1>3
<1>5. DOMAIN streams' = 0 .. (stream_count' - 1)
  BY <1>3
<1>6. streams' \in [0 .. (stream_count' - 1) -> Stream]
  BY <1>3, <1>4
<1>7. AllSound'
  BY <1>4, <1>5 DEF AllSound, Sound
<1> QED BY <1>2, <1>6, <1>7

LEMMA CreateStreamIInv ==
  ASSUME IInv, NEW sender \in Users, NEW params \in CreateStreamParams,
         CreateStream(sender, params)
  PROVE  IInv'
<1> DEFINE opened == [id \in {stream_count} |-> NewStream(sender, params)]
<1>1. stream_count \in Nat /\ now \in Nat /\ MaxStreams \in Nat
      /\ stream_count < MaxStreams
  BY PayrollAssumption DEF IInv, TypeOK, CreateStream
<1>2. /\ NewStream(sender, params) \in Stream
      /\ Sound(NewStream(sender, params), now)
  BY <1>1, NewStreamSound DEF CreateStream
<1>3. /\ stream_count' \in 0 .. MaxStreams
      /\ streams' \in [0 .. (stream_count' - 1) -> Stream]
      /\ AllSound'
  <2>1. DOMAIN opened = stream_count .. (stream_count + 1 - 1)
    BY <1>1
  <2>2. \A id \in DOMAIN opened :
          opened[id] \in Stream /\ Sound(opened[id], now)
    BY <1>2
  <2>3. streams' = [id \in (DOMAIN streams) \cup (DOMAIN opened) |->
                      IF id \in DOMAIN streams THEN streams[id]
                                               ELSE opened[id]]
    BY DEF CreateStream
  <2>4. stream_count' = stream_count + 1 /\ now' = now
    BY DEF CreateStream
  <2>5. 1 \in Nat /\ stream_count + 1 <= MaxStreams
    BY <1>1
  <2> HIDE DEF opened
  <2> QED BY <2>1, <2>2, <2>3, <2>4, <2>5, AddedSound
<1>4. funds' \in Ledgers(Tokens, Accounts)
  <2>1. params.token \in Tokens /\ params.total_amount \in Nat
    BY ParamsType DEF CreateStream
  <2>2. funds \in Ledgers(Tokens, Accounts)
    BY DEF IInv, TypeOK
  <2>3. sender \in Accounts /\ Contract \in Accounts
    BY DEF Accounts
  <2>4. /\ CanTransfer(funds, params.token, sender, params.total_amount)
        /\ funds' = Transfer(funds, params.token, sender, Contract,
                             params.total_amount)
    BY DEF CreateStream
  <2> QED BY <2>1, <2>2, <2>3, <2>4, TransferType
<1>5. /\ DOMAIN sender_streams' = Users
      /\ DOMAIN recipient_streams' = Accounts
  BY DEF IInv, TypeOK, CreateStream
<1>6. /\ admin' = admin /\ now' = now /\ unbacked' = unbacked
      /\ admin # None
  BY DEF CreateStream
<1> QED BY <1>3, <1>4, <1>5, <1>6 DEF IInv, TypeOK, Unused

LEMMA BatchIInv ==
  ASSUME IInv, NEW sender \in Users, NEW n \in BatchSizes,
         NEW batch \in [1 .. n -> CreateStreamParams],
         CreateBatchStreams(sender, batch)
  PROVE  IInv'
<1> DEFINE opened == [id \in stream_count .. (stream_count + Len(batch) - 1) |->
                        NewStream(sender, batch[id - stream_count + 1])]
<1>1. /\ n \in Nat /\ Len(batch) = n
      /\ stream_count \in Nat /\ now \in Nat /\ MaxStreams \in Nat
      /\ stream_count + n <= MaxStreams
  <2>1. n \in Nat
    BY PayrollAssumption
  <2>2. Len(batch) = n
    BY <2>1
  <2> QED BY <2>1, <2>2, PayrollAssumption DEF IInv, TypeOK, CreateBatchStreams
<1>2. DOMAIN opened = stream_count .. (stream_count + n - 1)
  BY <1>1
<1>3. ASSUME NEW id \in DOMAIN opened
      PROVE  opened[id] \in Stream /\ Sound(opened[id], now)
  <2>1. id - stream_count + 1 \in 1 .. n
    BY <1>1, <1>2
  <2>2. /\ batch[id - stream_count + 1] \in CreateStreamParams
        /\ Valid(sender, batch[id - stream_count + 1])
    BY <2>1 DEF CreateBatchStreams
  <2>3. opened[id] = NewStream(sender, batch[id - stream_count + 1])
    OBVIOUS
  <2> QED BY <1>1, <2>2, <2>3, NewStreamSound
<1>4. /\ stream_count' \in 0 .. MaxStreams
      /\ streams' \in [0 .. (stream_count' - 1) -> Stream]
      /\ AllSound'
  <2>1. streams' = [id \in (DOMAIN streams) \cup (DOMAIN opened) |->
                      IF id \in DOMAIN streams THEN streams[id]
                                               ELSE opened[id]]
    BY DEF CreateBatchStreams
  <2>2. stream_count' = stream_count + n /\ now' = now
    BY <1>1 DEF CreateBatchStreams
  <2> HIDE DEF opened
  <2> QED BY <1>1, <1>2, <1>3, <2>1, <2>2, AddedSound
<1>5. unbacked' \in [Tokens -> Nat]
  <2>1. ASSUME NEW token \in Tokens
        PROVE  unbacked[token] + Total(AmountsIn(opened, token)) \in Nat
    <3> DEFINE f == AmountsIn(opened, token)
    <3>1. IsFiniteSet(DOMAIN f)
      BY <1>1, <1>2, FS_Interval DEF AmountsIn
    <3>2. f \in [DOMAIN f -> Nat]
      BY <1>3 DEF AmountsIn, Stream
    <3> HIDE DEF f
    <3>3. Total(f) \in Nat
      BY <3>1, <3>2, TotalType
    <3> QED BY <3>3 DEF f, IInv, TypeOK
  <2> QED BY <2>1 DEF CreateBatchStreams
<1>6. /\ DOMAIN sender_streams' = Users
      /\ DOMAIN recipient_streams' = Accounts
  BY DEF IInv, TypeOK, CreateBatchStreams
<1>7. /\ admin' = admin /\ now' = now /\ funds' = funds
      /\ admin # None
  BY DEF CreateBatchStreams
<1> QED BY <1>4, <1>5, <1>6, <1>7 DEF IInv, TypeOK, Unused

(***************************************************************************)
(* A payment from stream id leaves the other streams alone.                *)
(***************************************************************************)
LEMMA PaymentSound ==
  ASSUME IInv, NEW id \in DOMAIN streams, NEW status \in {"Active", "Cancelled", "Completed"},
         status = "Completed" =>
           streams[id].claimed_amount + Claimable(streams[id], now)
             >= streams[id].total_amount,
         status = "Active" =>
           streams[id].claimed_amount + Claimable(streams[id], now)
             < streams[id].total_amount,
         streams' = [streams EXCEPT ![id] =
                       Paid(streams[id], Claimable(streams[id], now), status)],
         stream_count' = stream_count, now' = now
  PROVE  streams' \in [0 .. (stream_count' - 1) -> Stream] /\ AllSound'
<1> DEFINE s == streams[id]
           r == Paid(s, Claimable(s, now), status)
<1>1. /\ DOMAIN streams = 0 .. (stream_count - 1) /\ now \in Nat
      /\ streams \in [DOMAIN streams -> Stream]
      /\ \A i \in DOMAIN streams : Sound(streams[i], now)
  BY PayrollAssumption DEF IInv, TypeOK, AllSound
<1>2. r \in Stream /\ Sound(r, now)
  <2>1. s \in Stream /\ Sound(s, now)
    BY <1>1
  <2>2. /\ status = "Completed" => s.claimed_amount + Claimable(s, now) >= s.total_amount
        /\ status = "Active" => s.claimed_amount + Claimable(s, now) < s.total_amount
    OBVIOUS
  <2> HIDE DEF s
  <2> QED BY <1>1, <2>1, <2>2, PaidSound
<1>3. streams' = [streams EXCEPT ![id] = r]
  OBVIOUS
<1> HIDE DEF r
<1>4. streams' \in [DOMAIN streams -> Stream]
  BY <1>1, <1>2, <1>3
<1>5. \A i \in DOMAIN streams' : Sound(streams'[i], now)
  BY <1>1, <1>2, <1>3
<1>6. AllSound'
  BY <1>5 DEF AllSound, Sound
<1> QED BY <1>1, <1>4, <1>6

(***************************************************************************)
(* The amounts of a payment and the parties of its stream have their types.*)
(***************************************************************************)
LEMMA PaymentType ==
  ASSUME IInv, NEW id \in DOMAIN streams
  PROVE  LET s == streams[id]
         IN  /\ s \in Stream /\ Sound(s, now) /\ now \in Nat
             /\ s.sender \in Accounts /\ s.recipient \in Accounts
             /\ s.token \in Tokens /\ Contract \in Accounts
             /\ Claimable(s, now) \in Nat /\ Refund(s, now) \in Nat
             /\ s.claimed_amount + Claimable(s, now) + Refund(s, now)
                  = s.total_amount
             /\ funds \in Ledgers(Tokens, Accounts)
<1> DEFINE s == streams[id]
<1>1. s \in Stream /\ Sound(s, now) /\ now \in Nat
  BY PayrollAssumption DEF IInv, TypeOK, AllSound
<1>2. funds \in Ledgers(Tokens, Accounts)
  BY DEF IInv, TypeOK
<1> HIDE DEF s
<1>3. /\ s.sender \in Accounts /\ s.recipient \in Accounts
      /\ s.token \in Tokens /\ Contract \in Accounts
  BY <1>1 DEF Stream, Accounts
<1>4. Scheduled(s) /\ s.claimed_amount \in 0 .. s.total_amount
  BY <1>1 DEF Sound
<1>5. /\ Claimable(s, now) \in Nat /\ Refund(s, now) \in Nat
      /\ s.claimed_amount + Claimable(s, now) + Refund(s, now) = s.total_amount
  BY <1>1, <1>4, ClaimableRange
<1> QED BY <1>1, <1>2, <1>3, <1>5 DEF s

LEMMA ClaimIInv ==
  ASSUME IInv, NEW recipient \in Users, NEW id \in DOMAIN streams,
         Claim(recipient, id)
  PROVE  IInv'
<1> DEFINE s == streams[id]
           claimable == Claimable(s, now)
           status == IF s.claimed_amount + claimable >= s.total_amount
                     THEN "Completed" ELSE s.status
<1>1. /\ s \in Stream /\ Sound(s, now) /\ now \in Nat
      /\ s.recipient \in Accounts /\ s.token \in Tokens
      /\ Contract \in Accounts /\ claimable \in Nat
      /\ funds \in Ledgers(Tokens, Accounts)
  BY PaymentType
<1>2. /\ s.recipient = recipient /\ ~Settled(s)
      /\ CanTransfer(funds, s.token, Contract, claimable)
      /\ funds' = Transfer(funds, s.token, Contract, recipient, claimable)
      /\ streams' = [streams EXCEPT ![id] = Paid(s, claimable, status)]
  BY DEF Claim
<1>3. /\ admin' = admin /\ stream_count' = stream_count /\ now' = now
      /\ sender_streams' = sender_streams
      /\ recipient_streams' = recipient_streams /\ unbacked' = unbacked
  BY DEF Claim
<1>4. funds' \in Ledgers(Tokens, Accounts)
  BY <1>1, <1>2, TransferType
<1>5. /\ status \in {"Active", "Cancelled", "Completed"}
      /\ status = "Completed" => s.claimed_amount + claimable >= s.total_amount
      /\ status = "Active" => s.claimed_amount + claimable < s.total_amount
  <2>1. s.status = "Active"
    BY <1>1, <1>2 DEF Sound, Settled
  <2>2. s.claimed_amount \in Nat /\ s.total_amount \in Nat
    BY <1>1 DEF Stream
  <2> HIDE DEF claimable
  <2> QED BY <1>1, <2>1, <2>2
<1>6. streams' \in [0 .. (stream_count' - 1) -> Stream] /\ AllSound'
  <2> HIDE DEF status
  <2> QED BY <1>2, <1>3, <1>5, PaymentSound
<1> QED BY <1>3, <1>4, <1>6 DEF IInv, TypeOK, Unused

LEMMA CancelIInv ==
  ASSUME IInv, NEW sender \in Users, NEW id \in DOMAIN streams,
         CancelStream(sender, id)
  PROVE  IInv'
<1> DEFINE s == streams[id]
           claimable == Claimable(s, now)
           refund == Refund(s, now)
           paidOut == Transfer(funds, s.token, Contract, s.recipient, claimable)
<1>1. /\ s.sender \in Accounts /\ s.recipient \in Accounts
      /\ s.token \in Tokens /\ Contract \in Accounts
      /\ claimable \in Nat /\ refund \in Nat
      /\ funds \in Ledgers(Tokens, Accounts)
  BY PaymentType
<1>2. /\ s.sender = sender
      /\ CanTransfer(funds, s.token, Contract, claimable)
      /\ CanTransfer(paidOut, s.token, Contract, refund)
      /\ funds' = Transfer(paidOut, s.token, Contract, sender, refund)
      /\ streams' = [streams EXCEPT ![id] = Paid(s, claimable, "Cancelled")]
  BY DEF CancelStream
<1>3. /\ admin' = admin /\ stream_count' = stream_count /\ now' = now
      /\ sender_streams' = sender_streams
      /\ recipient_streams' = recipient_streams /\ unbacked' = unbacked
  BY DEF CancelStream
<1>4. paidOut \in Ledgers(Tokens, Accounts)
  BY <1>1, <1>2, TransferType
<1>5. funds' \in Ledgers(Tokens, Accounts)
  <2> HIDE DEF paidOut, refund
  <2> QED BY <1>1, <1>2, <1>4, TransferType
<1>6. streams' \in [0 .. (stream_count' - 1) -> Stream] /\ AllSound'
  BY <1>2, <1>3, PaymentSound
<1> QED BY <1>3, <1>5, <1>6 DEF IInv, TypeOK, Unused

LEMMA TickIInv ==
  ASSUME IInv, Tick
  PROVE  IInv'
<1>1. /\ now \in Nat /\ MaxTime \in Nat /\ now' = now + 1 /\ now' \in 0 .. MaxTime
  BY PayrollAssumption DEF IInv, TypeOK, Tick
<1>2. AllSound'
  <2>1. ASSUME NEW id \in DOMAIN streams
        PROVE  Sound(streams[id], now + 1)
    <3> DEFINE s == streams[id]
    <3>1. Sound(s, now)
      BY DEF IInv, AllSound
    <3> HIDE DEF s
    <3>2. Sound(s, now + 1)
      BY <1>1, <3>1 DEF Sound
    <3> QED BY <3>2 DEF s
  <2>2. streams' = streams
    BY DEF Tick, records
  <2> QED BY <1>1, <2>1, <2>2 DEF AllSound, Sound
<1> QED BY <1>1, <1>2 DEF IInv, TypeOK, Unused, Tick, records

LEMMA NextIInv == IInv /\ [Next]_vars => IInv'
<1> SUFFICES ASSUME IInv, [Next]_vars
             PROVE  IInv'
  OBVIOUS
<1>1. ASSUME NEW caller \in Users, Initialize(caller)
      PROVE  IInv'
  <2>1. stream_count' = 0 /\ stream_count = 0 /\ MaxStreams \in Nat
    BY <1>1, PayrollAssumption DEF IInv, Unused, Initialize
  <2> QED BY <1>1, <2>1 DEF Initialize, IInv, TypeOK, AllSound, Unused, Sound
<1>2. ASSUME NEW sender \in Users, NEW params \in CreateStreamParams,
             CreateStream(sender, params)
      PROVE  IInv'
  BY <1>2, CreateStreamIInv
<1>3. CASE BatchStep
  BY <1>3, BatchIInv DEF BatchStep
<1>4. ASSUME NEW recipient \in Users, NEW id \in DOMAIN streams,
             Claim(recipient, id)
      PROVE  IInv'
  BY <1>4, ClaimIInv
<1>5. ASSUME NEW sender \in Users, NEW id \in DOMAIN streams,
             CancelStream(sender, id)
      PROVE  IInv'
  BY <1>5, CancelIInv
<1>6. CASE Tick
  BY <1>6, TickIInv
<1>7. CASE GiveStep
  <2>1. PICK token \in Tokens, from \in Users, to \in Accounts,
             amount \in Gifts : Give(token, from, to, amount)
    BY <1>7 DEF GiveStep
  <2>2. amount \in Nat /\ from \in Accounts
    BY PayrollAssumption DEF Accounts
  <2>3. funds \in Ledgers(Tokens, Accounts)
    BY DEF IInv, TypeOK
  <2>4. funds' \in Ledgers(Tokens, Accounts)
    BY <2>1, <2>2, <2>3, TransferType DEF Give
  <2> QED BY <2>1, <2>4 DEF Give, records, IInv, TypeOK, AllSound, Unused, Sound
<1>8. CASE UNCHANGED vars
  BY <1>8 DEF vars, records, IInv, TypeOK, AllSound, Unused, Sound
<1> QED BY <1>1, <1>2, <1>3, <1>4, <1>5, <1>6, <1>7, <1>8 DEF Next

-----------------------------------------------------------------------------
LEMMA Invariance == Spec => []IInv
<1>1. Init => IInv
  BY InitIInv
<1>2. IInv /\ [Next]_vars => IInv'
  BY NextIInv
<1> QED BY <1>1, <1>2, PTL DEF Spec

(***************************************************************************)
(* The variables keep their types.                                         *)
(***************************************************************************)
THEOREM TypeCorrect == Spec => []TypeOK
<1>1. IInv => TypeOK
  BY DEF IInv
<1> QED BY <1>1, Invariance, PTL

(***************************************************************************)
(* A stream has paid exactly what had accrued at its last payment, however *)
(* the amounts and times were rounded and whoever made the payments.       *)
(***************************************************************************)
THEOREM Exactness == Spec => []ClaimedIsAccrued
<1>1. IInv => ClaimedIsAccrued
  BY DEF IInv, AllSound, Sound, ClaimedIsAccrued
<1> QED BY <1>1, Invariance, PTL

(***************************************************************************)
(* No stream is Completed, and none is fully paid, before its end.         *)
(***************************************************************************)
THEOREM Completion == Spec => []CompletedAtEnd
<1>1. IInv => CompletedAtEnd
  <2> SUFFICES ASSUME IInv, NEW id \in DOMAIN streams
               PROVE  LET s == streams[id]
                      IN /\ s.status \in {"Active", "Cancelled", "Completed"}
                         /\ s.status = "Completed" => s.claimed_amount = s.total_amount
                         /\ s.status = "Active" => s.claimed_amount < s.total_amount
                         /\ s.claimed_amount = s.total_amount => s.end_time <= now
    BY DEF CompletedAtEnd
  <2> DEFINE s == streams[id]
  <2>1. Sound(s, now) /\ now \in Nat
    BY PayrollAssumption DEF IInv, AllSound, TypeOK
  <2> HIDE DEF s
  <2>2. s.claimed_amount = s.total_amount => s.end_time <= now
    <3> SUFFICES ASSUME s.claimed_amount = s.total_amount
                 PROVE  s.end_time <= now
      OBVIOUS
    <3>1. Scheduled(s) /\ s.last_claim_time \in Nat
      BY <2>1 DEF Sound
    <3>2. Accrued(s, s.last_claim_time) = s.total_amount
      BY <2>1 DEF Sound
    <3>3. s.end_time <= s.last_claim_time
      BY <3>1, <3>2, AccruedRange DEF Scheduled
    <3>4. s.last_claim_time <= now
      BY <2>1, <3>1, <3>3 DEF Sound, Scheduled
    <3> QED BY <2>1, <3>1, <3>3, <3>4 DEF Scheduled
  <2> QED BY <2>1, <2>2 DEF s, Sound
<1> QED BY <1>1, Invariance, PTL

(***************************************************************************)
(* All that a stream still holds can be claimed once it has ended.         *)
(***************************************************************************)
THEOREM NothingStaysBehind == Spec => []AllClaimableAtEnd
<1>1. IInv => AllClaimableAtEnd
  <2> SUFFICES ASSUME IInv, NEW id \in DOMAIN streams,
                      streams[id].end_time <= now
               PROVE  Claimable(streams[id], now)
                        = streams[id].total_amount - streams[id].claimed_amount
    BY DEF AllClaimableAtEnd
  <2> DEFINE s == streams[id]
  <2>1. Sound(s, now) /\ now \in Nat /\ s.end_time <= now
    BY PayrollAssumption DEF IInv, AllSound, TypeOK
  <2> HIDE DEF s
  <2>2. Scheduled(s) /\ s.claimed_amount \in 0 .. s.total_amount
    BY <2>1 DEF Sound
  <2>3. Accrued(s, now) = s.total_amount
    BY <2>1, <2>2, AccruedAtEnd
  <2>4. Claimable(s, now) = s.total_amount - s.claimed_amount
    BY <2>2, <2>3 DEF Claimable, Scheduled
  <2> QED BY <2>4 DEF s
<1> QED BY <1>1, Invariance, PTL

(***************************************************************************)
(* No step changes the terms of a stream, takes back a payment or touches  *)
(* a settled stream.                                                       *)
(***************************************************************************)
LEMMA UnchangedKept ==
  ASSUME IInv, \A id \in DOMAIN streams :
                 id \in DOMAIN streams' /\ streams'[id] = streams[id]
  PROVE  AllKept
<1> SUFFICES ASSUME NEW id \in DOMAIN streams
             PROVE  id \in DOMAIN streams' /\ Kept(streams[id], streams'[id])
  BY DEF AllKept
<1>1. streams[id].claimed_amount \in Nat
  BY DEF IInv, TypeOK, Stream
<1> QED BY <1>1 DEF Kept

LEMMA PaymentKept ==
  ASSUME IInv, NEW id \in DOMAIN streams, NEW status,
         status \in {"Active", "Cancelled", "Completed"},
         ~Settled(streams[id]),
         streams' = [streams EXCEPT ![id] =
                       Paid(streams[id], Claimable(streams[id], now), status)]
  PROVE  AllKept
<1> DEFINE s == streams[id]
           r == Paid(s, Claimable(s, now), status)
<1>1. /\ s \in Stream /\ Claimable(s, now) \in Nat
  BY PaymentType
<1>2. Kept(s, r)
  <2>1. Terms(r) = Terms(s)
    BY <1>1 DEF Paid, Terms, Stream
  <2>2. r.claimed_amount >= s.claimed_amount
    <3>1. r.claimed_amount = s.claimed_amount + Claimable(s, now)
      BY <1>1 DEF Paid, Stream
    <3>2. s.claimed_amount \in Nat
      BY <1>1 DEF Stream
    <3> HIDE DEF r, s
    <3> QED BY <1>1, <3>1, <3>2
  <2>3. s.status \notin {"Cancelled", "Completed"}
    BY DEF Settled
  <2> QED BY <2>1, <2>2, <2>3 DEF Kept
<1> SUFFICES ASSUME NEW i \in DOMAIN streams
             PROVE  i \in DOMAIN streams' /\ Kept(streams[i], streams'[i])
  BY DEF AllKept
<1>3. i \in DOMAIN streams'
  OBVIOUS
<1>4. CASE i = id
  <2>1. streams'[i] = r
    BY <1>4
  <2> QED BY <1>2, <1>3, <1>4, <2>1
<1>5. CASE i # id
  <2>1. streams'[i] = streams[i]
    BY <1>5
  <2>2. streams[i].claimed_amount \in Nat
    BY DEF IInv, TypeOK, Stream
  <2> QED BY <1>3, <2>1, <2>2 DEF Kept
<1> QED BY <1>4, <1>5

LEMMA NextKept == IInv /\ [Next]_vars => [AllKept]_vars
<1> SUFFICES ASSUME IInv, Next
             PROVE  AllKept
  OBVIOUS
<1>1. ASSUME NEW caller \in Users, Initialize(caller)
      PROVE  AllKept
  BY <1>1, UnchangedKept DEF Initialize
<1>2. ASSUME NEW sender \in Users, NEW params \in CreateStreamParams,
             CreateStream(sender, params)
      PROVE  AllKept
  <2>1. \A id \in DOMAIN streams :
          id \in DOMAIN streams' /\ streams'[id] = streams[id]
    BY <1>2 DEF CreateStream
  <2> QED BY <2>1, UnchangedKept
<1>3. ASSUME NEW sender \in Users, NEW batch, CreateBatchStreams(sender, batch)
      PROVE  AllKept
  <2>1. \A id \in DOMAIN streams :
          id \in DOMAIN streams' /\ streams'[id] = streams[id]
    BY <1>3 DEF CreateBatchStreams
  <2> QED BY <2>1, UnchangedKept
<1>4. ASSUME NEW recipient \in Users, NEW id \in DOMAIN streams,
             Claim(recipient, id)
      PROVE  AllKept
  <2> DEFINE s == streams[id]
             status == IF s.claimed_amount + Claimable(s, now) >= s.total_amount
                       THEN "Completed" ELSE s.status
  <2>1. /\ ~Settled(s)
        /\ streams' = [streams EXCEPT ![id] = Paid(s, Claimable(s, now), status)]
    BY <1>4 DEF Claim
  <2>2. status \in {"Active", "Cancelled", "Completed"}
    BY DEF IInv, AllSound, Sound
  <2> HIDE DEF status
  <2> QED BY <2>1, <2>2, PaymentKept
<1>5. ASSUME NEW sender \in Users, NEW id \in DOMAIN streams,
             CancelStream(sender, id)
      PROVE  AllKept
  BY <1>5, PaymentKept DEF CancelStream
<1>6. CASE Tick
  BY <1>6, UnchangedKept DEF Tick, records
<1>7. CASE GiveStep
  BY <1>7, UnchangedKept DEF GiveStep, Give, records
<1> QED BY <1>1, <1>2, <1>3, <1>4, <1>5, <1>6, <1>7 DEF Next, BatchStep

THEOREM Agreement == Spec => AgreementKept
<1>1. IInv /\ [Next]_vars => [AllKept]_vars
  BY NextKept
<1> QED BY <1>1, Invariance, PTL DEF Spec, AgreementKept

-----------------------------------------------------------------------------
(***************************************************************************)
(* The indexes.  A step that adds no stream leaves them alone; a step that *)
(* adds streams appends to each list the new ids that belong on it.        *)
(***************************************************************************)
Indexed ==
  /\ sender_streams \in [Users -> Seq(Nat)]
  /\ recipient_streams \in [Accounts -> Seq(Nat)]
  /\ IndexesExact

SentBy(ss, u) == {id \in DOMAIN ss : ss[id].sender = u}

ReceivedBy(ss, a) == {id \in DOMAIN ss : ss[id].recipient = a}

LEMMA IndexedSets ==
  Indexed <=>
    /\ sender_streams \in [Users -> Seq(Nat)]
    /\ recipient_streams \in [Accounts -> Seq(Nat)]
    /\ \A u \in Users : Enumerates(sender_streams[u], SentBy(streams, u))
    /\ \A a \in Accounts :
         Enumerates(recipient_streams[a], ReceivedBy(streams, a))
  BY DEF Indexed, IndexesExact, SentBy, ReceivedBy

LEMMA SameIndexed ==
  ASSUME Indexed, DOMAIN streams' = DOMAIN streams,
         \A id \in DOMAIN streams : Terms(streams'[id]) = Terms(streams[id]),
         sender_streams' = sender_streams,
         recipient_streams' = recipient_streams
  PROVE  Indexed'
<1>1. \A id \in DOMAIN streams : /\ streams'[id].sender = streams[id].sender
                                 /\ streams'[id].recipient = streams[id].recipient
  BY DEF Terms
<1>2. \A u \in Users : SentBy(streams, u)' = SentBy(streams, u)
  BY <1>1 DEF SentBy
<1>3. \A a \in Accounts : ReceivedBy(streams, a)' = ReceivedBy(streams, a)
  BY <1>1 DEF ReceivedBy
<1>4. /\ \A u \in Users : Enumerates(sender_streams'[u], SentBy(streams, u)')
      /\ \A a \in Accounts :
           Enumerates(recipient_streams'[a], ReceivedBy(streams, a)')
  BY <1>2, <1>3, IndexedSets
<1> QED BY <1>4 DEF Indexed, IndexesExact, SentBy, ReceivedBy, Enumerates, Elements

LEMMA AddedIndexed ==
  ASSUME IInv, Indexed, NEW opened,
         \A id \in DOMAIN opened : id \in Nat /\ id >= stream_count,
         streams' = [id \in (DOMAIN streams) \cup (DOMAIN opened) |->
                       IF id \in DOMAIN streams THEN streams[id]
                                                ELSE opened[id]],
         NEW ms \in [Users -> Seq(Nat)], NEW mr \in [Accounts -> Seq(Nat)],
         \A u \in Users : Enumerates(ms[u], SentBy(opened, u)),
         \A a \in Accounts : Enumerates(mr[a], ReceivedBy(opened, a)),
         sender_streams' = [u \in Users |-> sender_streams[u] \o ms[u]],
         recipient_streams' =
           [a \in Accounts |-> recipient_streams[a] \o mr[a]]
  PROVE  Indexed'
<1>1. /\ \A id \in DOMAIN streams : id \in Nat /\ id < stream_count
      /\ stream_count \in Nat
  BY DEF IInv, TypeOK
<1>2. /\ \A id \in DOMAIN streams : id \notin DOMAIN opened
      /\ \A id \in DOMAIN streams : streams'[id] = streams[id]
      /\ \A id \in DOMAIN opened : streams'[id] = opened[id]
      /\ DOMAIN streams' = (DOMAIN streams) \cup (DOMAIN opened)
  BY <1>1
<1>3. ASSUME NEW u \in Users
      PROVE  /\ sender_streams'[u] \in Seq(Nat)
             /\ Enumerates(sender_streams'[u], SentBy(streams, u)')
  <2>1. SentBy(streams, u)' = SentBy(streams, u) \cup SentBy(opened, u)
    BY <1>2 DEF SentBy
  <2>2. \A x \in SentBy(streams, u), y \in SentBy(opened, u) : x < y
    BY <1>1 DEF SentBy
  <2>3. /\ sender_streams[u] \in Seq(Nat) /\ ms[u] \in Seq(Nat)
        /\ Enumerates(sender_streams[u], SentBy(streams, u))
        /\ Enumerates(ms[u], SentBy(opened, u))
    BY IndexedSets
  <2>4. /\ sender_streams[u] \o ms[u] \in Seq(Nat)
        /\ Enumerates(sender_streams[u] \o ms[u],
                      SentBy(streams, u) \cup SentBy(opened, u))
    BY <2>2, <2>3, EnumeratesJoined
  <2> QED BY <2>1, <2>4
<1>4. ASSUME NEW a \in Accounts
      PROVE  /\ recipient_streams'[a] \in Seq(Nat)
             /\ Enumerates(recipient_streams'[a], ReceivedBy(streams, a)')
  <2>1. ReceivedBy(streams, a)' = ReceivedBy(streams, a) \cup ReceivedBy(opened, a)
    BY <1>2 DEF ReceivedBy
  <2>2. \A x \in ReceivedBy(streams, a), y \in ReceivedBy(opened, a) : x < y
    BY <1>1 DEF ReceivedBy
  <2>3. /\ recipient_streams[a] \in Seq(Nat) /\ mr[a] \in Seq(Nat)
        /\ Enumerates(recipient_streams[a], ReceivedBy(streams, a))
        /\ Enumerates(mr[a], ReceivedBy(opened, a))
    BY IndexedSets
  <2>4. /\ recipient_streams[a] \o mr[a] \in Seq(Nat)
        /\ Enumerates(recipient_streams[a] \o mr[a],
                      ReceivedBy(streams, a) \cup ReceivedBy(opened, a))
    BY <2>2, <2>3, EnumeratesJoined
  <2> QED BY <2>1, <2>4
<1>5. /\ sender_streams' \in [Users -> Seq(Nat)]
      /\ recipient_streams' \in [Accounts -> Seq(Nat)]
  BY <1>3, <1>4
<1> QED BY <1>3, <1>4, <1>5
        DEF Indexed, IndexesExact, SentBy, ReceivedBy, Enumerates, Elements

LEMMA CreateStreamIndexed ==
  ASSUME IInv, Indexed, NEW sender \in Users,
         NEW params \in CreateStreamParams, CreateStream(sender, params)
  PROVE  Indexed'
<1> DEFINE opened == [id \in {stream_count} |-> NewStream(sender, params)]
           One(mine) == IF mine THEN <<stream_count>> ELSE <<>>
           ms == [u \in Users |-> One(u = sender)]
           mr == [a \in Accounts |-> One(a = params.recipient)]
<1>1. stream_count \in Nat /\ params.recipient \in Accounts
  BY ParamsType DEF IInv, TypeOK, CreateStream
<1>2. \A id \in DOMAIN opened : id \in Nat /\ id >= stream_count
  BY <1>1
<1>3. /\ SentBy(opened, sender) = {stream_count}
      /\ \A u \in Users : u # sender => SentBy(opened, u) = {}
      /\ ReceivedBy(opened, params.recipient) = {stream_count}
      /\ \A a \in Accounts :
           a # params.recipient => ReceivedBy(opened, a) = {}
  BY DEF SentBy, ReceivedBy, NewStream
<1>4. /\ <<stream_count>> \in Seq(Nat) /\ <<>> \in Seq(Nat)
      /\ Enumerates(<<stream_count>>, {stream_count}) /\ Enumerates(<<>>, {})
  BY <1>1 DEF Enumerates, Elements
<1>5. /\ ms \in [Users -> Seq(Nat)] /\ mr \in [Accounts -> Seq(Nat)]
      /\ \A u \in Users : Enumerates(ms[u], SentBy(opened, u))
      /\ \A a \in Accounts : Enumerates(mr[a], ReceivedBy(opened, a))
  <2> HIDE DEF opened
  <2> QED BY <1>3, <1>4
<1>6. /\ sender_streams \in [Users -> Seq(Nat)]
      /\ recipient_streams \in [Accounts -> Seq(Nat)]
  BY DEF Indexed
<1>7. /\ sender_streams' = [u \in Users |-> sender_streams[u] \o ms[u]]
      /\ recipient_streams' = [a \in Accounts |-> recipient_streams[a] \o mr[a]]
  <2>1. /\ sender_streams' =
             [sender_streams EXCEPT ![sender] = Append(@, stream_count)]
        /\ recipient_streams' =
             [recipient_streams EXCEPT ![params.recipient] =
                Append(@, stream_count)]
    BY DEF CreateStream
  <2>2. \A l \in Seq(Nat) : l \o <<>> = l /\ Append(l, stream_count) = l \o <<stream_count>>
    BY <1>1
  <2> QED BY <1>6, <2>1, <2>2
<1>8. streams' = [id \in (DOMAIN streams) \cup (DOMAIN opened) |->
                    IF id \in DOMAIN streams THEN streams[id] ELSE opened[id]]
  BY DEF CreateStream
<1> HIDE DEF opened, ms, mr
<1> QED BY <1>2, <1>5, <1>7, <1>8, AddedIndexed

LEMMA BatchIndexed ==
  ASSUME IInv, Indexed, NEW sender \in Users, NEW n \in BatchSizes,
         NEW batch \in [1 .. n -> CreateStreamParams],
         CreateBatchStreams(sender, batch)
  PROVE  Indexed'
<1> DEFINE ids == [k \in 1 .. Len(batch) |-> stream_count + k - 1]
           opened == [id \in stream_count .. (stream_count + Len(batch) - 1) |->
                        NewStream(sender, batch[id - stream_count + 1])]
           To(a) == {k \in DOMAIN batch : batch[k].recipient = a}
           ms == [u \in Users |-> IF u = sender THEN ids ELSE <<>>]
           mr == [a \in Accounts |-> IdsTo(ids, batch, a)]
<1>1. n \in Nat /\ Len(batch) = n /\ stream_count \in Nat
  <2>1. n \in Nat
    BY PayrollAssumption
  <2> QED BY <2>1 DEF IInv, TypeOK
<1>2. \A id \in DOMAIN opened : id \in Nat /\ id >= stream_count
  BY <1>1
<1>3. ids \in Seq(Nat) /\ Len(ids) = n /\ DOMAIN ids = 1 .. n
  BY <1>1
<1>4. /\ \A k \in 1 .. n : ids[k] \in DOMAIN opened
                             /\ opened[ids[k]] = NewStream(sender, batch[k])
      /\ \A id \in DOMAIN opened : id - stream_count + 1 \in 1 .. n
                                     /\ ids[id - stream_count + 1] = id
      /\ \A j, k \in 1 .. n : j < k => ids[j] < ids[k]
  BY <1>1
<1>5. /\ \A id \in DOMAIN opened : opened[id].sender = sender
      /\ \A k \in 1 .. n : opened[ids[k]].recipient = batch[k].recipient
  BY <1>4 DEF NewStream
<1> HIDE DEF ids, opened
<1>6. Enumerates(ids, DOMAIN opened)
  BY <1>3, <1>4 DEF Enumerates, Elements
<1>7. /\ SentBy(opened, sender) = DOMAIN opened
      /\ \A u \in Users : u # sender => SentBy(opened, u) = {}
  BY <1>5 DEF SentBy
<1>8. /\ ms \in [Users -> Seq(Nat)]
      /\ \A u \in Users : Enumerates(ms[u], SentBy(opened, u))
  <2>1. <<>> \in Seq(Nat) /\ Enumerates(<<>>, {})
    BY DEF Enumerates, Elements
  <2> QED BY <1>3, <1>6, <1>7, <2>1
<1>9. ASSUME NEW a \in Accounts
      PROVE  IdsTo(ids, batch, a) \in Seq(Nat)
               /\ Enumerates(IdsTo(ids, batch, a), ReceivedBy(opened, a))
  <2>1. To(a) \subseteq 1 .. Len(ids)
    BY <1>3
  <2>2. /\ Selected(ids, To(a)) \in Seq(Nat)
        /\ Enumerates(Selected(ids, To(a)), {ids[k] : k \in To(a)})
    <3> HIDE DEF To
    <3> QED BY <1>3, <1>6, <2>1, EnumeratesSelected
  <2>3. {ids[k] : k \in To(a)} = ReceivedBy(opened, a)
    <3>1. ASSUME NEW k \in To(a)
          PROVE  ids[k] \in ReceivedBy(opened, a)
      BY <1>4, <1>5 DEF ReceivedBy
    <3>2. ASSUME NEW id \in ReceivedBy(opened, a)
          PROVE  \E k \in To(a) : ids[k] = id
      <4> DEFINE k == id - stream_count + 1
      <4>1. k \in 1 .. n /\ ids[k] = id /\ id \in DOMAIN opened
        BY <1>4 DEF ReceivedBy
      <4> HIDE DEF k
      <4>2. batch[k].recipient = a
        BY <1>5, <4>1 DEF ReceivedBy
      <4> QED BY <4>1, <4>2
    <3> QED BY <3>1, <3>2
  <2> QED BY <2>2, <2>3 DEF IdsTo
<1>10. /\ mr \in [Accounts -> Seq(Nat)]
       /\ \A a \in Accounts : Enumerates(mr[a], ReceivedBy(opened, a))
  BY <1>9
<1>11. /\ sender_streams' = [u \in Users |-> sender_streams[u] \o ms[u]]
       /\ recipient_streams' = [a \in Accounts |-> recipient_streams[a] \o mr[a]]
  <2>1. /\ sender_streams' = [sender_streams EXCEPT ![sender] = @ \o ids]
        /\ recipient_streams' =
             [a \in Accounts |-> recipient_streams[a] \o IdsTo(ids, batch, a)]
    BY DEF CreateBatchStreams, ids
  <2>2. sender_streams \in [Users -> Seq(Nat)]
    BY DEF Indexed
  <2>3. \A l \in Seq(Nat) : l \o <<>> = l
    OBVIOUS
  <2> QED BY <2>1, <2>2, <2>3
<1>12. streams' = [id \in (DOMAIN streams) \cup (DOMAIN opened) |->
                     IF id \in DOMAIN streams THEN streams[id] ELSE opened[id]]
  BY DEF CreateBatchStreams, opened
<1> HIDE DEF ms, mr
<1> QED BY <1>2, <1>8, <1>10, <1>11, <1>12, AddedIndexed

LEMMA PaymentIndexed ==
  ASSUME IInv, Indexed, NEW id \in DOMAIN streams, NEW claimable, NEW status,
         streams' = [streams EXCEPT ![id] = Paid(streams[id], claimable, status)],
         sender_streams' = sender_streams,
         recipient_streams' = recipient_streams
  PROVE  Indexed'
<1>1. streams[id] \in Stream
  BY DEF IInv, TypeOK
<1>2. Terms(Paid(streams[id], claimable, status)) = Terms(streams[id])
  BY <1>1 DEF Paid, Terms, Stream
<1>3. \A i \in DOMAIN streams : Terms(streams'[i]) = Terms(streams[i])
  BY <1>2
<1>4. DOMAIN streams' = DOMAIN streams
  OBVIOUS
<1> QED BY <1>3, <1>4, SameIndexed

LEMMA NextIndexed == IInv /\ Indexed /\ [Next]_vars => Indexed'
<1> SUFFICES ASSUME IInv, Indexed, [Next]_vars
             PROVE  Indexed'
  OBVIOUS
<1>1. ASSUME UNCHANGED <<streams, sender_streams, recipient_streams>>
      PROVE  Indexed'
  BY <1>1, SameIndexed
<1>2. ASSUME NEW caller \in Users, Initialize(caller)
      PROVE  Indexed'
  BY <1>1, <1>2 DEF Initialize
<1>3. ASSUME NEW sender \in Users, NEW params \in CreateStreamParams,
             CreateStream(sender, params)
      PROVE  Indexed'
  BY <1>3, CreateStreamIndexed
<1>4. CASE BatchStep
  BY <1>4, BatchIndexed DEF BatchStep
<1>5. ASSUME NEW recipient \in Users, NEW id \in DOMAIN streams,
             Claim(recipient, id)
      PROVE  Indexed'
  <2>1. PICK status : streams' = [streams EXCEPT ![id] =
                        Paid(streams[id], Claimable(streams[id], now), status)]
    BY <1>5 DEF Claim
  <2> QED BY <1>5, <2>1, PaymentIndexed DEF Claim
<1>6. ASSUME NEW sender \in Users, NEW id \in DOMAIN streams,
             CancelStream(sender, id)
      PROVE  Indexed'
  BY <1>6, PaymentIndexed DEF CancelStream
<1>7. CASE Tick
  BY <1>1, <1>7 DEF Tick, records
<1>8. CASE GiveStep
  BY <1>1, <1>8 DEF GiveStep, Give, records
<1>9. CASE UNCHANGED vars
  BY <1>1, <1>9 DEF vars, records
<1> QED BY <1>2, <1>3, <1>4, <1>5, <1>6, <1>7, <1>8, <1>9 DEF Next

(***************************************************************************)
(* The lookups by sender and by recipient return every stream of theirs    *)
(* once, oldest first, whether it was created singly or in a batch.        *)
(***************************************************************************)
THEOREM Lookups == Spec => []IndexesExact
<1>1. Init => Indexed
  BY DEF Init, Indexed, IndexesExact, Enumerates, Elements
<1>2. IInv /\ Indexed /\ [Next]_vars => Indexed'
  BY NextIndexed
<1>3. Indexed => IndexesExact
  BY DEF Indexed
<1> QED BY <1>1, <1>2, <1>3, Invariance, PTL DEF Spec

-----------------------------------------------------------------------------
(***************************************************************************)
(* payroll_stream moves money only as an escrow does, for any users,       *)
(* tokens, amounts and times; and with that it inherits what is proved of  *)
(* escrows: its balance backs what its streams have yet to pay.            *)
(***************************************************************************)


(***************************************************************************)
(* The operators of the escrow's modules, as instantiated, are ours.       *)
(***************************************************************************)
LEMMA TransferIsOurs ==
  ASSUME NEW ledger, NEW token, NEW from, NEW to, NEW amount
  PROVE  /\ E!Transfer(ledger, token, from, to, amount)
              = Transfer(ledger, token, from, to, amount)
         /\ E!CanTransfer(ledger, token, from, amount)
              <=> CanTransfer(ledger, token, from, amount)
  BY DEF Transfer, E!Transfer, CanTransfer, E!CanTransfer

LEMMA TotalIsOurs ==
  ASSUME NEW f
  PROVE  E!Total(f) = Total(f)
  BY DEF Total, E!Total, Units, E!Units, UnitsAt, E!UnitsAt, Cardinality, E!Cardinality

LEMMA TransferNothing ==
  ASSUME NEW ledger \in Ledgers(Tokens, Accounts), NEW token \in Tokens,
         NEW from \in Accounts, NEW to \in Accounts
  PROVE  Transfer(ledger, token, from, to, 0) = ledger
  BY DEF Transfer, Ledgers

LEMMA InitSimulates == Init => E!Init
  BY DEF Init, E!Init, Deals

-----------------------------------------------------------------------------
(***************************************************************************)
(* A new stream is a new deal that holds its whole amount.                 *)
(***************************************************************************)
OpenDeal == [payer : Accounts \ {Contract}, payee : Accounts, token : Tokens,
             held : {amount \in Amounts : amount > 0}]

LEMMA NewDeal ==
  ASSUME NEW sender \in Users, NEW params \in CreateStreamParams,
         Valid(sender, params)
  PROVE  LET s == NewStream(sender, params)
         IN  /\ DealOf(s) \in OpenDeal
             /\ DealOf(s).payer = sender /\ DealOf(s).token = params.token
             /\ DealOf(s).held = params.total_amount
             /\ s.token = params.token /\ s.total_amount = params.total_amount
<1> DEFINE s == NewStream(sender, params)
<1>1. /\ params.recipient \in Accounts /\ params.token \in Tokens
      /\ params.total_amount \in Nat \ {0} /\ params.total_amount \in Amounts
  BY ParamsType
<1>2. /\ s.sender = sender /\ s.recipient = params.recipient
      /\ s.token = params.token /\ s.total_amount = params.total_amount
      /\ s.claimed_amount = 0 /\ s.status = "Active"
  BY DEF NewStream
<1>3. sender \in Accounts \ {Contract}
  BY PayrollAssumption DEF Accounts
<1> HIDE DEF s
<1>4. Remaining(s) = params.total_amount
  BY <1>1, <1>2 DEF Remaining, Settled
<1>5. DealOf(s) = [payer |-> sender, payee |-> params.recipient,
                   token |-> params.token, held |-> params.total_amount]
  BY <1>2, <1>4 DEF DealOf
<1>6. params.total_amount \in {amount \in Amounts : amount > 0}
  BY <1>1
<1>7. DealOf(s) \in OpenDeal
  BY <1>1, <1>3, <1>5, <1>6 DEF OpenDeal
<1> QED BY <1>2, <1>5, <1>7 DEF s

(***************************************************************************)
(* Streams added under new ids are deals adjoined.                         *)
(***************************************************************************)
LEMMA AddedDeals ==
  ASSUME NEW opened,
         streams' = [id \in (DOMAIN streams) \cup (DOMAIN opened) |->
                       IF id \in DOMAIN streams THEN streams[id]
                                                ELSE opened[id]]
  PROVE  Deals' = E!Adjoin(Deals, [id \in DOMAIN opened |-> DealOf(opened[id])])
<1>1. /\ DOMAIN streams' = (DOMAIN streams) \cup (DOMAIN opened)
      /\ \A id \in DOMAIN streams' :
           streams'[id] = IF id \in DOMAIN streams THEN streams[id]
                                                  ELSE opened[id]
  OBVIOUS
<1>2. Deals' = [id \in DOMAIN streams' |-> DealOf(streams'[id])]
  BY DEF Deals, DealOf, Remaining, Settled
<1>3. DOMAIN Deals = DOMAIN streams
  BY DEF Deals
<1> DEFINE new == [id \in DOMAIN opened |-> DealOf(opened[id])]
<1>4. E!Adjoin(Deals, new)
        = [id \in (DOMAIN streams) \cup (DOMAIN opened) |->
             IF id \in DOMAIN streams THEN Deals[id] ELSE new[id]]
  BY <1>3 DEF E!Adjoin
<1>5. ASSUME NEW id \in DOMAIN streams'
      PROVE  DealOf(streams'[id])
               = IF id \in DOMAIN streams THEN Deals[id] ELSE new[id]
  BY <1>1, <1>5 DEF Deals
<1> HIDE DEF new
<1>6. Deals' = E!Adjoin(Deals, new)
  BY <1>1, <1>2, <1>4, <1>5
<1> QED BY <1>6 DEF new

LEMMA CreateStreamSimulates ==
  ASSUME IInv, NEW sender \in Users, NEW params \in CreateStreamParams,
         CreateStream(sender, params)
  PROVE  E!OpenStep
<1> DEFINE opened == [id \in {stream_count} |-> NewStream(sender, params)]
           deal == DealOf(NewStream(sender, params))
<1>1. /\ stream_count \in 0 .. (MaxStreams - 1)
      /\ stream_count \notin DOMAIN streams
  BY PayrollAssumption DEF IInv, TypeOK, CreateStream
<1>2. /\ deal \in OpenDeal /\ deal.payer = sender
      /\ deal.token = params.token /\ deal.held = params.total_amount
  BY NewDeal DEF CreateStream
<1>3. Deals' = E!Adjoin(Deals, [i \in {stream_count} |-> deal])
  <2>1. streams' = [id \in (DOMAIN streams) \cup (DOMAIN opened) |->
                      IF id \in DOMAIN streams THEN streams[id] ELSE opened[id]]
    BY DEF CreateStream
  <2>2. Deals' = E!Adjoin(Deals, [id \in DOMAIN opened |-> DealOf(opened[id])])
    <3> HIDE DEF opened
    <3> QED BY <2>1, AddedDeals
  <2>3. [id \in DOMAIN opened |-> DealOf(opened[id])]
          = [i \in {stream_count} |-> deal]
    OBVIOUS
  <2> QED BY <2>2, <2>3
<1>4. /\ CanTransfer(funds, params.token, sender, params.total_amount)
      /\ funds' = Transfer(funds, params.token, sender, Contract,
                           params.total_amount)
      /\ unbacked' = unbacked
  BY DEF CreateStream
<1>5. DOMAIN Deals = DOMAIN streams
  BY DEF Deals
<1> HIDE DEF deal
<1>6. E!Open(stream_count, deal)
  BY <1>1, <1>2, <1>3, <1>4, <1>5, TransferIsOurs DEF E!Open
<1> QED BY <1>1, <1>2, <1>6 DEF E!OpenStep, OpenDeal

LEMMA BatchSimulates ==
  ASSUME IInv, NEW sender \in Users, NEW n \in BatchSizes,
         NEW batch \in [1 .. n -> CreateStreamParams],
         CreateBatchStreams(sender, batch)
  PROVE  E!OpenUnbackedStep
<1> DEFINE ids == stream_count .. (stream_count + Len(batch) - 1)
           opened == [id \in ids |->
                        NewStream(sender, batch[id - stream_count + 1])]
           new == [id \in ids |-> DealOf(opened[id])]
<1>1. /\ n \in Nat /\ Len(batch) = n /\ stream_count \in Nat
      /\ MaxStreams \in Nat /\ stream_count + n <= MaxStreams
  <2>1. n \in Nat
    BY PayrollAssumption
  <2>2. Len(batch) = n
    BY <2>1
  <2> QED BY <2>1, <2>2, PayrollAssumption DEF IInv, TypeOK, CreateBatchStreams
<1>2. ids \in SUBSET (0 .. (MaxStreams - 1)) /\ IsFiniteSet(ids)
  BY <1>1, FS_Interval
<1>3. ids \cap DOMAIN Deals = {}
  BY <1>1 DEF IInv, TypeOK, Deals
<1>4. ASSUME NEW id \in ids
      PROVE  /\ new[id] \in OpenDeal
             /\ new[id].token = opened[id].token
             /\ new[id].held = opened[id].total_amount
  <2>1. id - stream_count + 1 \in 1 .. n
    BY <1>1
  <2>2. /\ batch[id - stream_count + 1] \in CreateStreamParams
        /\ Valid(sender, batch[id - stream_count + 1])
    BY <2>1 DEF CreateBatchStreams
  <2>3. /\ opened[id] = NewStream(sender, batch[id - stream_count + 1])
        /\ new[id] = DealOf(NewStream(sender, batch[id - stream_count + 1]))
    OBVIOUS
  <2> HIDE DEF new, opened
  <2> QED BY <2>2, <2>3, NewDeal
<1>5. Deals' = E!Adjoin(Deals, new)
  <2>1. streams' = [id \in (DOMAIN streams) \cup (DOMAIN opened) |->
                      IF id \in DOMAIN streams THEN streams[id] ELSE opened[id]]
    BY DEF CreateBatchStreams
  <2>2. DOMAIN opened = ids
    OBVIOUS
  <2> HIDE DEF opened
  <2>3. Deals' = E!Adjoin(Deals, [id \in DOMAIN opened |-> DealOf(opened[id])])
    BY <2>1, AddedDeals
  <2> QED BY <2>2, <2>3
<1>6. unbacked' = [token \in Tokens |->
                     unbacked[token] + E!Total(E!HeldOf(new, token))]
  <2>1. ASSUME NEW token \in Tokens
        PROVE  E!Total(E!HeldOf(new, token)) = Total(AmountsIn(opened, token))
    <3>1. E!HeldOf(new, token) = AmountsIn(opened, token)
      <4>1. DOMAIN new = ids /\ DOMAIN opened = ids
        OBVIOUS
      <4> HIDE DEF new, opened, ids
      <4> QED BY <1>4, <4>1 DEF E!HeldOf, AmountsIn
    <3> QED BY <3>1, TotalIsOurs
  <2>2. unbacked' = [token \in Tokens |->
                       unbacked[token] + Total(AmountsIn(opened, token))]
    BY DEF CreateBatchStreams
  <2> HIDE DEF new, opened
  <2> QED BY <2>1, <2>2
<1>7. funds' = funds /\ DOMAIN new = ids
  BY DEF CreateBatchStreams
<1>8. new \in [ids -> OpenDeal]
  BY <1>4
<1> HIDE DEF new, ids
<1>9. E!OpenUnbacked(new)
  BY <1>3, <1>5, <1>6, <1>7 DEF E!OpenUnbacked
<1> QED BY <1>2, <1>8, <1>9 DEF E!OpenUnbackedStep, OpenDeal, E!IsFiniteSet, IsFiniteSet

-----------------------------------------------------------------------------
(***************************************************************************)
(* A payment from a stream draws on its deal, and on no other.             *)
(***************************************************************************)
LEMMA PaymentDraws ==
  ASSUME NEW id \in DOMAIN streams, NEW r, NEW drawn,
         streams' = [streams EXCEPT ![id] = r],
         DealOf(r) = [DealOf(streams[id]) EXCEPT !.held = @ - drawn]
  PROVE  Deals' = E!Draw(Deals, id, drawn)
<1>1. /\ DOMAIN streams' = DOMAIN streams
      /\ \A i \in DOMAIN streams :
           streams'[i] = IF i = id THEN r ELSE streams[i]
  OBVIOUS
<1>2. Deals' = [i \in DOMAIN streams' |-> DealOf(streams'[i])]
  BY DEF Deals, DealOf, Remaining, Settled
<1>3. Deals[id] = DealOf(streams[id])
  BY DEF Deals
<1>4. E!Draw(Deals, id, drawn) = [Deals EXCEPT ![id] = DealOf(r)]
  BY <1>3 DEF E!Draw
<1>5. [Deals EXCEPT ![id] = DealOf(r)]
        = [i \in DOMAIN streams |-> DealOf(IF i = id THEN r ELSE streams[i])]
  BY DEF Deals
<1> QED BY <1>1, <1>2, <1>4, <1>5

(***************************************************************************)
(* The deal of a stream before and after a payment of claimable: unless    *)
(* the stream is settled by it, the deal still holds the rest.             *)
(***************************************************************************)
LEMMA PaidDeal ==
  ASSUME NEW s \in Stream, ~Settled(s), NEW claimable \in Nat,
         NEW status \in Statuses, NEW drawn \in Nat,
         status \in {"Cancelled", "Completed"} =>
           drawn = s.total_amount - s.claimed_amount,
         status \notin {"Cancelled", "Completed"} => drawn = claimable
  PROVE  /\ DealOf(s).held = s.total_amount - s.claimed_amount
         /\ DealOf(Paid(s, claimable, status))
              = [DealOf(s) EXCEPT !.held = @ - drawn]
<1> DEFINE r == Paid(s, claimable, status)
<1>1. /\ r.claimed_amount = s.claimed_amount + claimable
      /\ r.status = status /\ r.total_amount = s.total_amount
      /\ r.sender = s.sender /\ r.recipient = s.recipient
      /\ r.token = s.token
  BY DEF Paid, Stream
<1>2. s.claimed_amount \in Nat /\ s.total_amount \in Nat
  BY DEF Stream
<1>3. Remaining(s) = s.total_amount - s.claimed_amount
  BY DEF Remaining
<1> HIDE DEF r
<1>4. Remaining(r) = Remaining(s) - drawn
  BY <1>1, <1>2, <1>3 DEF Remaining, Settled
<1>5. DealOf(r) = [DealOf(s) EXCEPT !.held = @ - drawn]
  BY <1>1, <1>4 DEF DealOf
<1>6. DealOf(s).held = s.total_amount - s.claimed_amount
  BY <1>3 DEF DealOf
<1> QED BY <1>5, <1>6 DEF r

(***************************************************************************)
(* A payment within what is left of a deal, first to the payee and then to *)
(* the payer, is a step of the escrow.                                     *)
(***************************************************************************)
LEMMA ReleaseSimulates ==
  ASSUME NEW id \in DOMAIN streams, NEW s, s = streams[id],
         NEW paid \in Nat, NEW refund \in Nat, NEW drawn, drawn = paid + refund,
         NEW held, held = DealOf(s).held, held \in Nat, drawn <= held,
         NEW paidOut,
         paidOut = Transfer(funds, s.token, Contract, s.recipient, paid),
         CanTransfer(funds, s.token, Contract, paid),
         CanTransfer(paidOut, s.token, Contract, refund),
         funds' = Transfer(paidOut, s.token, Contract, s.sender, refund),
         Deals' = E!Draw(Deals, id, drawn),
         unbacked' = unbacked
  PROVE  E!ReleaseStep
<1>1. /\ id \in DOMAIN Deals
      /\ Deals[id].payer = s.sender /\ Deals[id].payee = s.recipient
      /\ Deals[id].token = s.token /\ Deals[id].held = held
  BY DEF Deals, DealOf
<1>2. E!Release(id, paid, refund)
  BY <1>1, TransferIsOurs DEF E!Release
<1>3. paid \in 0 .. Deals[id].held /\ refund \in 0 .. (Deals[id].held - paid)
  BY <1>1
<1> QED BY <1>1, <1>2, <1>3 DEF E!ReleaseStep

LEMMA ClaimSimulates ==
  ASSUME IInv, NEW recipient \in Users, NEW id \in DOMAIN streams,
         Claim(recipient, id)
  PROVE  E!ReleaseStep
<1> DEFINE s == streams[id]
           claimable == Claimable(s, now)
           status == IF s.claimed_amount + claimable >= s.total_amount
                     THEN "Completed" ELSE s.status
           paidOut == Transfer(funds, s.token, Contract, s.recipient, claimable)
<1>1. /\ s \in Stream /\ Sound(s, now)
      /\ s.sender \in Accounts /\ s.recipient \in Accounts
      /\ s.token \in Tokens /\ Contract \in Accounts
      /\ claimable \in Nat /\ Refund(s, now) \in Nat
      /\ s.claimed_amount + claimable + Refund(s, now) = s.total_amount
      /\ funds \in Ledgers(Tokens, Accounts)
  BY PaymentType
<1>2. /\ s.recipient = recipient /\ ~Settled(s)
      /\ CanTransfer(funds, s.token, Contract, claimable)
      /\ funds' = paidOut
      /\ streams' = [streams EXCEPT ![id] = Paid(s, claimable, status)]
      /\ unbacked' = unbacked
  BY DEF Claim
<1>3. s.claimed_amount \in Nat /\ s.total_amount \in Nat /\ s.status = "Active"
  BY <1>1, <1>2 DEF Stream, Sound, Settled
<1>4. /\ status \in Statuses
      /\ status \in {"Cancelled", "Completed"} =>
           claimable = s.total_amount - s.claimed_amount
  <2> HIDE DEF claimable
  <2> QED BY <1>1, <1>3 DEF Statuses
<1>5. /\ DealOf(s).held = s.total_amount - s.claimed_amount
      /\ DealOf(Paid(s, claimable, status))
           = [DealOf(s) EXCEPT !.held = @ - claimable]
  <2> HIDE DEF status, s, claimable
  <2> QED BY <1>1, <1>2, <1>4, PaidDeal
<1>6. Deals' = E!Draw(Deals, id, claimable)
  <2> HIDE DEF status, claimable
  <2> QED BY <1>2, <1>5, PaymentDraws
<1>7. paidOut \in Ledgers(Tokens, Accounts)
  BY <1>1, <1>2, TransferType
<1>8. /\ CanTransfer(paidOut, s.token, Contract, 0)
      /\ Transfer(paidOut, s.token, Contract, s.sender, 0) = paidOut
  <2> HIDE DEF paidOut
  <2>1. paidOut[<<s.token, Contract>>] \in Nat
    BY <1>1, <1>7 DEF Ledgers
  <2> QED BY <1>1, <1>7, <2>1, TransferNothing DEF CanTransfer
<1>9. /\ claimable + 0 = claimable /\ DealOf(s).held \in Nat
      /\ claimable <= DealOf(s).held
  <2> HIDE DEF claimable
  <2> QED BY <1>1, <1>3, <1>5
<1>10. paidOut = Transfer(funds, s.token, Contract, s.recipient, claimable)
  OBVIOUS
<1> HIDE DEF claimable, paidOut
<1> QED BY <1>1, <1>2, <1>6, <1>8, <1>9, <1>10, ReleaseSimulates

LEMMA CancelSimulates ==
  ASSUME IInv, NEW sender \in Users, NEW id \in DOMAIN streams,
         CancelStream(sender, id)
  PROVE  E!ReleaseStep
<1> DEFINE s == streams[id]
           claimable == Claimable(s, now)
           refund == Refund(s, now)
           drawn == claimable + refund
           paidOut == Transfer(funds, s.token, Contract, s.recipient, claimable)
<1>1. /\ s \in Stream /\ claimable \in Nat /\ refund \in Nat
      /\ s.claimed_amount + claimable + refund = s.total_amount
  BY PaymentType
<1>2. /\ s.sender = sender /\ ~Settled(s)
      /\ CanTransfer(funds, s.token, Contract, claimable)
      /\ CanTransfer(paidOut, s.token, Contract, refund)
      /\ funds' = Transfer(paidOut, s.token, Contract, s.sender, refund)
      /\ streams' = [streams EXCEPT ![id] = Paid(s, claimable, "Cancelled")]
      /\ unbacked' = unbacked
  BY DEF CancelStream
<1>3. s.claimed_amount \in Nat /\ s.total_amount \in Nat
  BY <1>1 DEF Stream
<1>4. drawn \in Nat /\ drawn = s.total_amount - s.claimed_amount
  <2> HIDE DEF claimable, refund
  <2> QED BY <1>1, <1>3
<1>5. /\ DealOf(s).held = s.total_amount - s.claimed_amount
      /\ DealOf(Paid(s, claimable, "Cancelled"))
           = [DealOf(s) EXCEPT !.held = @ - drawn]
  <2>1. "Cancelled" \in Statuses
    BY DEF Statuses
  <2> HIDE DEF s, claimable, drawn
  <2> QED BY <1>1, <1>2, <1>4, <2>1, PaidDeal
<1>6. Deals' = E!Draw(Deals, id, drawn)
  <2> HIDE DEF claimable, drawn
  <2> QED BY <1>2, <1>5, PaymentDraws
<1>7. paidOut = Transfer(funds, s.token, Contract, s.recipient, claimable)
  OBVIOUS
<1>8. drawn = claimable + refund
  OBVIOUS
<1> HIDE DEF claimable, refund, drawn, paidOut
<1>9. DealOf(s).held \in Nat /\ drawn <= DealOf(s).held
  BY <1>4, <1>5
<1> QED BY <1>1, <1>2, <1>6, <1>7, <1>8, <1>9, ReleaseSimulates

-----------------------------------------------------------------------------
LEMMA UnchangedSimulates ==
  ASSUME UNCHANGED <<streams, funds, unbacked>>
  PROVE  UNCHANGED E!vars
  BY DEF E!vars, Deals, DealOf, Remaining, Settled

LEMMA FundedNextSimulates ==
  ASSUME IInv, [Next]_vars, ~BatchStep
  PROVE  [E!FundedNext]_(E!vars)
<1>1. ASSUME NEW caller \in Users, Initialize(caller)
      PROVE  UNCHANGED E!vars
  BY <1>1, UnchangedSimulates DEF Initialize
<1>2. ASSUME NEW sender \in Users, NEW params \in CreateStreamParams,
             CreateStream(sender, params)
      PROVE  E!OpenStep
  BY <1>2, CreateStreamSimulates
<1>3. ASSUME NEW recipient \in Users, NEW id \in DOMAIN streams,
             Claim(recipient, id)
      PROVE  E!ReleaseStep
  BY <1>3, ClaimSimulates
<1>4. ASSUME NEW sender \in Users, NEW id \in DOMAIN streams,
             CancelStream(sender, id)
      PROVE  E!ReleaseStep
  BY <1>4, CancelSimulates
<1>5. CASE Tick
  BY <1>5, UnchangedSimulates DEF Tick, records
<1>6. ASSUME GiveStep
      PROVE  E!GiveStep
  <2>1. PICK token \in Tokens, from \in Users, to \in Accounts,
             amount \in Gifts : Give(token, from, to, amount)
    BY <1>6 DEF GiveStep
  <2>2. from \in Accounts \ {Contract}
    BY PayrollAssumption DEF Accounts
  <2>3. /\ CanTransfer(funds, token, from, amount)
        /\ funds' = Transfer(funds, token, from, to, amount)
        /\ unbacked' = unbacked /\ streams' = streams
    BY <2>1 DEF Give, records
  <2>4. Deals' = Deals
    BY <2>3 DEF Deals, DealOf, Remaining, Settled
  <2>5. E!Give(token, from, to, amount)
    BY <2>3, <2>4, TransferIsOurs DEF E!Give
  <2> QED BY <2>1, <2>2, <2>5 DEF E!GiveStep
<1>7. CASE UNCHANGED vars
  BY <1>7, UnchangedSimulates DEF vars, records
<1> QED BY <1>1, <1>2, <1>3, <1>4, <1>5, <1>6, <1>7 DEF Next, E!FundedNext

LEMMA NextSimulates ==
  ASSUME IInv, [Next]_vars
  PROVE  [E!Next]_(E!vars)
<1>1. CASE BatchStep
  <2>1. E!OpenUnbackedStep
    BY <1>1, BatchSimulates DEF BatchStep
  <2> QED BY <2>1 DEF E!Next
<1>2. CASE ~BatchStep
  BY <1>2, FundedNextSimulates DEF E!Next
<1> QED BY <1>1, <1>2

(***************************************************************************)
(* The contract implements the escrow: whatever it does to its streams and *)
(* to the balances is the opening of a deal, a payment out of one deal to  *)
(* its own parties, or nothing.                                            *)
(***************************************************************************)
THEOREM Refinement == Spec => Escrow
<1>1. Init => E!Init
  BY InitSimulates
<1>2. IInv /\ [Next]_vars => [E!Next]_(E!vars)
  BY NextSimulates
<1> QED BY <1>1, <1>2, Invariance, PTL DEF Spec, Escrow, E!Spec

(***************************************************************************)
(* Without create_batch_streams it implements the escrow that every deal   *)
(* is paid into when it is opened.                                         *)
(***************************************************************************)
THEOREM FundedRefinement ==
  ASSUME BatchSizes = {}
  PROVE  Spec => FundedEscrow
<1>1. Init => E!Init
  BY InitSimulates
<1>2. ~BatchStep
  BY DEF BatchStep
<1>3. IInv /\ [Next]_vars => [E!FundedNext]_(E!vars)
  BY <1>2, FundedNextSimulates
<1> QED BY <1>1, <1>3, Invariance, PTL DEF Spec, FundedEscrow, E!FundedSpec

-----------------------------------------------------------------------------
(***************************************************************************)
(* The escrow's own theorems, for the deals of this contract.              *)
(***************************************************************************)
EP == INSTANCE EscrowProofs
        WITH deals <- Deals, DealIds <- 0 .. (MaxStreams - 1),
             Sums <- {amount \in Amounts : amount > 0}

LEMMA EscrowAssumptionHolds == EP!EscrowAssumption
<1>1. IsFiniteSet(Accounts)
  BY PayrollAssumption, FS_Singleton, FS_Union DEF Accounts
<1>2. EP!IsFiniteSet(Accounts)
  BY <1>1 DEF IsFiniteSet, EP!IsFiniteSet
<1>3. Contract \in Accounts
  BY DEF Accounts
<1>4. MaxStreams \in Nat /\ Amounts \subseteq Int /\ Gifts \subseteq Nat
  BY PayrollAssumption
<1>5. 0 .. (MaxStreams - 1) \subseteq Nat
  BY <1>4
<1>6. {amount \in Amounts : amount > 0} \subseteq Nat
  <2>1. ASSUME NEW amount \in Amounts, amount > 0
        PROVE  amount \in Nat
    <3>1. amount \in Int
      BY <1>4
    <3>2. amount > 0
      BY <2>1
    <3> QED BY <3>1, <3>2
  <2> QED BY <2>1
<1>7. InitialFunds \in EP!Ledgers(Tokens, Accounts)
  BY PayrollAssumption DEF Ledgers, EP!Ledgers
<1> QED BY <1>2, <1>3, <1>4, <1>5, <1>6, <1>7 DEF EP!EscrowAssumption

LEMMA SameEscrow ==
  /\ E!Init => EP!Init
  /\ [E!Next]_(E!vars) => [EP!Next]_(EP!vars)
  /\ [E!FundedNext]_(E!vars) => [EP!FundedNext]_(EP!vars)
  /\ EP!Backed => E!Backed
  /\ EP!Solvent => E!Solvent
<1> USE DEF E!vars, EP!vars
<1>1. E!Init => EP!Init
  BY DEF E!Init, EP!Init
<1>2. E!OpenStep => EP!OpenStep
  BY DEF E!OpenStep, EP!OpenStep, E!Open, EP!Open, E!Adjoin, EP!Adjoin,
         E!CanTransfer, EP!CanTransfer, E!Transfer, EP!Transfer
<1>3. E!ReleaseStep => EP!ReleaseStep
  BY DEF E!ReleaseStep, EP!ReleaseStep, E!Release, EP!Release, E!Draw, EP!Draw,
         E!CanTransfer, EP!CanTransfer, E!Transfer, EP!Transfer
<1>4. E!GiveStep => EP!GiveStep
  BY DEF E!GiveStep, EP!GiveStep, E!Give, EP!Give,
         E!CanTransfer, EP!CanTransfer, E!Transfer, EP!Transfer
<1>5. ASSUME NEW ds, NEW token
      PROVE  E!Total(E!HeldOf(ds, token)) = EP!Total(EP!HeldOf(ds, token))
  BY DEF E!HeldOf, EP!HeldOf, E!Total, EP!Total, E!Units, EP!Units,
         E!UnitsAt, EP!UnitsAt, E!Cardinality, EP!Cardinality
<1>6. E!OpenUnbackedStep => EP!OpenUnbackedStep
  BY <1>5 DEF E!OpenUnbackedStep, EP!OpenUnbackedStep, E!OpenUnbacked,
         EP!OpenUnbacked, E!Adjoin, EP!Adjoin, E!IsFiniteSet, EP!IsFiniteSet
<1>7. E!FundedNext => EP!FundedNext
  BY <1>2, <1>3, <1>4 DEF E!FundedNext, EP!FundedNext
<1>8. E!Next => EP!Next
  BY <1>6, <1>7 DEF E!Next, EP!Next
<1>9. EP!Backed => E!Backed
  BY <1>5 DEF E!Backed, EP!Backed
<1>10. EP!Solvent => E!Solvent
  BY <1>5 DEF E!Solvent, EP!Solvent
<1> QED BY <1>1, <1>7, <1>8, <1>9, <1>10

(***************************************************************************)
(* The contract's balance of each token covers what its streams have yet   *)
(* to pay, except for what batches did not transfer in.                    *)
(***************************************************************************)
THEOREM StreamsBacked == Spec => []Backed
<1>1. E!Spec => EP!Spec
  BY SameEscrow, PTL DEF E!Spec, EP!Spec
<1>2. EP!Spec => [](EP!TypeOK /\ EP!Backed)
  BY EscrowAssumptionHolds, EP!Solvency
<1>3. EP!TypeOK /\ EP!Backed => Backed
  BY SameEscrow DEF Backed
<1> QED BY <1>1, <1>2, <1>3, Refinement, PTL DEF Escrow

(***************************************************************************)
(* Without create_batch_streams, all that has accrued to a recipient can   *)
(* be paid out at any moment, whatever was paid to the others before.      *)
(***************************************************************************)
LEMMA HeldIsInTotal ==
  ASSUME IInv, E!Solvent, NEW id \in DOMAIN streams
  PROVE  Remaining(streams[id]) <= funds[<<streams[id].token, Contract>>]
<1> DEFINE token == streams[id].token
           f == E!HeldOf(Deals, token)
<1>1. DOMAIN f = DOMAIN streams
  BY DEF E!HeldOf, Deals
<1>2. f \in [DOMAIN streams -> Nat]
  <2>1. ASSUME NEW i \in DOMAIN streams
        PROVE  Remaining(streams[i]) \in Nat
    <3> DEFINE s == streams[i]
    <3>1. s \in Stream /\ Sound(s, now)
      BY DEF IInv, TypeOK, AllSound
    <3> HIDE DEF s
    <3>2. Remaining(s) \in Nat
      BY <3>1 DEF Remaining, Stream, Sound
    <3> QED BY <3>2 DEF s
  <2> QED BY <2>1 DEF E!HeldOf, Deals, DealOf
<1>3. f[id] = Remaining(streams[id])
  BY DEF E!HeldOf, Deals, DealOf
<1>4. IsFiniteSet(DOMAIN streams)
  BY FS_Interval, PayrollAssumption DEF IInv, TypeOK
<1>5. Total(f) <= funds[<<token, Contract>>]
  <2>1. token \in Tokens
    BY DEF IInv, TypeOK, Stream
  <2> QED BY <2>1, TotalIsOurs DEF E!Solvent
<1>6. funds[<<token, Contract>>] \in Nat
  BY DEF IInv, TypeOK, Stream, Ledgers, Accounts
<1> HIDE DEF f
<1>7. f[id] <= Total(f) /\ Total(f) \in Nat /\ f[id] \in Nat
  BY <1>1, <1>2, <1>4, TotalUpdate, TotalType
<1> QED BY <1>3, <1>5, <1>6, <1>7

THEOREM FundedIsPayable ==
  ASSUME BatchSizes = {}
  PROVE  Spec => []AccruedIsPayable
<1>1. E!FundedSpec => EP!FundedSpec
  BY SameEscrow, PTL DEF E!FundedSpec, EP!FundedSpec
<1>2. EP!FundedSpec => []EP!Solvent
  BY EscrowAssumptionHolds, EP!FundedSolvency
<1>3. IInv /\ EP!Solvent => AccruedIsPayable
  <2> SUFFICES ASSUME IInv, E!Solvent, NEW id \in DOMAIN streams,
                      ~Settled(streams[id])
               PROVE  CanTransfer(funds, streams[id].token, Contract,
                                  Claimable(streams[id], now))
    BY SameEscrow DEF AccruedIsPayable
  <2> DEFINE s == streams[id]
             balance == funds[<<s.token, Contract>>]
  <2>1. /\ s \in Stream /\ Claimable(s, now) \in Nat /\ Refund(s, now) \in Nat
        /\ s.claimed_amount + Claimable(s, now) + Refund(s, now) = s.total_amount
    BY PaymentType
  <2>2. Remaining(s) = s.total_amount - s.claimed_amount
    BY DEF Remaining
  <2>3. Remaining(s) <= balance
    BY HeldIsInTotal
  <2>4. balance \in Nat
    BY DEF IInv, TypeOK, Stream, Ledgers, Accounts
  <2>5. s.claimed_amount \in Nat /\ s.total_amount \in Nat
    BY <2>1 DEF Stream
  <2>6. Claimable(s, now) <= balance
    <3> HIDE DEF s, balance
    <3> QED BY <2>1, <2>2, <2>3, <2>4, <2>5
  <2> QED BY <2>6 DEF CanTransfer
<1> QED BY <1>1, <1>2, <1>3, Invariance, FundedRefinement, PTL DEF FundedEscrow
=============================================================================
