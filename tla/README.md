# StellarPay: specifications, checks and proofs

StellarPay is four Soroban (Stellar) smart contracts in Rust and a small Next.js
frontend. This directory holds TLA+ models of the contracts and of the
frontend's concurrent code, the TLC configurations that check them on small
instances, and TLAPS proofs about the four contracts, the specifications they
implement and the frontend: every safety property that a run checks and finds
true is also a theorem, and only liveness is left to the runs.

## The system

| component | state | operations |
|---|---|---|
| `payroll_stream` | admin, stream counter, streams, index by sender, index by recipient | `initialize`, `create_stream`, `create_batch_streams`, `claim`, `cancel_stream`, queries, `upgrade` |
| `vesting` | admin, schedule counter, schedules, index by grantor, index by beneficiary | `initialize`, `create_schedule`, `claim`, `revoke`, queries, `upgrade` |
| `treasury` | admin, signers, threshold, proposal counter, withdrawal requests | `initialize`, `deposit`, `create_withdrawal`, `approve_withdrawal`, `execute_withdrawal`, `add_signer`, `remove_signer`, `update_threshold`, queries, `upgrade` |
| `governance` | admin, members, quorum, voting duration, grace period, proposals | `initialize`, `create_proposal`, `vote`, `finalize`, `execute`, `cancel_proposal`, `add_member`, `remove_member`, `get_proposal_status`, queries, `upgrade` |
| token contracts | balances | `balance`, `transfer` (external, called through `token::Client`) |
| frontend payroll client (`payrollClient.ts`, `usePayrollStream.ts`) | status and message of the hook; each call's transaction and lookups | `createStream`: build, simulate, sign, submit, look up |
| frontend wallet (`wallet.ts`, `WalletProvider.tsx`, `WalletButton.tsx`) | address, connecting, error; what the watcher told last | connect, disconnect, `watchWalletChanges` |

The contracts do not call each other. `payroll_stream`, `vesting` and `treasury`
call token contracts and share nothing but those balances; `governance` calls
nobody (its payment is a TODO). The frontend calls `create_stream` and
`get_stream` through an RPC server, and signs with the Freighter extension, whose
account, network and permission a person changes at any time.

### Concurrency and failure

The host runs an invocation to its end before the next one, and undoes all its
writes when it returns an error or traps. So every call is one atomic action, a
call that fails is no step, and the conditions under which it fails are the
guards of the action. What is hard in this code is not inside a call but between
calls: several users act in any order, at any second, on records that share one
balance; admins change signers, members and thresholds in between; products and
quotients of amounts and times are rounded, and trap when they overflow
(`overflow-checks = true` in the release profile of `contracts/Cargo.toml`).

The frontend is different: it runs in one thread that stops at every `await`, and
meanwhile other calls, the clock, the network and the person go on. There each
stretch of code between two awaits is one action, any await may throw, and
answers may be lost, late or outdated.

What makes each component correct:

* payroll: a stream has paid exactly what had accrued when it last paid; it
  completes at its end and not before; settled streams are never touched; the
  balance covers what all streams have yet to pay; a stream does not get stuck.
* vesting: nobody claims more than has vested; what somebody is entitled to is
  never reduced; the balance covers all schedules.
* treasury: tokens leave only for requests that enough different signers
  approved, once each; the threshold stays achievable.
* governance: counters agree with votes, nobody votes twice, decisions are
  final, an expired proposal does not come back, every proposal is decided.
* payroll client: a success or a failure that was read from a transaction's
  status is never wrong, nor is a failure for want of a status after enough
  lookups; overlapping calls leave a status and a message that belong together;
  every call ends.
* wallet: a connect and a disconnect do not undo each other; a page shows an
  address or an error; connecting ends; the watcher is right in the end.

## The modules

```
component                        extends                  implements
PayrollStream                    TokenLedger, Vectors     Escrow
Vesting                          TokenLedger, Vectors     Escrow (FundedSpec)
Treasury                         TokenLedger, Vectors     Vault
Governance                       Vectors                  Ballot
Escrow                           TokenLedger, UnitSum
PayrollClient
Wallet (WalletProvider,          Freighter
        WalletWatcher)

proofs                           about
DataTheorems                     UnitSum, Vectors, quotients and products
EscrowProofs                     Escrow
PayrollStreamProofs              PayrollStream, and through Escrow its balance
VestingProofs                    Vesting, and through Escrow its balance
TreasuryProofs                   Treasury
GovernanceProofs                 Governance
PayrollClientProofs              PayrollClient
WalletProofs                     Wallet
```

Each module that is checked has an `MC` module with its instances. The proofs about
the contracts extend DataTheorems.

* **TokenLedger** (external): the balances of the token contracts as one function
  of token and account, and `Transfer`, which needs a sufficient balance. The
  three contracts that move tokens use it.
* **UnitSum**: the sum of a finite function as a cardinality, without recursion,
  so that solvency can be proved and not only checked.
* **Vectors**: what the contracts' loops build from a `Vec`: `Elements`
  (`is_member`, `is_signer`), `Without` (the loops of `remove_signer` and
  `remove_member`) and `Selected`, a loop that keeps some of what it visits.
* **Escrow**: the abstract specification of what payroll and vesting do with
  other people's tokens. A deal holds tokens of a payer; the contract pays them
  to the deal's payee and back to its payer, never more than the deal holds.
  `FundedSpec` requires that each deal is paid in when it is opened; `Spec` also
  admits deals that are recorded only, whose sum is `unbacked`.
* **PayrollStream**: `payroll_stream/src/lib.rs`. One action per call:
  `Initialize`, `CreateStream`, `CreateBatchStreams`, `Claim`, `CancelStream`.
  `Elapsed`, `Accrued`, `Claimable`, `Computable` and `Refund` are
  `calculate_claimable` and the split of `cancel_stream`. The variables are the
  storage keys, the ledger's time and the balances; `unbacked` is a history
  variable that adds up what batches recorded and did not transfer. `Deals` maps
  a stream to the deal that holds what it has not paid: the refinement mapping.
* **Vesting**: `vesting/src/lib.rs`: `Initialize`, `CreateSchedule`, `Claim`,
  `Revoke`; `Vested` is `calculate_vested` with division truncated towards zero,
  because the dividend may be negative after a revocation. It refines
  `Escrow!FundedSpec`.
  `Progress` is `get_progress`.
* **Vault**: the abstract specification of the treasury. Several keepers ask for
  payments and approve them; a payment is granted in the step in which as many
  have approved as are required then, and is made at most once, at any later
  time; `Reform` changes keepers and requirement at any moment.
* **Treasury**: `treasury/src/lib.rs`: all eight operations. `signers` and
  `approvals` are sequences as in the code, since a list may name an address twice
  and `len()` counts both. `asked` is a history variable: the threshold at the
  moment a request was last approved. `RequestOf` maps a stored request to one of
  the vault: approvals as a set, and the status without what only the contract
  tells apart.
* **Ballot**: the abstract specification of governance. Electors cast one vote
  each that cannot be taken back, while the electorate changes; a ballot is closed
  once, and passes only when it is ahead by the votes cast.
* **Governance**: `governance/src/lib.rs`: all eight operations and `LiveStatus`
  for `get_proposal_status`, which has no answer when the deadline overflows and the
  code traps. `BallotOf` maps a proposal to a ballot: the vector of
  votes as a function from voters, which is ahead exactly if the counters say so.
* **PayrollClient**: `createStream` of `payrollClient.ts` together with that of
  `usePayrollStream.ts`, which shares one status between its calls. A call's
  record holds its place in the code and the fate of its transaction: its age, the
  sequence number it was built with, whether it is on its way, has reached the
  network, is in the ledger, and for how long. `Receive`, `Include` and
  `OtherTransaction` are the network, which is not part of the code: a submission
  may arrive before or after the client has given up on the answer, a ledger may
  take it in at any time while it is valid and its sequence number is the next,
  and the server knows of it only `Lag` later. A signature takes any time, also
  none. `enough` is a history field that says whether the lookups of a call, when
  they began, were enough to outlast the transaction (`EnoughLookups`). What the
  server answers to a simulation is free: today the contract would refuse it,
  because the client passes four arguments (`payrollClient.ts:106`) and
  `create_stream` takes more. A submission that the network refuses may throw or
  be looked up like any other, since `sendResult.errorResultXdr` is not in every
  answer that says so. One tick is the pause between two lookups.
* **Freighter** (external): the extension as the wallet code uses it.
  **WalletProvider**: `connectWallet`, the provider's `connect` and `disconnect`
  and the button that offers one of them; a call of `connect` waits for one
  question after the other. **WalletWatcher**: `watchWalletChanges`; every poll
  waits for its questions on its own, so that polls overlap. **Wallet** puts the
  two next to each other with one extension. No page uses the watcher as yet.

In the contracts' modules the caller of an action is the address whose `require_auth`
succeeds. The contract's own address may be a recipient but never a caller.
`Tick` is the passing of a second; `Give` is any transfer users make on their
own, also into a contract.

Arithmetic has the width of the code where it can overflow: `MaxI128` bounds the
products of amounts and times, `MaxU32` and `MaxU64` the quorum and the deadlines
of governance. An operation whose arithmetic does not fit is not enabled, as the
code traps. The other sums of the contracts cannot overflow before the balances
they are limited by do, apart from the counters of ids (`u32`), which the models
bound below that.

## The runs

Each run's `.cfg` has the name given here. Deadlock is checked for the wallet,
where there is always something to click. Elsewhere it is not: the clock, the ids
and the calls of a model run out, and the program may stop at any time.

| run | specification | checks | distinct states |
|---|---|---|---|
| MCPayrollStream | PayrollStream with batches | TypeOK, ClaimedIsAccrued, CompletedAtEnd, AllClaimableAtEnd, IndexesExact, Backed, AgreementKept, Escrow | 21,654 |
| MCPayrollFunded | PayrollStream without batches, `FairSpec`, with overflow | AccruedIsPayable, FundedEscrow, EventuallySettled | 388,876 |
| MCVesting | Vesting, two schedules, `FairSpec`, with overflow | TypeOK, ClaimedWithinVested, IndexesExact, ShownIsPayable, EntitlementKept, EventuallySettled, FundedEscrow | 353,221 |
| MCTreasury | Treasury, three users, two requests, `FairSpec` | TypeOK, ApprovedByQuorum, ThresholdAchievable, ImplementsVault, EventuallyPaid | 547,504 |
| MCGovernance | Governance, three members, `FairSpec`, with overflow | TypeOK, TallyExact, ApprovedByMajority, ImplementsBallot, ExpiredStaysDown, EventuallyDecided | 482,292 |
| MCPayrollClient | PayrollClient, two calls, `FairSpec` | TypeOK, OutcomeIsFinal, StatusShown, EveryCallEnds | 804,634 |
| MCWallet | Wallet, `FairSpec` | TypeOK, OneConnection, OneOutcome, ConnectEnds, EventuallyAccurate | 135,952 |

What the frontend's runs show deserves a word. `OutcomeIsFinal` says of a
transaction that was looked up in vain that it is never applied, but only if the
lookups began late enough (`EnoughLookups`): with the program's 30 seconds of
validity (15 ticks) and 15 lookups, at least one tick after the transaction was
built and at least as long after as the server lags behind the ledger. That is
true when the person takes a few seconds to sign, and nothing in the code ensures
it; `MCPayrollClientLate` shows the other case. `OutcomeIsFinal` claims
nothing about a call in which a request threw, after which the transaction
may still be applied. `OneConnection` holds because of the button alone: the
provider itself lets a connect undo a disconnect made meanwhile.
`EventuallyAccurate` allows the watcher to be wrong for a while: a poll may tell
the account of one moment with the network of another.

The other five runs are expected to find a violation: each checks one sentence of
the code's own comments or messages that the code does not keep.

| run | the sentence | what happens |
|---|---|---|
| MCPayrollStarved | "The recipient can claim at any point" (payroll `lib.rs:169`) | a batch records a stream and transfers nothing, so a claim cannot be paid |
| MCVestingRevoked | "Already-vested tokens remain claimable." (vesting `lib.rs:171`) | `claim` rejects every revoked schedule |
| MCTreasuryRepeated | "Cannot remove if it would make threshold unachievable." (treasury `lib.rs:262`) | a signer who is listed twice is removed twice |
| MCGovernanceQuorum | "Minimum % of members that must vote" (governance `lib.rs:27`) | the quorum is rounded down |
| MCPayrollClientLate | "Transaction failed with status: …" (`payrollClient.ts:160`) | a transaction that was signed at once is NOT_FOUND at the last lookup, while it is still valid, and is applied afterwards |

The models follow the code in six smaller disagreements as well, which need no
run to be seen: `start_time` may be in the past although `InvalidStartTime` (payroll
`errors.rs:26`) is documented; `total_amount * elapsed` of a very large stream
overflows, and neither `claim` nor `cancel_stream` returns from then on
(`lib.rs:308`; `EventuallySettled` excludes such streams); `get_progress` of a
revoked schedule applies the old cliff to the capped total (vesting `lib.rs:265`);
`deposit` announces tokens that it does not transfer (treasury `lib.rs:76`, so the
action `Deposit` changes nothing); a request that meets the threshold on creation,
or because the threshold is lowered, stays Pending until somebody else approves it
(treasury `lib.rs:125`, against `lib.rs:142`); and a proposal that passed but is
finalized after the grace period is stored as Rejected and not as Expired
(governance `lib.rs:208`, against `types.rs:11` and `types.rs:17`).

### Bounds

* Two users and the contract are enough for the payer, the payee and the
  contract as payee; the treasury and the governance have three, so that a
  majority and a quorum differ from all and from one.
* Two streams, schedules or requests share one balance, which is where solvency
  and the order of payments matter. One admin, one recipient and one list of first
  signers are enough for the treasury: signers come and go afterwards.
* Payroll amounts 2 and 3 over three seconds: 3 divides evenly, 2 does not.
  Vesting amounts 1 and 3 over 1 or 3 seconds, with cliffs of 0 and 1, leave remainders
  before and after the cliff; invalid amounts (0, negative) and durations are
  among the inputs so that a missing check would show.
* The clock goes past the end of every stream, schedule, vote and grace period.
* `MaxI128` is 100, out of reach, except in `MCPayrollFunded` (8, so that a stream
  of 3 overflows at its end and one of 2 does not) and `MCVesting` (5, so that one
  of the schedules overflows on the way to its end). `MCGovernance` has settings
  that fit and settings with which the quorum of three members leaves `MaxU32` and
  the grace period leaves `MaxU64`.
* Two calls of `createStream` with a validity of 2 ticks, 2 lookups after the
  first and a lag of 1: lookups that begin a tick or more after the transaction was
  built are enough, with nothing to spare, so that one lookup fewer shows; lookups
  that begin at once are not, so that both cases occur, as in the program with
  15 and 15. One call suffices for the violation.
* Two polls and two connects that may be under way at once, two accounts and two
  networks, two changes by the person (so that an answer can be outdated in one
  part and not in the other) and one failing question.
* `MaxSigners` and `MaxMembers` keep what the code does not limit finite.

No symmetry is used.

### Fairness

`FairSpec` of payroll and vesting assumes that ledger time advances and that a
payee who may claim does so eventually; nothing is assumed about payers, and
nothing about other recipients. The claim of a payee is an action of theirs that
no other user can block for ever: weak fairness is enough because a claim that is
possible stays possible until the stream is claimed or cancelled. `FairSpec` of
governance assumes that time advances and that somebody finalizes a proposal that
can be finalized: `finalize` is open to every address. `FairSpec` of the treasury
assumes that somebody has an approved request executed as long as it can be:
`execute_withdrawal` is open to every address. Nothing is assumed about approvals.
Without these the contracts are passive, and nothing needs to happen.

`FairSpec` of the payroll client and of the wallet assumes that whatever the code
awaits is answered or fails in the end (a promise that never settles would leave
the code waiting, and it sets no timeout of its own), that time passes and that
the interval fires until it is cleared. Nobody has to click, to allow anything or
to leave the wallet alone for connecting to end; `EventuallyAccurate` is about
the time after the person's last change and Freighter's last failure, both of
which the bounds end.

## What is proved

The proofs hold for every value of the constants that satisfies the `ASSUME` of
the module (for the contracts: finitely many users where balances are added up,
the contract not among them, natural times, integer amounts, natural initial
balances; for the frontend: natural times and a null that is no account, no
question and no message). The theorems about Escrow have `EscrowAssumption` as
their hypothesis, which payroll and vesting discharge. Two theorems have a
hypothesis of their own, both named below, and each with a run that shows what
happens without it.

Every proof about a state machine has the same form. An invariant `IInv` says of
each record what its operations rely on, one lemma per action shows that the
action keeps it, `NextIInv` puts these together, and the properties follow from
`IInv` or from one step that starts in it. `TypeOK` alone is never enough: its
records are natural numbers, and that a subtraction stays natural is already a
fact about what was accrued, vested or paid in. Each contract's `IInv` has
`Unused` (no records before there is an admin), because `initialize` writes 0 to
the counter of ids.

* **DataTheorems**: how `Total` changes when a function is extended or changed at
  one point, and that it bounds each of its values; that quotients and products
  respect the order; what `Selected` and `Without` yield for every list (the
  elements, their number when none is repeated, their order); that an index stays
  exact when ids beyond all others are pushed. The prover cannot use the library's
  induction theorems, whose premise is an operator; what is needed of induction is
  obtained from the least element of a set of numbers, `UpToInduction`, which the
  well-foundedness of `<` gives. For the same reason `Vectors` has a recursive
  function of its own and not `SelectSeq`.
* **EscrowProofs**: `Solvency` (`Backed`) and `FundedSolvency` (`Solvent`).
  `TypeOK /\ Backed` is inductive: opening a deal raises both sides of `Backed` by
  its amount, a payment lowers both by the same, an unbacked deal raises the left
  side and `unbacked`, and users can only add to the contract's balance.
* **PayrollStreamProofs**: `TypeCorrect`, `Exactness` (`ClaimedIsAccrued`),
  `Completion` (`CompletedAtEnd`), `NothingStaysBehind` (`AllClaimableAtEnd`) and
  `Agreement` (`AgreementKept`), all from `IInv == TypeOK /\ AllSound /\ Unused`.
  `AllSound` adds to the properties what they need to be inductive: a stream has a
  positive amount, ends after it starts, was last paid at or before the present
  (or not yet), and has claimed what had accrued then. `Accrued` is monotone in
  time and equals the amount at the end, from which the rest follows.
  `Lookups` (`IndexesExact`) needs in addition that the indexes hold numbers: a
  batch pushes `IdsTo`, of which `Selected` says which ids those are and in which
  order, and all of them are beyond the ids in use.
  `Refinement` (the contract implements `Escrow!Spec`) and `FundedRefinement`
  (`FundedEscrow`, with the hypothesis that there are no batches; see
  `MCPayrollStarved`) go step by step: a claim is a release with no refund, a
  cancellation a release that empties the deal, time and `initialize` are stutters.
  `StreamsBacked` and `FundedIsPayable` carry the escrow's theorems over: a
  stream's claimable amount is at most what its deal holds, which is at most the
  sum of all deals, which the balance covers.
* **VestingProofs**: `TypeCorrect`, `WithinVested` (`ClaimedWithinVested`) and
  `Entitled` (`EntitlementKept`). The main lemmas are that `Vested` stays between
  0 and the total (`VestedRange`) and never falls (`VestedOrder`), for a schedule
  that `create_schedule` accepts. A revoked schedule is none: `revoke` overwrites
  the total, after which the cliff may exceed it and the dividend be negative. So
  `Sound` demands `Granted` and `claimed_amount <= Vested` only of schedules that
  are not revoked, and of a revoked one that what was claimed is within the capped
  total. `Entitled` does not follow from `ClaimedWithinVested`; what was missing is
  that a revoked schedule is revocable, which `Sound` therefore says.
  `Lookups` (`IndexesExact`), `FundedRefinement` (`FundedEscrow`, without a
  hypothesis: vesting has no batches) with a claim as a payment to the payee and a
  revocation as one to the payer, `SchedulesSolvent` by the escrow's theorem, and
  `ShownPayable` (`ShownIsPayable`): what is shown is what `claim` computes, and it
  is at most what the schedule holds, which the shared balance covers.
* **TreasuryProofs**: `TypeCorrect`, `Quorum` (`ApprovedByQuorum`),
  `Achievable` (`ThresholdAchievable`) and `TreasuryImplementsVault`
  (`ImplementsVault`). `IInv` says that the approvals of a request are different
  addresses, and that its status came from comparing their number with the
  threshold of its last approval (`asked`); signers and the present threshold do
  not occur in that, so that changing them cannot disturb it (`ReformedIInv`).
  `Achievable` has the hypothesis that the lists given to `initialize` name nobody
  twice, as `MCTreasuryRepeated` shows that it must. Its invariant is that
  `signers` has no repetition: then `Without` is shorter by exactly one
  (`WithoutLength`) and the guard of `remove_signer` leaves enough. In the
  refinement the length of `approvals` is the size of its set for the same reason,
  and the administration's operations are `Reform`.
* **GovernanceProofs**: `TypeCorrect`, `Tallies` (`TallyExact`), `Majority`
  (`ApprovedByMajority`), `Expired` (`ExpiredStaysDown`) and
  `GovernanceImplementsBallot` (`ImplementsBallot`). `IInv` says that each voter has
  one vote in the vector, that the three counters are the numbers of votes, and
  that a proposal is approved only with a majority and after its end; the members
  do not occur in it, so that their coming and going cannot disturb it. `Expired`
  adds that the deadline of a proposal is past for good: `grace_period` never
  changes once there is an admin, and `finalize` rejects whatever it finds later.
  In the refinement the vector of votes is a function because nobody votes twice
  (`VoteFound`), and it is ahead exactly when the counters say so (`AheadByTally`).
* **PayrollClientProofs**: `FinalOutcome` (`OutcomeIsFinal`), `ShownStatus`
  (`StatusShown`) and `TypeCorrect`, for any number of calls and all constants. The
  invariant relates three clocks: the age of a transaction exceeds its validity by
  at most the time it has been in the ledger (`InLedger`); each lookup
  takes a tick at least, counted from an age at which there were enough to come
  (`LookedUp`); so that after the last one a transaction that is not found
  is either too old to be applied, or would be known to the server (`LastLookup`).
  `StatusShown` needs of it only that a call in the client's catch has a reason: the
  step with which the last call ends sets the status, and the message of an error.
* **WalletProofs**: `Separation` (`OneConnection`), `Unambiguity` (`OneOutcome`)
  and `TypeCorrect`. The two properties keep each other: while a connect is under
  way there is neither an address nor an error, so its end leaves one of them.

Only model-checked: the liveness properties `EventuallySettled` (payroll and
vesting), `EventuallyPaid`, `EventuallyDecided`, `EveryCallEnds`, `ConnectEnds` and
`EventuallyAccurate`, since the prover handles neither fairness, which is defined
by `ENABLED`, nor leads-to from it. The five sentences of the second table are
false and have no theorem. The models use no recursive operator.

## What is left out

* `rate_per_second`, labels, memos, titles, creation times and events: stored or
  published, never read by the contracts. The token and recipient of a
  governance proposal: `execute` does not use them.
* `StreamStatus::Paused`, `WithdrawalStatus::Cancelled`: no operation stores
  them. `ProposalStatus::Expired` is only returned.
* `upgrade`, which replaces the program, and storage lifetimes, which no
  invocation observes.
* Misbehaving tokens, minting and the overflow of a token's balance.
* Of the frontend: `getStream`, which returns placeholders; the hooks' empty
  operations and `disconnectWallet`; pages, formatting and configuration, which
  keep no state that changes. Why a transaction fails, and what is in it. After a
  switch of account in Freighter the provider keeps the old address; since nothing
  on the pages follows Freighter, the model states no property of it.
* `@stellar/freighter-api` is modelled by how the code uses it, not by what the
  installed version exports: a function that it lacks throws, which the models
  allow at every question.

## Plan

Done: the escrow and both contracts that implement it, the vault and the
treasury, the ballot and governance, the payroll client, the wallet, and a
theorem for every safety property the runs check. What is left of the code keeps
no state (see above).

Next, proofs of results that no run states as yet:

1. What the abstract specifications promise by themselves, and through the
   refinements each contract: a vault never pays more than was asked for and
   approved, a vote that was cast stays.
2. The steps on which the liveness arguments rest and that need no `ENABLED`: a
   claim that its guard allows stays allowed until the stream is settled, an
   approved request stays executable while the balance covers it, what each step
   makes smaller.
