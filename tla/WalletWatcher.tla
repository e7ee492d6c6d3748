--------------------------- MODULE WalletWatcher ---------------------------
(***************************************************************************)
(* watchWalletChanges: every two seconds a poll asks Freighter for the     *)
(* account and the network, and the callback hears of what is new.  A poll *)
(* does not wait for the one before: they overlap when Freighter is slow,  *)
(* and an older answer may be told after a newer one.                      *)
(***************************************************************************)
EXTENDS Freighter

CONSTANTS Polls,         \* polls that may be under way at once
          MaxFailures    \* questions that Freighter fails to answer

ASSUME FailuresAssumption == MaxFailures \in Nat

VARIABLES
  polls,      \* each poll: the question it waits for, the address it has
  last,       \* lastAddress and lastNetwork
  told,       \* what the callback was last called with
  interval,   \* the interval runs: nobody has unsubscribed
  failures    \* so far

watcher == <<polls, last, told, interval, failures>>

Poll == [waitsFor : {"isAllowed", "getPublicKey", "getNetworkDetails", None},
         address : Accounts \cup {None}]

NoPoll == [waitsFor |-> None, address |-> None]

Nothing == <<None, None>>

Seen == (Accounts \X Networks) \cup {Nothing}

InitWatcher ==
  /\ polls = [p \in Polls |-> NoPoll]
  /\ last = Nothing
  /\ told = Nothing
  /\ interval = TRUE
  /\ failures = 0

Watch ==
  \E p \in Polls :
    /\ interval
    /\ polls[p] = NoPoll
    /\ polls' = [polls EXCEPT ![p].waitsFor = "isAllowed"]
    /\ UNCHANGED <<last, told, interval, failures>>

(* A poll that is under way goes on, and may still call the callback. *)
Unsubscribe ==
  /\ interval
  /\ interval' = FALSE
  /\ UNCHANGED <<polls, last, told, failures>>

-----------------------------------------------------------------------------
(* Mutant: what was told last is not forgotten with the wallet. *)
KeptUnlessSeen(seen) == IF seen = Nothing THEN last ELSE seen

(* Mutant: the network that was told last is not forgotten. *)
KeptNetwork(seen) == IF seen = Nothing THEN <<None, last[2]>> ELSE seen

Remembered(seen) == seen

(* The end of a poll: the callback hears of what it has not heard of. *)
Tell(p, seen) ==
  /\ polls' = [polls EXCEPT ![p] = NoPoll]
  /\ IF seen = last
       THEN UNCHANGED <<last, told>>
       ELSE /\ last' = Remembered(seen)
            /\ told' = seen
  /\ UNCHANGED <<interval, failures>>

IsAllowed(p) ==
  /\ polls[p].waitsFor = "isAllowed"
  /\ ~freighter.allowed
  /\ Tell(p, Nothing)

GoOn(p) ==
  /\ polls[p].waitsFor = "isAllowed"
  /\ freighter.allowed
  /\ polls' = [polls EXCEPT ![p].waitsFor = "getPublicKey"]
  /\ UNCHANGED <<last, told, interval, failures>>

GetPublicKey(p) ==
  /\ polls[p].waitsFor = "getPublicKey"
  /\ polls' = [polls EXCEPT ![p] = [waitsFor |-> "getNetworkDetails",
                                    address |-> freighter.account]]
  /\ UNCHANGED <<last, told, interval, failures>>

GetNetwork(p) ==
  /\ polls[p].waitsFor = "getNetworkDetails"
  /\ Tell(p, <<polls[p].address, freighter.network>>)

Progress(p) == IsAllowed(p) \/ GoOn(p) \/ GetPublicKey(p) \/ GetNetwork(p)

(* Errors are ignored. *)
Ignore(p) ==
  /\ polls[p] # NoPoll
  /\ failures < MaxFailures
  /\ polls' = [polls EXCEPT ![p] = NoPoll]
  /\ failures' = failures + 1
  /\ UNCHANGED <<last, told, interval>>

-----------------------------------------------------------------------------
WatcherTypeOK ==
  /\ polls \in [Polls -> Poll]
  /\ last \in Seen
  /\ told \in Seen
  /\ interval \in BOOLEAN
  /\ failures \in 0 .. MaxFailures

Actual ==
  IF freighter.allowed THEN <<freighter.account, freighter.network>>
  ELSE Nothing

(***************************************************************************)
(* A poll may tell the account of one moment with the network of another,  *)
(* or something older than what was told before.  Once the wallet is left  *)
(* alone and answers, the callback has heard of what is, and hears of      *)
(* nothing else any more.                                                  *)
(***************************************************************************)
EventuallyAccurate == <>[]interval => <>[](told = Actual)
=============================================================================
