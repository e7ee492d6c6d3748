--------------------------- MODULE PayrollClient ---------------------------
(***************************************************************************)
(* PayrollClient.createStream and the hook usePayrollStream: a transaction *)
(* is built, simulated, signed in the wallet, sent and then looked up      *)
(* until the network knows it.  Every await is a point at which other      *)
(* calls of the hook, the network and the clock go on.                     *)
(*                                                                         *)
(* Outside of the code: an RPC server, whose requests and answers may be   *)
(* lost, and the ledger behind it, which applies a transaction at any time *)
(* while it is valid and its sequence number is the account's next one.    *)
(*                                                                         *)
(* The clock ticks every two seconds, the pause between two lookups.  All  *)
(* times are counted from an event of the call they belong to.             *)
(***************************************************************************)
EXTENDS Naturals

CONSTANTS Calls,         \* calls of the hook's createStream
          Validity,      \* setTimeout(30): 15 ticks in the program
          MaxAttempts,   \* lookups after the first one: 15 in the program
          Lag,           \* ticks until the server knows a ledger at the latest
          NoMessage      \* null

ASSUME PayrollClientAssumption ==
  /\ Validity \in Nat /\ MaxAttempts \in Nat /\ Lag \in Nat
  /\ NoMessage \notin {"thrown", "FAILED", "NOT_FOUND"}

VARIABLES
  calls,         \* each call: its place in the code, and its transaction
  txState,       \* the hook's state
  errorMessage   \* the hook's other state

hook == <<txState, errorMessage>>
vars == <<calls, hook>>

(***************************************************************************)
(* Where a call waits: for getAccount, simulateTransaction, the wallet,    *)
(* sendTransaction, getTransaction, the pause, and, after the client's     *)
(* catch, for the hook's catch.                                            *)
(***************************************************************************)
Asking == {"simulating", "built", "signing", "submitting", "polling"}
Ended == {"success", "error"}
Stages == {"idle", "waiting", "caught"} \cup Asking \cup Ended

TransactionStates ==
  {"idle", "simulating", "signing", "submitting", "polling"} \cup Ended

(***************************************************************************)
(* Why a call failed: a request threw, or this was the status of the       *)
(* transaction when the client stopped looking it up.                      *)
(***************************************************************************)
Reasons == {"thrown", "FAILED", "NOT_FOUND"}

(* The age from which on nothing depends on it any more. *)
MaxAge == IF Lag = 0 THEN Validity + 1 ELSE Validity + Lag

Older(age, most) == IF age < most THEN age + 1 ELSE age

Call ==
  [stage : Stages,
   age : 0 .. MaxAge,                  \* since the transaction was built
   next : BOOLEAN,                     \* its sequence number is the next one
   sent : BOOLEAN,                     \* it is on its way to the network
   reached : BOOLEAN,                  \* the network has it
   result : {"NOT_FOUND", "SUCCESS", "FAILED"},   \* in the ledger
   known : 0 .. Lag,                   \* since it is in the ledger
   enough : BOOLEAN,                   \* history: EnoughLookups at the first
   attempts : 0 .. MaxAttempts,
   rested : BOOLEAN,                   \* the pause is over
   reason : Reasons \cup {NoMessage}]

NotStarted ==
  [stage |-> "idle", age |-> 0, next |-> FALSE, sent |-> FALSE,
   reached |-> FALSE, result |-> "NOT_FOUND", known |-> 0, attempts |-> 0,
   enough |-> FALSE, rested |-> FALSE, reason |-> NoMessage]

Init ==
  /\ calls = [c \in Calls |-> NotStarted]
  /\ txState = "idle"
  /\ errorMessage = NoMessage

-----------------------------------------------------------------------------
(***************************************************************************)
(* The hook forgets the last message; the client reports "simulating"      *)
(* before its first await.                                                 *)
(***************************************************************************)
Start(c) ==
  /\ calls[c].stage = "idle"
  /\ calls' = [calls EXCEPT ![c].stage = "simulating"]
  /\ txState' = "simulating"
  /\ errorMessage' = NoMessage

(***************************************************************************)
(* The sequence number that getAccount answers may be outdated.  Nothing   *)
(* is reported.                                                            *)
(***************************************************************************)
Build(c) ==
  /\ calls[c].stage = "simulating"
  /\ \E current \in BOOLEAN :
       calls' = [calls EXCEPT ![c].stage = "built", ![c].age = 0,
                              ![c].next = current]
  /\ UNCHANGED hook

Report(c, stage) ==
  /\ txState' = stage
  /\ UNCHANGED errorMessage

Simulate(c) ==
  /\ calls[c].stage = "built"
  /\ calls' = [calls EXCEPT ![c].stage = "signing"]
  /\ Report(c, "signing")

(***************************************************************************)
(* signTransaction: the wallet, which is there and set to the network (or  *)
(* Throw), shows the transaction to a person, who takes any time or none.  *)
(***************************************************************************)
Sign(c) ==
  /\ calls[c].stage = "signing"
  /\ calls' = [calls EXCEPT ![c].stage = "submitting", ![c].sent = TRUE]
  /\ Report(c, "submitting")

(***************************************************************************)
(* Lookups that begin at this age end after the transaction's validity     *)
(* and, if it was taken in on the last occasion, when the server has to    *)
(* know of it.                                                             *)
(***************************************************************************)
EnoughLookups(age) ==
  /\ Validity < age + MaxAttempts
  /\ Validity + Lag <= age + MaxAttempts

(***************************************************************************)
(* sendTransaction answers.  What the network did not take, it will not    *)
(* take later either; the client looks a refused transaction up all the    *)
(* same unless the answer has errorResultXdr (then Throw).                 *)
(***************************************************************************)
Submit(c) ==
  /\ calls[c].stage = "submitting"
  /\ calls' = [calls EXCEPT ![c].stage = "polling", ![c].sent = FALSE,
                            ![c].enough = EnoughLookups(calls[c].age)]
  /\ Report(c, "polling")

(* Mutant: the lookups end one pause earlier. *)
OneLookupFewer(call) == call.attempts < MaxAttempts - 1

(* Mutant: the client looks up as often as it takes. *)
LooksForEver(call) == TRUE

LooksAgain(call) == call.attempts < MaxAttempts

(* Mutant: the lookups are not counted. *)
NotCounted(n) == n

Counted(n) == n + 1

(***************************************************************************)
(* What getTransaction may answer: the server knows the ledger up to Lag.  *)
(***************************************************************************)
Answers(call) ==
  IF call.known < Lag THEN {"NOT_FOUND", call.result} ELSE {call.result}

Pause(c) ==
  /\ calls[c].stage = "polling"
  /\ "NOT_FOUND" \in Answers(calls[c])
  /\ LooksAgain(calls[c])
  /\ calls' = [calls EXCEPT ![c].stage = "waiting", ![c].rested = FALSE,
                            ![c].attempts = Counted(@)]
  /\ UNCHANGED hook

Wake(c) ==
  /\ calls[c].stage = "waiting"
  /\ calls[c].rested
  /\ calls' = [calls EXCEPT ![c].stage = "polling"]
  /\ UNCHANGED hook

IsSuccess(status) == status = "SUCCESS"

Succeed(c) ==
  /\ calls[c].stage = "polling"
  /\ \E status \in Answers(calls[c]) : IsSuccess(status)
  /\ calls' = [calls EXCEPT ![c].stage = "success"]
  /\ Report(c, "success")

(***************************************************************************)
(* The client's catch: the call failed in the ledger, or was looked up     *)
(* often enough without being found; or a request threw.                   *)
(***************************************************************************)
Catch(c, reason) ==
  /\ calls' = [calls EXCEPT ![c].stage = "caught", ![c].reason = reason]
  /\ txState' = "error"
  /\ errorMessage' = reason

FailWithStatus(c) ==
  /\ calls[c].stage = "polling"
  /\ \E status \in Answers(calls[c]) :
       /\ ~IsSuccess(status)
       /\ status = "NOT_FOUND" => ~LooksAgain(calls[c])
       /\ Catch(c, status)

Throw(c) ==
  /\ calls[c].stage \in Asking
  /\ Catch(c, "thrown")

(***************************************************************************)
(* The hook's catch, in a later microtask, sets both states again.         *)
(***************************************************************************)
(* Mutant: the hook leaves the message to the client's report. *)
ShowStateOnly(call) ==
  /\ txState' = "error"
  /\ UNCHANGED errorMessage

ShowError(call) ==
  /\ txState' = "error"
  /\ errorMessage' = call.reason

Rethrow(c) ==
  /\ calls[c].stage = "caught"
  /\ calls' = [calls EXCEPT ![c].stage = "error"]
  /\ ShowError(calls[c])

Proceed(c) ==
  \/ Build(c) \/ Simulate(c) \/ Sign(c) \/ Submit(c)
  \/ Pause(c) \/ Wake(c) \/ Succeed(c) \/ FailWithStatus(c)
  \/ Throw(c) \/ Rethrow(c)

-----------------------------------------------------------------------------
(***************************************************************************)
(* The network receives a transaction, before or after the client has      *)
(* given up waiting for the answer.                                        *)
(***************************************************************************)
Receive(c) ==
  /\ calls[c].sent
  /\ ~calls[c].reached
  /\ calls' = [calls EXCEPT ![c].reached = TRUE]
  /\ UNCHANGED hook

(***************************************************************************)
(* The ledger takes a transaction in, successful or not, which uses up the *)
(* sequence number; so does any other transaction of the account.          *)
(***************************************************************************)
Include(c) ==
  /\ calls[c].reached /\ calls[c].next /\ calls[c].age <= Validity
  /\ \E result \in {"SUCCESS", "FAILED"} :
       calls' = [d \in Calls |->
                   [calls[d] EXCEPT
                      !.next = FALSE,
                      !.result = IF d = c THEN result ELSE @,
                      !.known = IF d = c THEN 0 ELSE @]]
  /\ UNCHANGED hook

OtherTransaction ==
  /\ \E c \in Calls : calls[c].next
  /\ calls' = [c \in Calls |-> [calls[c] EXCEPT !.next = FALSE]]
  /\ UNCHANGED hook

Tick ==
  /\ calls' = [c \in Calls |->
                 IF calls[c].stage \in {"idle", "simulating"} THEN calls[c]
                 ELSE [calls[c] EXCEPT
                         !.age = Older(@, MaxAge),
                         !.known = IF calls[c].result = "NOT_FOUND" THEN @
                                   ELSE Older(@, Lag),
                         !.rested = calls[c].stage = "waiting"]]
  /\ UNCHANGED hook

Next ==
  \/ \E c \in Calls : Start(c) \/ Proceed(c) \/ Receive(c) \/ Include(c)
  \/ OtherTransaction
  \/ Tick

Spec == Init /\ [][Next]_vars

(***************************************************************************)
(* Time passes, and whatever a call waits for comes or fails: the server   *)
(* and the wallet answer in the end.  Nobody has to start a call, and the  *)
(* network has to take nothing.                                            *)
(***************************************************************************)
FairSpec ==
  /\ Spec
  /\ WF_vars(Tick)
  /\ \A c \in Calls : WF_vars(Proceed(c))

-----------------------------------------------------------------------------
(***************************************************************************)
(* The types of the variables.                                             *)
(***************************************************************************)
TypeOK ==
  /\ calls \in [Calls -> Call]
  /\ txState \in TransactionStates
  /\ errorMessage \in Reasons \cup {NoMessage}

(***************************************************************************)
(* A call that returned has created its stream.  One that failed because   *)
(* its transaction had failed has not and never will; nor will one whose   *)
(* transaction was not found although it was looked up long enough:        *)
(* whoever tries again then does not create a second stream.  (Nothing of  *)
(* this kind holds when a request threw.)                                  *)
(***************************************************************************)
OutcomeIsFinal ==
  \A c \in Calls :
    /\ calls[c].stage = "success" => calls[c].result = "SUCCESS"
    /\ calls[c].reason = "FAILED" => calls[c].result = "FAILED"
    /\ calls[c].reason = "NOT_FOUND" /\ calls[c].enough =>
         calls[c].result = "NOT_FOUND"

(***************************************************************************)
(* The message of a call that failed with the status of its transaction    *)
(* says that the transaction failed.                                       *)
(***************************************************************************)
FailedHasFailed ==
  \A c \in Calls :
    calls[c].reason \in {"FAILED", "NOT_FOUND"} => calls[c].result # "SUCCESS"

(***************************************************************************)
(* Calls that overlap share one status and one message.  When no call is   *)
(* under way any more, they are the outcome of one and the same call, and  *)
(* the message of an error is the reason for which that call failed.       *)
(***************************************************************************)
Quiet == \A c \in Calls : calls[c].stage \in {"idle"} \cup Ended

StatusShown ==
  Quiet =>
    \/ \A c \in Calls : calls[c].stage = "idle"
    \/ \E c \in Calls :
         /\ calls[c].stage = txState
         /\ txState = "error" => errorMessage = calls[c].reason

(***************************************************************************)
(* Every call ends.                                                        *)
(***************************************************************************)
EveryCallEnds ==
  \A c \in Calls : calls[c].stage = "simulating" ~> calls[c].stage \in Ended
=============================================================================
