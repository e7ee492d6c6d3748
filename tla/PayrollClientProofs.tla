------------------------ MODULE PayrollClientProofs ------------------------
(***************************************************************************)
(* What createStream reports of a transaction that it has looked up long   *)
(* enough never turns out to be wrong, for every validity, number of       *)
(* lookups and lag, and for any number of calls.                           *)
(***************************************************************************)
EXTENDS PayrollClient, Integers, TLAPS

BeforeSubmission == {"idle", "simulating", "built", "signing"}

(***************************************************************************)
(* A transaction is in the ledger only if the network had it, at most      *)
(* once, and within its validity: its age exceeds the validity at most by  *)
(* the time since.                                                         *)
(***************************************************************************)
InLedger(r) ==
  /\ r.stage \in BeforeSubmission => ~r.sent /\ ~r.reached
  /\ r.result # "NOT_FOUND" =>
       r.reached /\ ~r.next /\ (r.known = Lag \/ r.age <= Validity + r.known)

(***************************************************************************)
(* The lookups keep up with the clock: each pause is at least a tick, from *)
(* the age at which there were enough lookups to come.                     *)
(***************************************************************************)
Waited(r, ticks) == r.age = MaxAge \/ EnoughLookups(r.age - ticks)

LookedUp(r) ==
  /\ r.stage \in BeforeSubmission \cup {"submitting"} => r.attempts = 0
  /\ r.enough /\ r.stage = "polling" => Waited(r, r.attempts)
  /\ r.enough /\ r.stage = "waiting" =>
       /\ Waited(r, r.attempts - 1)
       /\ r.rested => Waited(r, r.attempts)

(***************************************************************************)
(* What has been reported: a failure in the ledger, or a transaction that  *)
(* is too old to get there, provided that there were enough lookups.       *)
(***************************************************************************)
Reported(r) ==
  /\ r.stage = "success" => r.result = "SUCCESS"
  /\ r.stage \in {"caught", "error"} <=> r.reason # NoMessage
  /\ r.reason = "FAILED" => r.result = "FAILED"
  /\ r.reason = "NOT_FOUND" /\ r.enough =>
       r.result = "NOT_FOUND" /\ r.age > Validity

Sound(r) == InLedger(r) /\ LookedUp(r) /\ Reported(r)

AllSound == \A c \in Calls : Sound(calls[c])

IInv == TypeOK /\ AllSound

USE DEF Asking, Ended, Stages, Reasons

-----------------------------------------------------------------------------
LEMMA Facts ==
  /\ Validity \in Nat /\ MaxAttempts \in Nat /\ Lag \in Nat
  /\ MaxAge \in Nat /\ MaxAge > Validity /\ MaxAge >= Validity + Lag
  /\ NoMessage \notin Reasons
BY PayrollClientAssumption DEF MaxAge

(***************************************************************************)
(* A step of one call keeps the invariant of all calls if it keeps that    *)
(* call's.                                                                 *)
(***************************************************************************)
LEMMA OneCall ==
  ASSUME IInv, NEW c \in Calls, NEW r \in Call, Sound(r),
         calls' = [calls EXCEPT ![c] = r],
         txState' \in TransactionStates, errorMessage' \in Reasons \cup {NoMessage}
  PROVE  IInv'
<1>1. \A d \in Calls : calls'[d] = IF d = c THEN r ELSE calls[d]
  BY DEF IInv, TypeOK
<1>2. TypeOK'
  BY DEF IInv, TypeOK
<1>3. AllSound'
  BY <1>1 DEF IInv, AllSound, Sound, InLedger, LookedUp, Reported, Waited
<1> QED BY <1>2, <1>3 DEF IInv

LEMMA InitSound == Init => IInv
<1> SUFFICES ASSUME Init PROVE IInv
  OBVIOUS
<1>1. NotStarted \in Call /\ Sound(NotStarted)
  BY Facts DEF NotStarted, Call, Sound, InLedger, LookedUp, Reported,
               BeforeSubmission
<1>2. TypeOK
  BY <1>1 DEF Init, TypeOK, TransactionStates
<1>3. AllSound
  BY <1>1 DEF Init, AllSound
<1> QED BY <1>2, <1>3 DEF IInv

(***************************************************************************)
(* One lemma for each action.  Where a call goes on by itself, r is what   *)
(* becomes of its record.                                                  *)
(***************************************************************************)
LEMMA StartSound == ASSUME IInv, NEW c \in Calls, Start(c) PROVE IInv'
<1> DEFINE r == [calls[c] EXCEPT !.stage = "simulating"]
<1>1. r \in Call /\ Sound(r)
  <2> DEFINE q == calls[c]
  <2>1. q \in Call /\ Sound(q) /\ q.stage = "idle"
    BY DEF Start, IInv, TypeOK, AllSound
  <2>2. r \in Call
    BY <2>1 DEF Call
  <2>3. /\ r.stage = "simulating" /\ r.age = q.age /\ r.next = q.next
        /\ r.sent = q.sent /\ r.reached = q.reached
        /\ r.result = q.result /\ r.known = q.known
        /\ r.enough = q.enough /\ r.attempts = q.attempts
        /\ r.rested = q.rested /\ r.reason = q.reason
    BY <2>1 DEF Call
  <2> HIDE DEF q, r
  <2> QED BY <2>1, <2>2, <2>3, Facts
          DEF Sound, InLedger, LookedUp, Reported, Waited, BeforeSubmission
<1> QED BY <1>1, OneCall DEF Start, IInv, TypeOK, Call, TransactionStates

LEMMA BuildSound == ASSUME IInv, NEW c \in Calls, Build(c) PROVE IInv'
<1>1. PICK current \in BOOLEAN :
        calls' = [calls EXCEPT ![c].stage = "built", ![c].age = 0,
                               ![c].next = current]
  BY DEF Build
<1> DEFINE r == [calls[c] EXCEPT !.stage = "built", !.age = 0, !.next = current]
<1>2. r \in Call /\ Sound(r)
  <2>1. calls[c] \in Call /\ Sound(calls[c]) /\ calls[c].stage = "simulating"
    BY DEF Build, IInv, TypeOK, AllSound
  <2>2. r \in Call
    <3>1. 0 \in 0 .. MaxAge /\ "built" \in Stages
      BY Facts
    <3> HIDE DEF Stages
    <3> QED BY <2>1, <3>1 DEF Call
  <2>3. r.stage = "built" /\ r.attempts = calls[c].attempts
        /\ r.sent = calls[c].sent /\ r.reached = calls[c].reached
        /\ r.result = calls[c].result /\ r.reason = calls[c].reason
    BY <2>1 DEF Call
  <2> HIDE DEF r
  <2> QED BY <2>1, <2>2, <2>3, Facts
          DEF Sound, InLedger, LookedUp, Reported, BeforeSubmission
<1>3. calls' = [calls EXCEPT ![c] = r]
  BY <1>1 DEF IInv, TypeOK, Call
<1> QED BY <1>2, <1>3, OneCall DEF Build, hook, IInv, TypeOK

LEMMA SimulateSound == ASSUME IInv, NEW c \in Calls, Simulate(c) PROVE IInv'
<1> DEFINE r == [calls[c] EXCEPT !.stage = "signing"]
<1>1. r \in Call /\ Sound(r)
  <2> DEFINE q == calls[c]
  <2>1. q \in Call /\ Sound(q) /\ q.stage = "built"
    BY DEF Simulate, IInv, TypeOK, AllSound
  <2>2. r \in Call
    BY <2>1 DEF Call
  <2>3. /\ r.stage = "signing" /\ r.age = q.age /\ r.next = q.next
        /\ r.sent = q.sent /\ r.reached = q.reached
        /\ r.result = q.result /\ r.known = q.known
        /\ r.enough = q.enough /\ r.attempts = q.attempts
        /\ r.rested = q.rested /\ r.reason = q.reason
    BY <2>1 DEF Call
  <2> HIDE DEF q, r
  <2> QED BY <2>1, <2>2, <2>3, Facts
          DEF Sound, InLedger, LookedUp, Reported, Waited, BeforeSubmission
<1> QED BY <1>1, OneCall DEF Simulate, Report, IInv, TypeOK, Call, TransactionStates

LEMMA SignSound == ASSUME IInv, NEW c \in Calls, Sign(c) PROVE IInv'
<1> DEFINE r == [calls[c] EXCEPT !.stage = "submitting", !.sent = TRUE]
<1>1. r \in Call /\ Sound(r)
  <2> DEFINE q == calls[c]
  <2>1. q \in Call /\ Sound(q) /\ q.stage = "signing"
    BY DEF Sign, IInv, TypeOK, AllSound
  <2>2. r \in Call
    BY <2>1 DEF Call
  <2>3. /\ r.stage = "submitting" /\ r.sent = TRUE /\ r.age = q.age
        /\ r.next = q.next /\ r.reached = q.reached
        /\ r.result = q.result /\ r.known = q.known
        /\ r.enough = q.enough /\ r.attempts = q.attempts
        /\ r.rested = q.rested /\ r.reason = q.reason
    BY <2>1 DEF Call
  <2> HIDE DEF q, r
  <2> QED BY <2>1, <2>2, <2>3, Facts
          DEF Sound, InLedger, LookedUp, Reported, Waited, BeforeSubmission
<1>2. calls' = [calls EXCEPT ![c] = r]
  BY DEF Sign, IInv, TypeOK, Call
<1> QED BY <1>1, <1>2, OneCall DEF Sign, Report, IInv, TypeOK, TransactionStates

LEMMA SubmitSound == ASSUME IInv, NEW c \in Calls, Submit(c) PROVE IInv'
<1> DEFINE r == [calls[c] EXCEPT !.stage = "polling", !.sent = FALSE,
                                 !.enough = EnoughLookups(calls[c].age)]
<1>1. calls[c] \in Call /\ Sound(calls[c]) /\ calls[c].stage = "submitting"
  BY DEF Submit, IInv, TypeOK, AllSound
<1>2. EnoughLookups(calls[c].age) \in BOOLEAN
  BY DEF EnoughLookups
<1>3. r \in Call
  <2>1. "polling" \in Stages
    OBVIOUS
  <2> HIDE DEF Stages
  <2> QED BY <1>1, <1>2, <2>1 DEF Call
<1>4. /\ r.stage = "polling" /\ r.age = calls[c].age /\ r.next = calls[c].next
      /\ r.reached = calls[c].reached /\ r.result = calls[c].result
      /\ r.known = calls[c].known /\ r.attempts = 0 /\ r.age \in Nat
      /\ r.enough <=> EnoughLookups(r.age)
      /\ r.reason = calls[c].reason
  BY <1>1, <1>2, Facts DEF Call, Sound, LookedUp
<1>5. r.age - 0 = r.age
  BY <1>4
<1> HIDE DEF r
<1>6. Sound(r)
  BY <1>1, <1>4, <1>5, Facts
  DEF Sound, InLedger, LookedUp, Reported, Waited, BeforeSubmission
<1>7. calls' = [calls EXCEPT ![c] = r]
  BY DEF Submit, IInv, TypeOK, Call, r
<1> QED BY <1>3, <1>6, <1>7, OneCall DEF Submit, Report, IInv, TypeOK, TransactionStates

LEMMA PauseSound == ASSUME IInv, NEW c \in Calls, Pause(c) PROVE IInv'
<1> DEFINE r == [calls[c] EXCEPT !.stage = "waiting", !.rested = FALSE,
                                 !.attempts = @ + 1]
<1>1. r \in Call /\ Sound(r)
  <2>1. calls[c] \in Call /\ Sound(calls[c]) /\ calls[c].stage = "polling"
        /\ calls[c].attempts < MaxAttempts
    BY DEF Pause, LooksAgain, IInv, TypeOK, AllSound
  <2>2. r \in Call
    <3>1. calls[c].attempts + 1 \in 0 .. MaxAttempts /\ "waiting" \in Stages
      BY <2>1, Facts DEF Call
    <3> HIDE DEF Stages
    <3> QED BY <2>1, <3>1 DEF Call
  <2>3. /\ r.stage = "waiting" /\ ~r.rested
        /\ r.attempts = calls[c].attempts + 1 /\ r.attempts \in Nat
        /\ r.age = calls[c].age /\ r.next = calls[c].next
        /\ r.known = calls[c].known /\ r.reached = calls[c].reached
        /\ r.result = calls[c].result /\ r.reason = calls[c].reason
    BY <2>1, Facts DEF Call
  <2>4. r.attempts - 1 = calls[c].attempts /\ r.enough = calls[c].enough
    BY <2>1, <2>3, Facts DEF Call
  <2> HIDE DEF r
  <2> QED BY <2>1, <2>2, <2>3, <2>4
          DEF Sound, InLedger, LookedUp, Reported, Waited, BeforeSubmission
<1>2. calls' = [calls EXCEPT ![c] = r]
  BY DEF Pause, Counted, IInv, TypeOK, Call
<1> QED BY <1>1, <1>2, OneCall DEF Pause, hook, IInv, TypeOK

LEMMA WakeSound == ASSUME IInv, NEW c \in Calls, Wake(c) PROVE IInv'
<1> DEFINE r == [calls[c] EXCEPT !.stage = "polling"]
<1>1. r \in Call /\ Sound(r)
  BY Facts DEF IInv, TypeOK, AllSound, Wake, Call, Sound, InLedger, LookedUp,
               Reported, Waited, BeforeSubmission
<1> QED BY <1>1, OneCall DEF Wake, hook, IInv, TypeOK, Call

LEMMA SucceedSound == ASSUME IInv, NEW c \in Calls, Succeed(c) PROVE IInv'
<1> DEFINE r == [calls[c] EXCEPT !.stage = "success"]
<1>1. calls[c].result = "SUCCESS"
  BY DEF Succeed, Answers, IsSuccess, IInv, TypeOK, Call
<1>2. r \in Call /\ Sound(r)
  BY <1>1, Facts DEF IInv, TypeOK, AllSound, Succeed, Call, Sound, InLedger,
               LookedUp, Reported, Waited, BeforeSubmission
<1> QED BY <1>2, OneCall DEF Succeed, Report, IInv, TypeOK, Call, TransactionStates

(***************************************************************************)
(* This is where the number of lookups matters: if it was enough, the last *)
(* one comes after the transaction's validity and the server's lag.        *)
(***************************************************************************)
LEMMA LastLookup ==
  ASSUME NEW r \in Call, Sound(r), r.stage = "polling", r.enough,
         "NOT_FOUND" \in Answers(r), ~LooksAgain(r)
  PROVE  r.result = "NOT_FOUND" /\ r.age > Validity
<1>1. r.age \in Nat /\ r.attempts = MaxAttempts
  BY Facts DEF Call, LooksAgain
<1>2. r.age = MaxAge \/ EnoughLookups(r.age - MaxAttempts)
  BY <1>1 DEF Sound, LookedUp, Waited
<1>3. r.age > Validity /\ r.age >= Validity + Lag
  BY <1>1, <1>2, Facts DEF EnoughLookups
<1>4. ASSUME r.result # "NOT_FOUND" PROVE FALSE
  <2>1. r.known = Lag
    BY <1>1, <1>3, <1>4, Facts DEF Sound, InLedger, Call
  <2> QED BY <1>4, <2>1, Facts DEF Answers
<1> QED BY <1>3, <1>4

LEMMA FailWithStatusSound ==
  ASSUME IInv, NEW c \in Calls, FailWithStatus(c) PROVE IInv'
<1>1. calls[c] \in Call /\ Sound(calls[c]) /\ calls[c].stage = "polling"
  BY DEF FailWithStatus, IInv, TypeOK, AllSound
<1>2. PICK status \in Answers(calls[c]) :
        /\ ~IsSuccess(status)
        /\ status = "NOT_FOUND" => ~LooksAgain(calls[c])
        /\ Catch(c, status)
  BY DEF FailWithStatus
<1> DEFINE r == [calls[c] EXCEPT !.stage = "caught", !.reason = status]
<1>3. /\ status \in {"FAILED", "NOT_FOUND"}
      /\ status = "FAILED" => calls[c].result = "FAILED"
  BY <1>1, <1>2 DEF Answers, IsSuccess, Call
<1>4. status = "NOT_FOUND" /\ calls[c].enough =>
        calls[c].result = "NOT_FOUND" /\ calls[c].age > Validity
  BY <1>1, <1>2, LastLookup
<1>5. r \in Call
  <2>1. "caught" \in Stages /\ status \in Reasons \cup {NoMessage}
    BY <1>3
  <2> HIDE DEF Stages, Reasons
  <2> QED BY <1>1, <2>1 DEF Call
<1>6. /\ r.stage = "caught" /\ r.reason = status
      /\ r.age = calls[c].age /\ r.next = calls[c].next
      /\ r.reached = calls[c].reached /\ r.result = calls[c].result
      /\ r.known = calls[c].known /\ r.enough = calls[c].enough
  BY <1>1 DEF Call
<1> HIDE DEF r
<1>7. Sound(r)
  BY <1>1, <1>3, <1>4, <1>6, Facts
  DEF Sound, InLedger, LookedUp, Reported, BeforeSubmission
<1>8. calls' = [calls EXCEPT ![c] = r]
  BY <1>2 DEF Catch, IInv, TypeOK, Call, r
<1> QED BY <1>2, <1>3, <1>5, <1>7, <1>8, OneCall DEF Catch, TransactionStates

LEMMA ThrowSound == ASSUME IInv, NEW c \in Calls, Throw(c) PROVE IInv'
<1> DEFINE r == [calls[c] EXCEPT !.stage = "caught", !.reason = "thrown"]
<1>1. r \in Call /\ Sound(r)
  <2> DEFINE q == calls[c]
  <2>1. q \in Call /\ Sound(q) /\ q.stage \in Asking
    BY DEF Throw, IInv, TypeOK, AllSound
  <2>2. r \in Call
    BY <2>1 DEF Call
  <2>3. /\ r.stage = "caught" /\ r.reason = "thrown" /\ r.age = q.age
        /\ r.next = q.next /\ r.sent = q.sent /\ r.reached = q.reached
        /\ r.result = q.result /\ r.known = q.known
        /\ r.enough = q.enough /\ r.attempts = q.attempts
        /\ r.rested = q.rested
    BY <2>1 DEF Call
  <2> HIDE DEF q, r
  <2> QED BY <2>1, <2>2, <2>3, Facts
          DEF Sound, InLedger, LookedUp, Reported, Waited, BeforeSubmission
<1>2. calls' = [calls EXCEPT ![c] = r]
  BY DEF Throw, Catch, IInv, TypeOK, Call
<1> QED BY <1>1, <1>2, OneCall DEF Throw, Catch, TransactionStates

LEMMA RethrowSound == ASSUME IInv, NEW c \in Calls, Rethrow(c) PROVE IInv'
<1> DEFINE r == [calls[c] EXCEPT !.stage = "error"]
<1>1. r \in Call /\ Sound(r)
  <2> DEFINE q == calls[c]
  <2>1. q \in Call /\ Sound(q) /\ q.stage = "caught"
    BY DEF Rethrow, IInv, TypeOK, AllSound
  <2>2. r \in Call
    BY <2>1 DEF Call
  <2>3. /\ r.stage = "error" /\ r.age = q.age /\ r.next = q.next
        /\ r.sent = q.sent /\ r.reached = q.reached
        /\ r.result = q.result /\ r.known = q.known
        /\ r.enough = q.enough /\ r.attempts = q.attempts
        /\ r.rested = q.rested /\ r.reason = q.reason
    BY <2>1 DEF Call
  <2> HIDE DEF q, r
  <2> QED BY <2>1, <2>2, <2>3, Facts
          DEF Sound, InLedger, LookedUp, Reported, Waited, BeforeSubmission
<1> QED BY <1>1, OneCall
        DEF Rethrow, ShowError, IInv, TypeOK, Call, TransactionStates

LEMMA ReceiveSound == ASSUME IInv, NEW c \in Calls, Receive(c) PROVE IInv'
<1> DEFINE r == [calls[c] EXCEPT !.reached = TRUE]
<1>1. calls[c] \in Call /\ Sound(calls[c]) /\ calls[c].sent
  BY DEF Receive, IInv, TypeOK, AllSound
<1>2. r \in Call /\ Sound(r)
  <2> DEFINE q == calls[c]
  <2>1. q \in Call /\ Sound(q) /\ q.sent
    BY <1>1
  <2>2. r \in Call
    BY <2>1 DEF Call
  <2>3. /\ r.reached = TRUE /\ r.stage = q.stage /\ r.age = q.age
        /\ r.next = q.next /\ r.sent = q.sent /\ r.result = q.result
        /\ r.known = q.known /\ r.enough = q.enough
        /\ r.attempts = q.attempts /\ r.rested = q.rested
        /\ r.reason = q.reason
    BY <2>1 DEF Call
  <2> HIDE DEF q, r
  <2> QED BY <2>1, <2>2, <2>3, Facts
          DEF Sound, InLedger, LookedUp, Reported, Waited, BeforeSubmission
<1> QED BY <1>2, OneCall DEF Receive, hook, IInv, TypeOK, Call

-----------------------------------------------------------------------------
(***************************************************************************)
(* What the ledger and the clock do to the record of every call.           *)
(***************************************************************************)
LEMMA AllCalls ==
  ASSUME IInv, \A d \in Calls : calls'[d] \in Call /\ Sound(calls'[d]),
         calls' = [d \in Calls |-> calls'[d]], UNCHANGED hook
  PROVE  IInv'
<1>1. TypeOK'
  <2>1. calls' \in [Calls -> Call]
    OBVIOUS
  <2> QED BY <2>1 DEF IInv, TypeOK, hook
<1>2. AllSound'
  <2>1. \A d \in Calls : Sound(calls'[d])
    OBVIOUS
  <2> QED BY <2>1 DEF AllSound, Sound, InLedger, LookedUp, Reported, Waited
<1> QED BY <1>1, <1>2 DEF IInv

(* A transaction that loses its sequence number is what it was. *)
LEMMA Overtaken ==
  ASSUME NEW r \in Call, Sound(r)
  PROVE  [r EXCEPT !.next = FALSE] \in Call /\ Sound([r EXCEPT !.next = FALSE])
<1> DEFINE q == [r EXCEPT !.next = FALSE]
<1>1. q \in Call
  <2> HIDE DEF Stages
  <2> QED BY DEF Call
<1>2. /\ q.stage = r.stage /\ q.age = r.age /\ ~q.next /\ q.sent = r.sent
      /\ q.reached = r.reached /\ q.result = r.result /\ q.known = r.known
      /\ q.attempts = r.attempts /\ q.enough = r.enough
      /\ q.rested = r.rested /\ q.reason = r.reason
  <2> HIDE DEF Stages
  <2> QED BY DEF Call
<1> HIDE DEF q
<1>3. Sound(q)
  BY <1>2 DEF Sound, InLedger, LookedUp, Reported, Waited
<1> QED BY <1>1, <1>3 DEF q

LEMMA IncludeSound == ASSUME IInv, NEW c \in Calls, Include(c) PROVE IInv'
<1>1. PICK result \in {"SUCCESS", "FAILED"} :
        calls' = [d \in Calls |->
                    [calls[d] EXCEPT
                       !.next = FALSE,
                       !.result = IF d = c THEN result ELSE @,
                       !.known = IF d = c THEN 0 ELSE @]]
  BY DEF Include
<1>2. \A d \in Calls : calls[d] \in Call /\ Sound(calls[d])
  BY DEF IInv, TypeOK, AllSound
<1>3. ASSUME NEW d \in Calls, d # c
      PROVE  calls'[d] \in Call /\ Sound(calls'[d])
  <2>1. calls'[d] = [calls[d] EXCEPT !.next = FALSE]
    BY <1>1, <1>2, <1>3 DEF Call
  <2> QED BY <1>2, <2>1, Overtaken
<1>4. calls'[c] \in Call /\ Sound(calls'[c])
  <2> DEFINE q == calls[c]
             r == [q EXCEPT !.next = FALSE, !.result = result, !.known = 0]
  <2>1. calls'[c] = r
    BY <1>1
  <2>2. q \in Call /\ Sound(q) /\ q.reached /\ q.next /\ q.age <= Validity
    BY <1>2 DEF Include
  <2>3. q.result = "NOT_FOUND"
    BY <2>2 DEF Sound, InLedger
  <2>4. /\ q.stage # "success" /\ q.reason # "FAILED"
        /\ ~(q.reason = "NOT_FOUND" /\ q.enough)
    BY <2>2, <2>3, Facts DEF Sound, Reported, Call
  <2>5. r \in Call
    <3>1. 0 \in 0 .. Lag
      BY Facts
    <3> HIDE DEF Stages, q
    <3> QED BY <2>2, <3>1 DEF Call
  <2>6. /\ r.stage = q.stage /\ r.age = q.age /\ ~r.next /\ r.sent = q.sent
        /\ r.reached = q.reached /\ r.known = 0 /\ r.attempts = q.attempts
        /\ r.rested = q.rested /\ r.reason = q.reason /\ r.enough = q.enough
    BY <2>2 DEF Call
  <2>7. r.age <= Validity + r.known
    BY <2>2, <2>6, Facts DEF Call
  <2> HIDE DEF q, r
  <2>8. Sound(r)
    BY <2>2, <2>4, <2>6, <2>7 DEF Sound, InLedger, LookedUp, Reported, Waited
  <2> QED BY <2>1, <2>5, <2>8
<1>5. calls' = [d \in Calls |-> calls'[d]]
  BY <1>1
<1>6. UNCHANGED hook
  BY DEF Include
<1> QED BY <1>3, <1>4, <1>5, <1>6, AllCalls

LEMMA OtherTransactionSound == ASSUME IInv, OtherTransaction PROVE IInv'
<1>1. \A d \in Calls : calls'[d] = [calls[d] EXCEPT !.next = FALSE]
  BY DEF OtherTransaction
<1>2. \A d \in Calls : calls'[d] \in Call /\ Sound(calls'[d])
  BY <1>1, Overtaken DEF IInv, TypeOK, AllSound
<1>3. calls' = [d \in Calls |-> calls'[d]]
  BY DEF OtherTransaction
<1>4. UNCHANGED hook
  BY DEF OtherTransaction
<1> QED BY <1>2, <1>3, <1>4, AllCalls

(***************************************************************************)
(* The age of a call and the time since its transaction is in the ledger   *)
(* grow together, up to their bounds.                                      *)
(***************************************************************************)
LEMMA TickSound == ASSUME IInv, Tick PROVE IInv'
<1> DEFINE Aged(q) == [q EXCEPT
                         !.age = Older(@, MaxAge),
                         !.known = IF q.result = "NOT_FOUND" THEN @
                                   ELSE Older(@, Lag),
                         !.rested = q.stage = "waiting"]
<1>1. \A d \in Calls :
        calls'[d] = IF calls[d].stage \in {"idle", "simulating"} THEN calls[d]
                    ELSE Aged(calls[d])
  BY DEF Tick
<1>2. ASSUME NEW q \in Call, Sound(q)
      PROVE  Aged(q) \in Call /\ Sound(Aged(q))
  <2> DEFINE r == Aged(q)
  <2>1. /\ r.stage = q.stage /\ r.next = q.next /\ r.sent = q.sent
        /\ r.reached = q.reached /\ r.result = q.result
        /\ r.attempts = q.attempts /\ r.reason = q.reason /\ r.enough = q.enough
        /\ r.rested = (q.stage = "waiting") /\ r.age = Older(q.age, MaxAge)
        /\ r.known = IF q.result = "NOT_FOUND" THEN q.known ELSE Older(q.known, Lag)
    BY <1>2 DEF Call
  <2>2. /\ q.age \in 0 .. MaxAge /\ q.known \in 0 .. Lag
        /\ q.attempts \in 0 .. MaxAttempts
    BY <1>2 DEF Call
  <2>3. /\ r.age \in 0 .. MaxAge /\ r.known \in 0 .. Lag
        /\ r.age >= q.age /\ (r.age = MaxAge \/ r.age = q.age + 1)
    BY <2>1, <2>2, Facts DEF Older
  <2>4. r \in Call
    <3> HIDE DEF Stages
    <3> QED BY <1>2, <2>3 DEF Call
  <2> HIDE DEF r, Aged
  <2>5. InLedger(r)
    BY <1>2, <2>1, <2>2, <2>3, Facts DEF Sound, InLedger, Older
  <2>6. LookedUp(r)
    <3>1. ASSUME NEW n \in Int, Waited(q, n) PROVE Waited(r, n)
      BY <2>2, <2>3, <3>1, Facts DEF Waited, EnoughLookups
    <3>2. ASSUME NEW n \in Int, Waited(q, n - 1) PROVE Waited(r, n)
      BY <2>2, <2>3, <3>2, Facts DEF Waited, EnoughLookups
    <3> QED BY <1>2, <2>1, <2>2, <3>1, <3>2, Facts DEF Sound, LookedUp
  <2>7. Reported(r)
    BY <1>2, <2>1, <2>2, <2>3, Facts DEF Sound, Reported
  <2> QED BY <2>4, <2>5, <2>6, <2>7 DEF Sound, r
<1>3. \A d \in Calls : calls[d] \in Call /\ Sound(calls[d])
  BY DEF IInv, TypeOK, AllSound
<1>4. \A d \in Calls : calls'[d] \in Call /\ Sound(calls'[d])
  <2> HIDE DEF Aged
  <2> QED BY <1>1, <1>2, <1>3
<1>5. calls' = [d \in Calls |-> calls'[d]]
  BY DEF Tick
<1>6. UNCHANGED hook
  BY DEF Tick
<1> QED BY <1>4, <1>5, <1>6, AllCalls

-----------------------------------------------------------------------------
LEMMA StepSound == IInv /\ [Next]_vars => IInv'
<1> SUFFICES ASSUME IInv, [Next]_vars PROVE IInv'
  OBVIOUS
<1>1. ASSUME NEW c \in Calls, Proceed(c) PROVE IInv'
  BY <1>1, BuildSound, SimulateSound, SignSound, SubmitSound, PauseSound,
     WakeSound, SucceedSound, FailWithStatusSound, ThrowSound, RethrowSound
  DEF Proceed
<1>2. CASE UNCHANGED vars
  BY <1>2 DEF vars, hook, IInv, TypeOK, AllSound, Sound, InLedger, LookedUp,
              Reported, Waited
<1> QED BY <1>1, <1>2, StartSound, ReceiveSound, IncludeSound,
           OtherTransactionSound, TickSound DEF Next

THEOREM Invariance == Spec => []IInv
BY InitSound, StepSound, PTL DEF Spec

(***************************************************************************)
(* The types of the variables, for every value of the constants.           *)
(***************************************************************************)
THEOREM TypeCorrect == Spec => []TypeOK
<1>1. IInv => TypeOK
  BY DEF IInv
<1> QED BY <1>1, Invariance, PTL

(***************************************************************************)
(* What createStream reports after its lookups is final: a transaction     *)
(* that it calls successful is in the ledger, one that it calls FAILED is  *)
(* there and has failed, and one that it calls NOT_FOUND never will be     *)
(* there, provided that enough lookups were left when they began.          *)
(***************************************************************************)
THEOREM FinalOutcome == Spec => []OutcomeIsFinal
<1>1. IInv => OutcomeIsFinal
  BY DEF IInv, AllSound, Sound, Reported, OutcomeIsFinal
<1> QED BY <1>1, Invariance, PTL

(***************************************************************************)
(* However calls overlap, the status that is left when no call is under    *)
(* way is the outcome of one of them, and the message of an error is that  *)
(* call's: only the end of a call makes the hook quiet, and it reports     *)
(* both.                                                                   *)
(***************************************************************************)
THEOREM ShownStatus == Spec => []StatusShown
<1> DEFINE Under(c) == calls[c].stage \notin {"idle"} \cup Ended
<1>1. Init => StatusShown
  BY DEF Init, StatusShown, NotStarted
<1>2. IInv /\ StatusShown /\ [Next]_vars => StatusShown'
  <2> SUFFICES ASSUME IInv, StatusShown, [Next]_vars PROVE StatusShown'
    OBVIOUS
  <2>1. ASSUME NEW c \in Calls, Start(c) PROVE StatusShown'
    <3>1. Under(c)'
      BY <2>1 DEF Start, IInv, TypeOK, Call
    <3> QED BY <3>1 DEF StatusShown, Quiet
  <2>2. ASSUME NEW c \in Calls,
               Build(c) \/ Simulate(c) \/ Sign(c) \/ Submit(c) \/ Pause(c) \/ Wake(c)
        PROVE  StatusShown'
    <3>1. Under(c)'
      BY <2>2 DEF Build, Simulate, Sign, Submit, Pause, Wake, IInv, TypeOK, Call
    <3> QED BY <3>1 DEF StatusShown, Quiet
  <2>3. ASSUME NEW c \in Calls, Succeed(c) PROVE StatusShown'
    <3>1. txState' = "success" /\ calls'[c].stage = "success"
      BY <2>3 DEF Succeed, Report, IInv, TypeOK, Call
    <3> QED BY <3>1 DEF StatusShown
  <2>4. ASSUME NEW c \in Calls, FailWithStatus(c) \/ Throw(c) PROVE StatusShown'
    <3>1. Under(c)'
      BY <2>4 DEF FailWithStatus, Throw, Catch, IInv, TypeOK, Call
    <3> QED BY <3>1 DEF StatusShown, Quiet
  <2>5. ASSUME NEW c \in Calls, Rethrow(c) PROVE StatusShown'
    <3>1. txState' = "error" /\ calls'[c].stage = "error"
      BY <2>5 DEF Rethrow, ShowError, IInv, TypeOK, Call
    <3>2. errorMessage' = calls'[c].reason
      BY <2>5 DEF Rethrow, ShowError, IInv, TypeOK, Call
    <3> QED BY <3>1, <3>2 DEF StatusShown
  <2>6. ASSUME UNCHANGED hook,
               \A c \in Calls : /\ calls'[c].stage = calls[c].stage
                               /\ calls'[c].reason = calls[c].reason
        PROVE  StatusShown'
    BY <2>6 DEF StatusShown, Quiet, hook
  <2>7. ASSUME NEW c \in Calls, Receive(c) \/ Include(c) PROVE StatusShown'
    <3>1. \A d \in Calls : /\ calls'[d].stage = calls[d].stage
                          /\ calls'[d].reason = calls[d].reason
      <4>1. \A d \in Calls : calls[d] \in Call
        BY DEF IInv, TypeOK
      <4>2. CASE Receive(c)
        BY <4>1, <4>2 DEF Receive, IInv, TypeOK, Call
      <4>3. CASE Include(c)
        <5> TAKE d \in Calls
        <5>1. PICK result, known :
                calls'[d] = [calls[d] EXCEPT !.next = FALSE, !.result = result,
                                             !.known = known]
          BY <4>3 DEF Include
        <5> QED BY <4>1, <5>1 DEF Call
      <4> QED BY <2>7, <4>2, <4>3
    <3>2. UNCHANGED hook
      BY <2>7 DEF Receive, Include
    <3> QED BY <2>6, <3>1, <3>2
  <2>8. CASE OtherTransaction \/ Tick
    <3>1. \A d \in Calls : /\ calls'[d].stage = calls[d].stage
                          /\ calls'[d].reason = calls[d].reason
      <4>1. \A d \in Calls : calls[d] \in Call
        BY DEF IInv, TypeOK
      <4>2. CASE OtherTransaction
        BY <4>1, <4>2 DEF OtherTransaction, Call
      <4>3. CASE Tick
        <5> TAKE d \in Calls
        <5>1. \/ calls'[d] = calls[d]
              \/ \E age, known, rested :
                   calls'[d] = [calls[d] EXCEPT !.age = age, !.known = known,
                                                !.rested = rested]
          BY <4>3 DEF Tick
        <5> QED BY <4>1, <5>1 DEF Call
      <4> QED BY <2>8, <4>2, <4>3
    <3>2. UNCHANGED hook
      BY <2>8 DEF OtherTransaction, Tick
    <3> QED BY <2>6, <3>1, <3>2
  <2>9. CASE UNCHANGED vars
    BY <2>6, <2>9 DEF vars
  <2> QED BY <2>1, <2>2, <2>3, <2>4, <2>5, <2>7, <2>8, <2>9 DEF Next, Proceed
<1> QED BY <1>1, <1>2, Invariance, PTL DEF Spec
=============================================================================
