---------------------------- MODULE WalletProofs ----------------------------
(***************************************************************************)
(* The provider's connect and disconnect do not meet, and what a page      *)
(* shows is one outcome, for any number of connects, accounts, networks    *)
(* and changes that the person makes in the wallet.                        *)
(***************************************************************************)
EXTENDS Wallet, TLAPS

(***************************************************************************)
(* While a connect is under way there is neither an address nor an error,  *)
(* which is why its end leaves only one of them: the two properties keep   *)
(* each other.  A poll that asks for the network has an address.           *)
(***************************************************************************)
Addressed ==
  \A p \in Polls :
    polls[p].waitsFor = "getNetworkDetails" => polls[p].address \in Accounts

IInv == TypeOK /\ Addressed /\ OneConnection /\ OneOutcome

USE FreighterAssumption, ProviderAssumption, FailuresAssumption

-----------------------------------------------------------------------------
LEMMA InitSound == Init => IInv
<1> SUFFICES ASSUME Init PROVE IInv
  OBVIOUS
<1>1. TypeOK
  <2>1. NoConnect \in Connect /\ NoPoll \in Poll /\ Nothing \in Seen
    BY DEF NoConnect, Connect, NoPoll, Poll, Seen
  <2>2. ProviderTypeOK
    BY <2>1 DEF Init, InitProvider, ProviderTypeOK
  <2>3. WatcherTypeOK
    BY <2>1 DEF Init, InitWatcher, WatcherTypeOK
  <2> QED BY <2>2, <2>3 DEF Init, InitExtension, TypeOK
<1>2. Addressed /\ OneConnection /\ OneOutcome
  BY DEF Init, InitProvider, InitWatcher, Addressed, NoPoll, Questions,
         OneConnection, OneOutcome, Pending
<1> QED BY <1>1, <1>2 DEF IInv

(***************************************************************************)
(* A question that is answered, when another one follows.                  *)
(***************************************************************************)
LEMMA Asked ==
  ASSUME IInv, NEW c \in Connects, connects[c].waitsFor # None,
         NEW r \in Connect, r.waitsFor \in Questions,
         connects' = [connects EXCEPT ![c] = r],
         UNCHANGED <<address, isConnecting, error>>
  PROVE  ProviderTypeOK' /\ OneConnection' /\ OneOutcome'
<1>1. c \in Pending
  BY DEF Pending, NoConnect
<1>2. Pending' = Pending
  <2>1. connects'[c] # NoConnect
    BY DEF IInv, TypeOK, ProviderTypeOK, NoConnect
  <2>2. \A d \in Connects : d # c => connects'[d] = connects[d]
    BY DEF IInv, TypeOK, ProviderTypeOK
  <2> QED BY <1>1, <2>1, <2>2 DEF Pending
<1> QED BY <1>2 DEF IInv, TypeOK, ProviderTypeOK, OneConnection, OneOutcome

(***************************************************************************)
(* The end of a connect, which was the only one.                           *)
(***************************************************************************)
LEMMA Ended ==
  ASSUME IInv, NEW c \in Connects, connects[c].waitsFor # None,
         NEW e \in Errors \cup {None}, End(c, e)
  PROVE  ProviderTypeOK' /\ OneConnection' /\ OneOutcome'
<1>1. c \in Pending
  BY DEF Pending, NoConnect
<1>2. isConnecting /\ address = None /\ error = None
  BY <1>1 DEF IInv, OneConnection, OneOutcome
<1>3. \A d \in Connects : connects'[d] = NoConnect
  BY <1>1 DEF IInv, TypeOK, ProviderTypeOK, OneConnection, Pending, End
<1>4. ProviderTypeOK'
  <2>1. NoConnect \in Connect
    BY DEF NoConnect, Connect
  <2>2. connects[c].address \in Accounts \cup {None}
    BY DEF IInv, TypeOK, ProviderTypeOK, Connect
  <2> QED BY <1>2, <2>1, <2>2 DEF IInv, TypeOK, ProviderTypeOK, End
<1>5. OneConnection' /\ OneOutcome'
  BY <1>2, <1>3 DEF OneConnection, OneOutcome, Pending, End
<1> QED BY <1>4, <1>5

LEMMA ProceedSound ==
  ASSUME IInv, NEW c \in Connects, Proceed(c), UNCHANGED watcher
  PROVE  IInv'
<1>1. WatcherTypeOK' /\ Addressed'
  BY DEF IInv, TypeOK, WatcherTypeOK, Addressed, watcher
<1>2. freighter' \in Extension /\ changes' \in 0 .. MaxChanges
  BY DEF IInv, TypeOK, Proceed, FirstIsAllowed, SetAllowed, SecondIsAllowed,
         GetAddress, GetNetworkDetails, Throw, extension, Answer, Extension
<1>3. ASSUME NEW q \in Questions, Ask(c, q), connects[c].waitsFor # None
      PROVE  ProviderTypeOK' /\ OneConnection' /\ OneOutcome'
  <2> DEFINE r == [connects[c] EXCEPT !.waitsFor = q]
  <2>1. r \in Connect /\ r.waitsFor \in Questions
    BY DEF IInv, TypeOK, ProviderTypeOK, Connect
  <2>2. connects' = [connects EXCEPT ![c] = r]
    BY <1>3 DEF Ask, IInv, TypeOK, ProviderTypeOK
  <2> HIDE DEF r
  <2> QED BY <1>3, <2>1, <2>2, Asked DEF Ask
<1>4. ASSUME NEW e \in Errors \cup {None}, End(c, e), connects[c].waitsFor # None
      PROVE  ProviderTypeOK' /\ OneConnection' /\ OneOutcome'
  BY <1>4, Ended
<1>5. connects[c].waitsFor # None
  BY DEF Proceed, FirstIsAllowed, SetAllowed, SecondIsAllowed, GetAddress,
         GetNetworkDetails, Throw, Questions
<1>6. ProviderTypeOK' /\ OneConnection' /\ OneOutcome'
  <2>1. CASE FirstIsAllowed(c)
    BY <1>3, <1>5, <2>1 DEF FirstIsAllowed, Questions
  <2>2. CASE SetAllowed(c)
    BY <1>3, <1>5, <2>2 DEF SetAllowed, Questions
  <2>3. CASE SecondIsAllowed(c)
    BY <1>3, <1>4, <1>5, <2>3 DEF SecondIsAllowed, Refused, Questions, Errors
  <2>4. CASE GetAddress(c)
    <3> DEFINE r == [waitsFor |-> "getNetworkDetails",
                     address |-> freighter.account]
    <3>1. r \in Connect /\ r.waitsFor \in Questions
      BY DEF IInv, TypeOK, Extension, Connect, Questions
    <3> QED BY <1>5, <2>4, <3>1, Asked DEF GetAddress
  <2>5. CASE GetNetworkDetails(c)
    BY <1>4, <1>5, <2>5 DEF GetNetworkDetails, Errors
  <2>6. CASE Throw(c)
    BY <1>4, <1>5, <2>6 DEF Throw, Errors
  <2> QED BY <2>1, <2>2, <2>3, <2>4, <2>5, <2>6 DEF Proceed
<1> QED BY <1>1, <1>2, <1>6 DEF IInv, TypeOK

(***************************************************************************)
(* The button: connecting starts when no connect is under way, and only    *)
(* then is there something to disconnect.                                  *)
(***************************************************************************)
LEMMA ClickSound ==
  ASSUME IInv, UNCHANGED watcher,
         (\E c \in Connects : ClickConnect(c)) \/ ClickDisconnect
  PROVE  IInv'
<1>1. WatcherTypeOK' /\ Addressed'
  BY DEF IInv, TypeOK, WatcherTypeOK, Addressed, watcher
<1>2. freighter' \in Extension /\ changes' \in 0 .. MaxChanges
  BY DEF IInv, TypeOK, ClickConnect, ClickDisconnect, extension
<1>3. ASSUME NEW c \in Connects, ClickConnect(c)
      PROVE  ProviderTypeOK' /\ OneConnection' /\ OneOutcome'
  <2>1. ~isConnecting /\ address = None /\ Pending = {}
    BY <1>3 DEF ClickConnect, OffersConnect, IInv, OneConnection
  <2>2. ProviderTypeOK'
    BY <1>3 DEF ClickConnect, Cleared, IInv, TypeOK, ProviderTypeOK, Connect,
                Questions
  <2>3. Pending' = {c}
    <3>1. \A d \in Connects : d # c => connects'[d] = connects[d]
      BY <1>3 DEF ClickConnect, IInv, TypeOK, ProviderTypeOK
    <3>2. connects'[c].waitsFor = "isAllowed"
      BY <1>3 DEF ClickConnect, IInv, TypeOK, ProviderTypeOK, Connect
    <3>3. connects'[c] # NoConnect
      BY <3>2 DEF NoConnect, Questions
    <3> QED BY <2>1, <3>1, <3>3 DEF Pending
  <2> QED BY <1>3, <2>1, <2>2, <2>3
          DEF ClickConnect, Cleared, OneConnection, OneOutcome
<1>4. CASE ClickDisconnect
  <2>1. ~isConnecting /\ Pending' = Pending
    BY <1>4 DEF ClickDisconnect, IInv, OneConnection, Pending
  <2> QED BY <1>1, <1>2, <1>4, <2>1
          DEF ClickDisconnect, IInv, TypeOK, ProviderTypeOK, OneConnection,
              OneOutcome
<1> QED BY <1>1, <1>2, <1>3, <1>4 DEF IInv, TypeOK

LEMMA WatcherSound ==
  ASSUME IInv, UNCHANGED <<provider, extension>>,
         \/ Watch \/ Unsubscribe
         \/ \E p \in Polls : Progress(p) \/ Ignore(p)
  PROVE  IInv'
<1>1. ASSUME NEW p \in Polls, NEW r \in Poll,
             r.waitsFor = "getNetworkDetails" => r.address \in Accounts,
             polls' = [polls EXCEPT ![p] = r]
      PROVE  polls' \in [Polls -> Poll] /\ Addressed'
  <2>1. \A q \in Polls : polls'[q] = IF q = p THEN r ELSE polls[q]
    BY <1>1 DEF IInv, TypeOK, WatcherTypeOK
  <2> QED BY <1>1, <2>1 DEF IInv, TypeOK, WatcherTypeOK, Addressed
<1>2. /\ NoPoll \in Poll
      /\ NoPoll.waitsFor = "getNetworkDetails" => NoPoll.address \in Accounts
  BY DEF NoPoll, Poll, Questions
<1>3. ASSUME NEW p \in Polls, NEW seen \in Seen, Tell(p, seen)
      PROVE  WatcherTypeOK' /\ Addressed'
  <2>1. polls' \in [Polls -> Poll] /\ Addressed'
    BY <1>1, <1>2, <1>3 DEF Tell
  <2> QED BY <1>3, <2>1 DEF Tell, Remembered, IInv, TypeOK, WatcherTypeOK
<1>4. ASSUME NEW p \in Polls, Progress(p) \/ Ignore(p)
      PROVE  WatcherTypeOK' /\ Addressed'
  <2>1. CASE IsAllowed(p)
    BY <1>3, <2>1 DEF IsAllowed, Seen
  <2>2. CASE GoOn(p)
    <3> DEFINE r == [polls[p] EXCEPT !.waitsFor = "getPublicKey"]
    <3>1. r \in Poll /\ r.waitsFor # "getNetworkDetails"
      BY DEF Poll, IInv, TypeOK, WatcherTypeOK
    <3>2. polls' = [polls EXCEPT ![p] = r]
      BY <2>2 DEF GoOn, IInv, TypeOK, WatcherTypeOK
    <3> HIDE DEF r
    <3>3. polls' \in [Polls -> Poll] /\ Addressed'
      BY <1>1, <3>1, <3>2
    <3> QED BY <2>2, <3>3 DEF GoOn, IInv, TypeOK, WatcherTypeOK
  <2>3. CASE GetPublicKey(p)
    <3> DEFINE r == [waitsFor |-> "getNetworkDetails",
                     address |-> freighter.account]
    <3>1. r \in Poll /\ r.address \in Accounts
      BY DEF Poll, IInv, TypeOK, Extension
    <3>2. polls' = [polls EXCEPT ![p] = r]
      BY <2>3 DEF GetPublicKey
    <3> HIDE DEF r
    <3>3. polls' \in [Polls -> Poll] /\ Addressed'
      BY <1>1, <3>1, <3>2
    <3> QED BY <2>3, <3>3 DEF GetPublicKey, IInv, TypeOK, WatcherTypeOK
  <2>4. CASE GetNetwork(p)
    <3>1. freighter.network \in Networks /\ polls[p].address \in Accounts
      BY <2>4 DEF GetNetwork, IInv, TypeOK, Extension, Addressed
    <3> QED BY <1>3, <2>4, <3>1 DEF GetNetwork, Seen
  <2>5. CASE Ignore(p)
    <3>1. polls' \in [Polls -> Poll] /\ Addressed'
      BY <1>1, <1>2, <2>5 DEF Ignore
    <3> QED BY <2>5, <3>1 DEF Ignore, IInv, TypeOK, WatcherTypeOK
  <2> QED BY <1>4, <2>1, <2>2, <2>3, <2>4, <2>5 DEF Progress
<1>5. ASSUME Watch PROVE WatcherTypeOK' /\ Addressed'
  <2>1. PICK p \in Polls :
          /\ polls[p] = NoPoll
          /\ polls' = [polls EXCEPT ![p].waitsFor = "isAllowed"]
    BY <1>5 DEF Watch
  <2> DEFINE r == [polls[p] EXCEPT !.waitsFor = "isAllowed"]
  <2>2. r \in Poll /\ r.waitsFor # "getNetworkDetails"
    BY DEF Poll, IInv, TypeOK, WatcherTypeOK
  <2>3. polls' = [polls EXCEPT ![p] = r]
    BY <2>1 DEF IInv, TypeOK, WatcherTypeOK
  <2> HIDE DEF r
  <2>4. polls' \in [Polls -> Poll] /\ Addressed'
    BY <1>1, <2>2, <2>3
  <2>5. UNCHANGED <<last, told, failures>> /\ interval' = interval
    BY <1>5 DEF Watch
  <2> QED BY <2>4, <2>5 DEF IInv, TypeOK, WatcherTypeOK
<1>6. ASSUME Unsubscribe PROVE WatcherTypeOK' /\ Addressed'
  <2>1. UNCHANGED <<polls, last, told, failures>> /\ interval' \in BOOLEAN
    BY <1>6 DEF Unsubscribe
  <2> QED BY <2>1 DEF IInv, TypeOK, WatcherTypeOK, Addressed
<1>7. WatcherTypeOK' /\ Addressed'
  <2>1. (\E p \in Polls : Progress(p) \/ Ignore(p)) \/ Watch \/ Unsubscribe
    OBVIOUS
  <2> QED BY <1>4, <1>5, <1>6, <2>1
<1> QED BY <1>7 DEF IInv, TypeOK, ProviderTypeOK, OneConnection, OneOutcome,
                    Pending, provider, extension

-----------------------------------------------------------------------------
LEMMA StepSound == IInv /\ [Next]_vars => IInv'
<1> SUFFICES ASSUME IInv, [Next]_vars PROVE IInv'
  OBVIOUS
<1>1. CASE Change /\ UNCHANGED <<provider, watcher>>
  BY <1>1 DEF Change, provider, watcher, IInv, TypeOK, ProviderTypeOK,
              WatcherTypeOK, Addressed, OneConnection, OneOutcome, Pending
<1>2. CASE UNCHANGED vars
  BY <1>2 DEF vars, extension, provider, watcher, IInv, TypeOK, ProviderTypeOK,
              WatcherTypeOK, Addressed, OneConnection, OneOutcome, Pending
<1> QED BY <1>1, <1>2, ProceedSound, ClickSound, WatcherSound DEF Next

THEOREM Invariance == Spec => []IInv
BY InitSound, StepSound, PTL DEF Spec

(***************************************************************************)
(* The types of the variables, for every value of the constants.           *)
(***************************************************************************)
THEOREM TypeCorrect == Spec => []TypeOK
<1>1. IInv => TypeOK
  BY DEF IInv
<1> QED BY <1>1, Invariance, PTL

(***************************************************************************)
(* At most one connect is under way, the provider says so exactly then,    *)
(* and a disconnect and a connect never overlap, so that none is undone.   *)
(***************************************************************************)
THEOREM Separation == Spec => []OneConnection
<1>1. IInv => OneConnection
  BY DEF IInv
<1> QED BY <1>1, Invariance, PTL

(***************************************************************************)
(* A page never shows an error next to an address or while connecting.     *)
(***************************************************************************)
THEOREM Unambiguity == Spec => []OneOutcome
<1>1. IInv => OneOutcome
  BY DEF IInv
<1> QED BY <1>1, Invariance, PTL
=============================================================================
