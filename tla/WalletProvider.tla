--------------------------- MODULE WalletProvider ---------------------------
(***************************************************************************)
(* The connection that the pages show: WalletProvider's state, connect and *)
(* disconnect, connectWallet, and the button that calls them.  A connect   *)
(* stops at every question to Freighter, and meanwhile the page goes on.   *)
(***************************************************************************)
EXTENDS Freighter

CONSTANTS Connects,   \* calls of connect that may be under way at once
          Required    \* NETWORK.name

VARIABLES
  address, isConnecting, error,   \* the provider's state
  connects   \* each call of connect: the question it waits for, its address

provider == <<address, isConnecting, error, connects>>

Questions == {"isAllowed", "setAllowed", "isAllowedNow", "getAddress",
              "getNetworkDetails"}

ASSUME ProviderAssumption ==
  /\ Required \in Networks
  /\ None \notin Questions

Connect == [waitsFor : Questions \cup {None}, address : Accounts \cup {None}]

NoConnect == [waitsFor |-> None, address |-> None]

Errors == {"rejected", "network", "thrown"}

InitProvider ==
  /\ address = None
  /\ isConnecting = FALSE
  /\ error = None
  /\ connects = [c \in Connects |-> NoConnect]

(***************************************************************************)
(* The button offers to connect or to disconnect, whichever fits the       *)
(* address, and is disabled while a connect is under way.                  *)
(***************************************************************************)
(* Mutant: the button is not disabled. *)
OffersConnectAlways(connecting) == address = None

OffersConnect(connecting) == address = None /\ ~connecting

(* Mutant: the last error is left where it is. *)
LastError(e) == e

Cleared(e) == None

ClickConnect(c) ==
  /\ OffersConnect(isConnecting)
  /\ connects[c] = NoConnect
  /\ connects' = [connects EXCEPT ![c].waitsFor = "isAllowed"]
  /\ isConnecting' = TRUE
  /\ error' = Cleared(error)
  /\ UNCHANGED <<address, extension>>

ClickDisconnect ==
  /\ address # None
  /\ address' = None
  /\ error' = None
  /\ UNCHANGED <<isConnecting, connects, extension>>

-----------------------------------------------------------------------------
(***************************************************************************)
(* connectWallet, then the network, one question after the other.          *)
(***************************************************************************)
Ask(c, question) ==
  /\ connects' = [connects EXCEPT ![c].waitsFor = question]
  /\ UNCHANGED <<address, isConnecting, error>>

(* The end of connect: the catch, if there is an error, and the finally. *)
End(c, e) ==
  /\ connects' = [connects EXCEPT ![c] = NoConnect]
  /\ IF e = None
       THEN /\ address' = connects[c].address
            /\ UNCHANGED error
       ELSE /\ error' = e
            /\ UNCHANGED address
  /\ isConnecting' = FALSE

FirstIsAllowed(c) ==
  /\ connects[c].waitsFor = "isAllowed"
  /\ Ask(c, IF freighter.allowed THEN "getAddress" ELSE "setAllowed")
  /\ UNCHANGED extension

SetAllowed(c) ==
  /\ connects[c].waitsFor = "setAllowed"
  /\ Ask(c, "isAllowedNow")
  /\ Answer

(* Mutant: whoever refuses is asked again. *)
AskedAgain(c) == Ask(c, "setAllowed")

Refused(c) == End(c, "rejected")

SecondIsAllowed(c) ==
  /\ connects[c].waitsFor = "isAllowedNow"
  /\ IF freighter.allowed THEN Ask(c, "getAddress") ELSE Refused(c)
  /\ UNCHANGED extension

GetAddress(c) ==
  /\ connects[c].waitsFor = "getAddress"
  /\ connects' = [connects EXCEPT ![c] = [waitsFor |-> "getNetworkDetails",
                                          address |-> freighter.account]]
  /\ UNCHANGED <<address, isConnecting, error, extension>>

GetNetworkDetails(c) ==
  /\ connects[c].waitsFor = "getNetworkDetails"
  /\ End(c, IF freighter.network = Required THEN None ELSE "network")
  /\ UNCHANGED extension

(* No extension, a question that Freighter fails to answer, no address. *)
Throw(c) ==
  /\ connects[c].waitsFor # None
  /\ End(c, "thrown")
  /\ UNCHANGED extension

Proceed(c) ==
  \/ FirstIsAllowed(c) \/ SetAllowed(c) \/ SecondIsAllowed(c)
  \/ GetAddress(c) \/ GetNetworkDetails(c) \/ Throw(c)

-----------------------------------------------------------------------------
ProviderTypeOK ==
  /\ address \in Accounts \cup {None}
  /\ isConnecting \in BOOLEAN
  /\ error \in Errors \cup {None}
  /\ connects \in [Connects -> Connect]

(***************************************************************************)
(* connect and disconnect know nothing of each other: a connect that ends  *)
(* would undo a disconnect made meanwhile, and the first of two that end   *)
(* would say that none is under way.  The button keeps them apart: the     *)
(* provider says that it is connecting exactly while one connect is under  *)
(* way, and there is nothing to disconnect then.                           *)
(***************************************************************************)
Pending == {c \in Connects : connects[c] # NoConnect}

OneConnection ==
  /\ isConnecting <=> Pending # {}
  /\ \A c, d \in Pending : c = d
  /\ isConnecting => address = None

(***************************************************************************)
(* A page shows either an address or what went wrong: an error of an       *)
(* earlier connect is gone when a later one succeeds.                      *)
(***************************************************************************)
OneOutcome ==
  /\ address # None => error = None
  /\ isConnecting => error = None

(***************************************************************************)
(* The button is enabled again in the end, however the connect went.       *)
(***************************************************************************)
ConnectEnds == isConnecting ~> ~isConnecting
=============================================================================
