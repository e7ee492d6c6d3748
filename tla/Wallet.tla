------------------------------- MODULE Wallet -------------------------------
(***************************************************************************)
(* The wallet code of the frontend: the provider and a watcher, next to    *)
(* each other in one page, and the Freighter extension that both ask.      *)
(***************************************************************************)
EXTENDS WalletProvider, WalletWatcher

vars == <<extension, provider, watcher>>

Init == InitExtension /\ InitProvider /\ InitWatcher

Next ==
  \/ Change /\ UNCHANGED <<provider, watcher>>
  \/ /\ \/ \E c \in Connects : ClickConnect(c) \/ Proceed(c)
        \/ ClickDisconnect
     /\ UNCHANGED watcher
  \/ /\ \/ Watch \/ Unsubscribe
        \/ \E p \in Polls : Progress(p) \/ Ignore(p)
     /\ UNCHANGED <<provider, extension>>

Spec == Init /\ [][Next]_vars

(***************************************************************************)
(* Freighter answers in the end (the person decides), and the interval     *)
(* goes on until it is cleared.  Nobody has to click or to change a thing. *)
(***************************************************************************)
FairSpec ==
  /\ Spec
  /\ \A c \in Connects : WF_vars(Proceed(c) /\ UNCHANGED watcher)
  /\ WF_vars(Watch /\ UNCHANGED <<provider, extension>>)
  /\ \A p \in Polls : WF_vars(Progress(p) /\ UNCHANGED <<provider, extension>>)

-----------------------------------------------------------------------------
(***************************************************************************)
(* The types of the variables.                                             *)
(***************************************************************************)
TypeOK ==
  /\ freighter \in Extension
  /\ changes \in 0 .. MaxChanges
  /\ ProviderTypeOK
  /\ WatcherTypeOK
=============================================================================
