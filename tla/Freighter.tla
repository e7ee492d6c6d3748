----------------------------- MODULE Freighter -----------------------------
(***************************************************************************)
(* The Freighter extension as the wallet code of the frontend uses it: it  *)
(* tells whether the page may see the wallet, the account and the network. *)
(* The person in front of it changes each of them at any time, between any *)
(* two questions of the page.                                              *)
(***************************************************************************)
EXTENDS Naturals

CONSTANTS Accounts, Networks,
          MaxChanges,  \* changes of the person's own accord
          None         \* null

ASSUME FreighterAssumption ==
  /\ MaxChanges \in Nat
  /\ None \notin Accounts \cup Networks

VARIABLES
  freighter,   \* what the extension answers
  changes      \* made so far

extension == <<freighter, changes>>

(***************************************************************************)
(* "allowed" stands for isConnected and isAllowed, which the page asks one *)
(* after the other: without the extension nothing is allowed.              *)
(***************************************************************************)
Extension == [allowed : BOOLEAN, account : Accounts, network : Networks]

InitExtension ==
  /\ freighter \in {f \in Extension : ~f.allowed}
  /\ changes = 0

Change ==
  /\ changes < MaxChanges
  /\ freighter' \in Extension \ {freighter}
  /\ changes' = changes + 1

(***************************************************************************)
(* setAllowed asks the person, who allows the page to see the wallet or    *)
(* does not.                                                               *)
(***************************************************************************)
Answer ==
  /\ \E yes \in BOOLEAN :
       freighter' = [freighter EXCEPT !.allowed = @ \/ yes]
  /\ UNCHANGED changes
=============================================================================
