---------------------------- MODULE MCTreasury ----------------------------
(* Instances of Treasury for TLC. *)
EXTENDS Treasury

CONSTANTS Ann, Bob, Cat, Usdc

(* The treasury can pay one request of 2, and another when Bob, who was *)
(* paid, gives it back.                                                 *)
MCInitialFunds ==
  [p \in Tokens \X Accounts |-> IF p[2] = Contract THEN 3 ELSE 0]

MCAmounts == {-1, 2}

(* The admin, Cat, is no signer at first. *)
MCSignerLists == {<<Ann, Bob>>}

(* A caller of initialize may name an address twice. *)
MCRepeatedSigners == {<<Ann, Ann, Bob>>}
=============================================================================
