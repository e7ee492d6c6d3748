---------------------------- MODULE MCGovernance ----------------------------
(* Instances of Governance for TLC. *)
EXTENDS Governance

CONSTANTS Ann, Bob, Cat

MCAmounts == {-1, 2}

(* Three members, of whom 51 percent are one and a half. *)
MCMemberLists == {<<Ann, Bob, Cat>>}

(* The second lets finalize trap: 3 * 80 is no u32 in the model, 2 * 80 is, *)
(* and a vote that met the quorum has a deadline that is no u64.            *)
MCSafeSettings == {[quorum |-> 51, duration |-> 1, grace |-> 1]}
MCSettings ==
  MCSafeSettings \cup {[quorum |-> 80, duration |-> 1, grace |-> 100]}
=============================================================================
