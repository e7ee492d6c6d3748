------------------------------ MODULE Vectors ------------------------------
(***************************************************************************)
(* What the contracts' loops over a soroban Vec build.  Vec itself is not  *)
(* part of the repository: push_back is Append, and a loop that pushes     *)
(* some of the elements it visits onto an empty Vec is Selected.           *)
(*                                                                         *)
(* Selected is a recursive function and not SelectSeq, so that what it     *)
(* yields can be proved for every list.                                    *)
(***************************************************************************)
EXTENDS Integers, Sequences

Elements(list) == {list[k] : k \in DOMAIN list}

(***************************************************************************)
(* The list holds the numbers of the set ids, each once and in order.      *)
(***************************************************************************)
Enumerates(list, ids) ==
  /\ Elements(list) = ids
  /\ \A j, k \in DOMAIN list : j < k => list[j] < list[k]

(***************************************************************************)
(* The elements of list at the positions of the set chosen, in order:      *)
(* pushed[k] is the vector after the first k turns of the loop.            *)
(***************************************************************************)
Selected(list, chosen) ==
  LET pushed[k \in 0 .. Len(list)] ==
        IF k = 0 THEN <<>>
        ELSE IF k \in chosen THEN Append(pushed[k - 1], list[k])
        ELSE pushed[k - 1]
  IN  pushed[Len(list)]

(***************************************************************************)
(* Every occurrence of x is dropped.                                       *)
(***************************************************************************)
Without(list, x) == Selected(list, {k \in DOMAIN list : list[k] # x})
=============================================================================
