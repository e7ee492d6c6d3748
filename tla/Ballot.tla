------------------------------- MODULE Ballot -------------------------------
(***************************************************************************)
(* What the governance contract promises: ballots on which each elector    *)
(* has one voice.  While a ballot is open, electors cast votes that cannot *)
(* be taken back; it is closed once, and passes only with more votes for   *)
(* it than against it; what passed may be enacted, once, and nothing else  *)
(* happens to a closed ballot.  The electorate changes at every moment,    *)
(* and a vote counts whether or not its voter leaves later.                *)
(*                                                                         *)
(* Time, quorum and the lists of votes are left to the contract.           *)
(***************************************************************************)
EXTENDS Integers, FiniteSets

CONSTANTS Users,      \* the addresses that may be electors
          Choices,    \* the votes that can be cast, among them Yes and No
          BallotIds   \* the identifiers of ballots

VARIABLES ballots, electorate

vars == <<ballots, electorate>>

Opened == [cast |-> [voter \in {} |-> voter], outcome |-> "open"]

Voices(b, choice) == {voter \in DOMAIN b.cast : b.cast[voter] = choice}

Ahead(b) == Cardinality(Voices(b, "Yes")) > Cardinality(Voices(b, "No"))

Settle(id, from, to) ==
  /\ ballots[id].outcome = from
  /\ ballots' = [ballots EXCEPT ![id].outcome = to]
  /\ UNCHANGED electorate

-----------------------------------------------------------------------------
Init ==
  /\ ballots = [id \in {} |-> id]
  /\ electorate = {}

Call(id) ==
  /\ id \notin DOMAIN ballots
  /\ ballots' = [i \in (DOMAIN ballots) \cup {id} |->
                   IF i = id THEN Opened ELSE ballots[i]]
  /\ UNCHANGED electorate

Cast(voter, id, choice) ==
  LET b == ballots[id]
  IN /\ b.outcome = "open"
     /\ voter \in electorate \ DOMAIN b.cast
     /\ ballots' = [ballots EXCEPT ![id].cast =
                      [v \in (DOMAIN b.cast) \cup {voter} |->
                         IF v = voter THEN choice ELSE b.cast[v]]]
     /\ UNCHANGED electorate

Pass(id) == Ahead(ballots[id]) /\ Settle(id, "open", "passed")

Fail(id) == Settle(id, "open", "failed")

Withdraw(id) == Settle(id, "open", "withdrawn")

Enact(id) == Settle(id, "passed", "enacted")

Enroll ==
  /\ electorate' \in SUBSET Users
  /\ UNCHANGED ballots

Next ==
  \/ \E id \in BallotIds : Call(id)
  \/ \E voter \in Users, id \in DOMAIN ballots, choice \in Choices :
       Cast(voter, id, choice)
  \/ \E id \in DOMAIN ballots :
       Pass(id) \/ Fail(id) \/ Withdraw(id) \/ Enact(id)
  \/ Enroll

Spec == Init /\ [][Next]_vars
=============================================================================
