----------------------------- MODULE Governance -----------------------------
(***************************************************************************)
(* The governance contract: members of a DAO propose budgets and vote on   *)
(* them for voting_duration seconds; afterwards anybody may finalize the   *)
(* proposal, and the admin executes what was approved.  The admin changes  *)
(* the members at any time, also during a vote.                            *)
(*                                                                         *)
(* Every call is one action; a call that fails is no step.                 *)
(***************************************************************************)
EXTENDS FiniteSets, Vectors

CONSTANTS Users,         \* the addresses that sign calls
          None,          \* the admin before initialize
          Admins,        \* the addresses that call initialize
          Amounts,       \* the values callers pass as amount
          MemberLists,   \* the vectors callers pass as the first members
          Settings,      \* the quorum, duration and grace callers pass
          MaxProposals,  \* bound on proposal_count
          MaxMembers,    \* bound on the number of members
          MaxTime,       \* bound on the ledger's timestamp
          MaxU32,        \* the largest u32, 2^32 - 1 in the program
          MaxU64         \* the largest u64, 2^64 - 1 in the program

ASSUME GovernanceAssumption ==
  /\ IsFiniteSet(Users)
  /\ None \notin Users
  /\ Admins \subseteq Users
  /\ Amounts \subseteq Int
  /\ MemberLists \subseteq Seq(Users)
  /\ Settings \subseteq [quorum : Nat, duration : Nat, grace : Nat]
  /\ MaxProposals \in Nat /\ MaxMembers \in Nat /\ MaxTime \in Nat
  /\ MaxU32 \in Nat /\ MaxU64 \in Nat

VARIABLES
  admin,              \* DataKey::Admin
  members,            \* DataKey::Members
  quorum_percentage,  \* DataKey::QuorumPercentage
  voting_duration,    \* DataKey::VotingDuration
  grace_period,       \* DataKey::GracePeriod
  proposal_count,     \* DataKey::ProposalCount
  proposals,          \* DataKey::Proposal(id), a function on the ids in use
  now                 \* env.ledger().timestamp()

settings == <<quorum_percentage, voting_duration, grace_period>>
vars == <<admin, members, settings, proposal_count, proposals, now>>

Choices == {"Yes", "No", "Abstain"}

(***************************************************************************)
(* Expired is never stored: only LiveStatus returns it.  title, token,     *)
(* recipient, start_time and the votes' timestamps are stored and never    *)
(* read, and are left out.                                                 *)
(***************************************************************************)
Statuses == {"Active", "Approved", "Rejected", "Executed", "Cancelled", "Expired"}

VoteRecord == [voter : Users, choice : Choices]

Proposal == [proposer : Users, amount : Nat, yes_votes : Nat, no_votes : Nat,
             abstain_votes : Nat, votes : Seq(VoteRecord),
             status : Statuses, end_time : Nat]

Voters(p) == {p.votes[k].voter : k \in DOMAIN p.votes}

-----------------------------------------------------------------------------
Init ==
  /\ admin = None
  /\ members = <<>>
  /\ quorum_percentage = 0 /\ voting_duration = 0 /\ grace_period = 0
  /\ proposal_count = 0
  /\ proposals = [id \in {} |-> id]
  /\ now = 0

(***************************************************************************)
(* Nothing is checked: neither the percentage nor the list of members.     *)
(***************************************************************************)
Initialize(caller, list, given) ==
  /\ admin = None
  /\ admin' = caller
  /\ members' = list
  /\ quorum_percentage' = given.quorum
  /\ voting_duration' = given.duration
  /\ grace_period' = given.grace
  /\ proposal_count' = 0
  /\ UNCHANGED <<proposals, now>>

(* Mutant: the check of the amount is dropped. *)
MayProposeAnything(proposer, amount) == proposer \in Elements(members)

MayPropose(proposer, amount) ==
  /\ proposer \in Elements(members)
  /\ amount > 0

CreateProposal(proposer, amount) ==
  /\ admin # None
  /\ MayPropose(proposer, amount)
  /\ now + voting_duration <= MaxU64
  /\ proposal_count < MaxProposals
  /\ proposals' =
       [id \in (DOMAIN proposals) \cup {proposal_count} |->
          IF id \in DOMAIN proposals THEN proposals[id]
          ELSE [proposer |-> proposer, amount |-> amount, yes_votes |-> 0,
                no_votes |-> 0, abstain_votes |-> 0, votes |-> <<>>,
                status |-> "Active", end_time |-> now + voting_duration]]
  /\ proposal_count' = proposal_count + 1
  /\ UNCHANGED <<admin, members, settings, now>>

(* Mutant: a member may vote on the same proposal again. *)
MayVoteAgain(voter, p) ==
  /\ voter \in Elements(members)
  /\ p.status = "Active"
  /\ now <= p.end_time

MayVote(voter, p) ==
  /\ voter \in Elements(members)
  /\ p.status = "Active"
  /\ now <= p.end_time
  /\ voter \notin Voters(p)

Counted(p, voter, choice) ==
  [p EXCEPT !.yes_votes = @ + (IF choice = "Yes" THEN 1 ELSE 0),
            !.no_votes = @ + (IF choice = "No" THEN 1 ELSE 0),
            !.abstain_votes = @ + (IF choice = "Abstain" THEN 1 ELSE 0),
            !.votes = Append(@, [voter |-> voter, choice |-> choice])]

Vote(voter, id, choice) ==
  /\ admin # None
  /\ id \in DOMAIN proposals
  /\ MayVote(voter, proposals[id])
  /\ proposals' = [proposals EXCEPT ![id] = Counted(proposals[id], voter, choice)]
  /\ UNCHANGED <<admin, members, settings, proposal_count, now>>

-----------------------------------------------------------------------------
(***************************************************************************)
(* The quorum is rounded down, from the members at the time of finalize;   *)
(* the deadline is computed only when the quorum is met.  Both trap when   *)
(* they leave their type.                                                  *)
(***************************************************************************)
TotalVotes(p) == p.yes_votes + p.no_votes + p.abstain_votes

QuorumMet(p) == TotalVotes(p) >= (Len(members) * quorum_percentage) \div 100

Deadline(p) == p.end_time + grace_period

(* Mutant: the grace period is not looked at. *)
DecisionWithoutGrace(p) ==
  IF QuorumMet(p) /\ p.yes_votes > p.no_votes THEN "Approved" ELSE "Rejected"

Decision(p) ==
  IF QuorumMet(p) /\ now <= Deadline(p) /\ p.yes_votes > p.no_votes
  THEN "Approved" ELSE "Rejected"

(* Mutant: the vote need not be over. *)
MayFinalizeEarly(p) ==
  /\ p.status = "Active"
  /\ Len(members) * quorum_percentage <= MaxU32
  /\ QuorumMet(p) => Deadline(p) <= MaxU64

(* Mutant: a proposal without quorum stays as it is, with an error. *)
MayFinalizeWithQuorum(p) ==
  /\ p.status = "Active"
  /\ now > p.end_time
  /\ Len(members) * quorum_percentage <= MaxU32
  /\ QuorumMet(p) /\ Deadline(p) <= MaxU64

MayFinalize(p) ==
  /\ p.status = "Active"
  /\ now > p.end_time
  /\ Len(members) * quorum_percentage <= MaxU32
  /\ QuorumMet(p) => Deadline(p) <= MaxU64

Finalize(caller, id) ==
  /\ admin # None
  /\ id \in DOMAIN proposals
  /\ MayFinalize(proposals[id])
  /\ proposals' = [proposals EXCEPT ![id].status = Decision(proposals[id])]
  /\ UNCHANGED <<admin, members, settings, proposal_count, now>>

(***************************************************************************)
(* The transfer to the recipient is a TODO.                                *)
(***************************************************************************)
Execute(caller, id) ==
  /\ admin # None
  /\ caller = admin
  /\ id \in DOMAIN proposals
  /\ proposals[id].status = "Approved"
  /\ proposals' = [proposals EXCEPT ![id].status = "Executed"]
  /\ UNCHANGED <<admin, members, settings, proposal_count, now>>

(* Mutant: whatever has not been executed can be cancelled. *)
MayCancelDecided(proposer, p) ==
  p.proposer = proposer /\ p.status # "Executed"

MayCancel(proposer, p) ==
  p.proposer = proposer /\ p.status = "Active"

CancelProposal(proposer, id) ==
  /\ admin # None
  /\ id \in DOMAIN proposals
  /\ MayCancel(proposer, proposals[id])
  /\ proposals' = [proposals EXCEPT ![id].status = "Cancelled"]
  /\ UNCHANGED <<admin, members, settings, proposal_count, now>>

AddMember(caller, new) ==
  /\ admin # None
  /\ caller = admin
  /\ new \notin Elements(members)
  /\ Len(members) < MaxMembers
  /\ members' = Append(members, new)
  /\ UNCHANGED <<admin, settings, proposal_count, proposals, now>>

RemoveMember(caller, member) ==
  /\ admin # None
  /\ caller = admin
  /\ member \in Elements(members)
  /\ members' = Without(members, member)
  /\ UNCHANGED <<admin, settings, proposal_count, proposals, now>>

(***************************************************************************)
(* The environment: the ledger's clock.                                    *)
(***************************************************************************)
Tick ==
  /\ now < MaxTime
  /\ now' = now + 1
  /\ UNCHANGED <<admin, members, settings, proposal_count, proposals>>

Next ==
  \/ \E caller \in Admins, list \in MemberLists, given \in Settings :
       Initialize(caller, list, given)
  \/ \E proposer \in Users, amount \in Amounts : CreateProposal(proposer, amount)
  \/ \E voter \in Users, id \in DOMAIN proposals, choice \in Choices :
       Vote(voter, id, choice)
  \/ \E caller \in Users, id \in DOMAIN proposals : Finalize(caller, id)
  \/ \E caller \in Users, id \in DOMAIN proposals : Execute(caller, id)
  \/ \E proposer \in Users, id \in DOMAIN proposals : CancelProposal(proposer, id)
  \/ \E caller \in Users, new \in Users : AddMember(caller, new)
  \/ \E caller \in Users, member \in Users : RemoveMember(caller, member)
  \/ Tick

Spec == Init /\ [][Next]_vars

(***************************************************************************)
(* The clock advances, and somebody finalizes what can be finalized:       *)
(* finalize is open to every address.                                      *)
(***************************************************************************)
FairSpec ==
  /\ Spec
  /\ WF_vars(Tick)
  /\ \A id \in 0 .. (MaxProposals - 1) :
       WF_vars(\E caller \in Users : Finalize(caller, id))

-----------------------------------------------------------------------------
(***************************************************************************)
(* get_proposal_status, which traps when the deadline of an active         *)
(* proposal is no u64.                                                     *)
(***************************************************************************)
NoAnswer == "no answer"

LiveStatus(p) ==
  IF p.status # "Active" THEN p.status
  ELSE IF Deadline(p) > MaxU64 THEN NoAnswer
  ELSE IF now > Deadline(p) THEN "Expired" ELSE "Active"

(***************************************************************************)
(* The types of the variables.                                             *)
(***************************************************************************)
TypeOK ==
  /\ admin \in Users \cup {None}
  /\ members \in Seq(Users)
  /\ quorum_percentage \in Nat /\ voting_duration \in Nat /\ grace_period \in Nat
  /\ proposal_count \in 0 .. MaxProposals
  /\ proposals \in [0 .. (proposal_count - 1) -> Proposal]
  /\ now \in 0 .. MaxTime

(***************************************************************************)
(* The three counters agree with the recorded votes, and nobody has two,   *)
(* also when members leave and come back during the vote.                  *)
(***************************************************************************)
VotesFor(p, choice) == {k \in DOMAIN p.votes : p.votes[k].choice = choice}

TallyExact ==
  \A id \in DOMAIN proposals :
    LET p == proposals[id]
    IN /\ p.yes_votes = Cardinality(VotesFor(p, "Yes"))
       /\ p.no_votes = Cardinality(VotesFor(p, "No"))
       /\ p.abstain_votes = Cardinality(VotesFor(p, "Abstain"))
       /\ Cardinality(Voters(p)) = Len(p.votes)

(***************************************************************************)
(* Only a proposal with a majority is approved, only after its vote ended; *)
(* nothing that happens later takes the majority away.                     *)
(***************************************************************************)
ApprovedByMajority ==
  \A id \in DOMAIN proposals :
    proposals[id].status \in {"Approved", "Executed"} =>
      /\ proposals[id].yes_votes > proposals[id].no_votes
      /\ now > proposals[id].end_time

(***************************************************************************)
(* The contract seen as a set of ballots: the recorded votes as a function *)
(* from voters.                                                            *)
(***************************************************************************)
OutcomeOf(status) == CASE status = "Active" -> "open"
                       [] status = "Approved" -> "passed"
                       [] status = "Rejected" -> "failed"
                       [] status = "Executed" -> "enacted"
                       [] status = "Cancelled" -> "withdrawn"
                       [] status = "Expired" -> "failed"

VoteOf(p, voter) ==
  p.votes[CHOOSE k \in DOMAIN p.votes : p.votes[k].voter = voter].choice

BallotOf(p) == [cast |-> [voter \in Voters(p) |-> VoteOf(p, voter)],
                outcome |-> OutcomeOf(p.status)]

B == INSTANCE Ballot
       WITH ballots <- [id \in DOMAIN proposals |-> BallotOf(proposals[id])],
            electorate <- Elements(members),
            BallotIds <- 0 .. (MaxProposals - 1)

(***************************************************************************)
(* The contract implements the ballots: one voice for each member also     *)
(* when members leave and come back, no vote lost, no proposal approved    *)
(* that is not ahead by its votes, one decision that is final.             *)
(***************************************************************************)
ImplementsBallot == B!Spec

(***************************************************************************)
(* A proposal that get_proposal_status has called Expired is never         *)
(* approved afterwards.                                                    *)
(***************************************************************************)
ExpiredStaysDown ==
  [][\A id \in DOMAIN proposals :
       LiveStatus(proposals[id]) = "Expired" =>
         LiveStatus(proposals[id])' \in {"Expired", "Rejected", "Cancelled"}]_vars

(***************************************************************************)
(* A proposal is approved only when the percentage of members has voted.   *)
(***************************************************************************)
QuorumOfMembers ==
  [][\A id \in DOMAIN proposals :
       proposals[id].status = "Active" /\ proposals'[id].status = "Approved" =>
         100 * TotalVotes(proposals[id]) >= quorum_percentage * Len(members)]_vars

(***************************************************************************)
(* Every proposal is decided or cancelled in the end, however the members  *)
(* change and whether or not they vote, unless the settings that           *)
(* initialize accepts make finalize trap: a quorum that leaves the u32     *)
(* with so many members, or a grace period that leaves the u64.  (The      *)
(* clock of the model stops at MaxTime, so only votes that end before then *)
(* are asked about.)                                                       *)
(***************************************************************************)
Fits(id) ==
  /\ id \in DOMAIN proposals
  /\ Len(members) * quorum_percentage <= MaxU32
  /\ Deadline(proposals[id]) <= MaxU64

EventuallyDecided ==
  \A id \in 0 .. (MaxProposals - 1) :
    (Fits(id) /\ proposals[id].end_time < MaxTime)
      ~> (~Fits(id) \/ proposals[id].status # "Active")
=============================================================================
