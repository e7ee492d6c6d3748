-------------------------- MODULE GovernanceProofs --------------------------
(***************************************************************************)
(* Proofs about Governance for any users, settings, amounts and times.     *)
(***************************************************************************)
EXTENDS Governance, DataTheorems

(***************************************************************************)
(* The inductive invariant.  A proposal that is Sound at time t has one    *)
(* vote of each voter, counters that agree with the votes, and, once it is *)
(* approved, a majority and a vote that is over.  Expired is not stored.   *)
(***************************************************************************)
OneVoteEach(p) ==
  \A j, k \in DOMAIN p.votes : p.votes[j].voter = p.votes[k].voter => j = k

Tallied(p) ==
  /\ p.yes_votes = Cardinality(VotesFor(p, "Yes"))
  /\ p.no_votes = Cardinality(VotesFor(p, "No"))
  /\ p.abstain_votes = Cardinality(VotesFor(p, "Abstain"))

Sound(p, t) ==
  /\ OneVoteEach(p)
  /\ Tallied(p)
  /\ p.status \in {"Active", "Approved", "Rejected", "Executed", "Cancelled"}
  /\ p.status \in {"Approved", "Executed"} =>
       p.yes_votes > p.no_votes /\ t > p.end_time

AllSound == \A id \in DOMAIN proposals : Sound(proposals[id], now)

(***************************************************************************)
(* initialize starts the count and the settings anew: it may because no    *)
(* proposal was created before.                                            *)
(***************************************************************************)
Unused == admin = None => proposal_count = 0

IInv == TypeOK /\ AllSound /\ Unused

-----------------------------------------------------------------------------
(***************************************************************************)
(* The votes of a proposal.  What one more vote does to them.              *)
(***************************************************************************)
LEMMA VotesType ==
  ASSUME NEW p \in Proposal
  PROVE  /\ Len(p.votes) \in Nat /\ DOMAIN p.votes = 1 .. Len(p.votes)
         /\ p.votes \in Seq(VoteRecord)
         /\ \A k \in DOMAIN p.votes :
              p.votes[k].voter \in Users /\ p.votes[k].choice \in Choices
<1>1. p.votes \in Seq(VoteRecord)
  BY DEF Proposal
<1>2. \A k \in DOMAIN p.votes : p.votes[k] \in VoteRecord
  BY <1>1
<1> QED BY <1>1, <1>2 DEF VoteRecord

LEMMA VotesForFinite ==
  ASSUME NEW p \in Proposal, NEW choice
  PROVE  /\ IsFiniteSet(VotesFor(p, choice))
         /\ Cardinality(VotesFor(p, choice)) \in Nat
<1>1. VotesFor(p, choice) \subseteq 1 .. Len(p.votes)
  BY VotesType DEF VotesFor
<1>2. IsFiniteSet(1 .. Len(p.votes))
  BY VotesType, FS_Interval
<1>3. IsFiniteSet(VotesFor(p, choice))
  BY <1>1, <1>2, FS_Subset
<1> QED BY <1>3, FS_CardinalityType

LEMMA OneMoreVote ==
  ASSUME NEW p \in Proposal, NEW voter \in Users, NEW choice \in Choices,
         NEW q, q.votes = Append(p.votes, [voter |-> voter, choice |-> choice])
  PROVE  /\ DOMAIN q.votes = (DOMAIN p.votes) \cup {Len(p.votes) + 1}
         /\ Len(p.votes) + 1 \notin DOMAIN p.votes
         /\ \A k \in DOMAIN p.votes : q.votes[k] = p.votes[k]
         /\ q.votes[Len(p.votes) + 1] = [voter |-> voter, choice |-> choice]
         /\ q.votes \in Seq(VoteRecord)
<1>1. p.votes \in Seq(VoteRecord)
  BY DEF Proposal
<1>2. [voter |-> voter, choice |-> choice] \in VoteRecord
  BY DEF VoteRecord
<1> QED BY <1>1, <1>2

LEMMA OneMoreFor ==
  ASSUME NEW p \in Proposal, NEW voter \in Users, NEW choice \in Choices,
         NEW q, q.votes = Append(p.votes, [voter |-> voter, choice |-> choice]),
         NEW c
  PROVE  Cardinality(VotesFor(q, c))
           = Cardinality(VotesFor(p, c)) + (IF choice = c THEN 1 ELSE 0)
<1> DEFINE n == Len(p.votes) + 1
<1>1. /\ DOMAIN q.votes = (DOMAIN p.votes) \cup {n} /\ n \notin DOMAIN p.votes
      /\ \A k \in DOMAIN p.votes : q.votes[k] = p.votes[k]
      /\ q.votes[n].choice = choice
  BY OneMoreVote
<1>2. IsFiniteSet(VotesFor(p, c)) /\ Cardinality(VotesFor(p, c)) \in Nat
  BY VotesForFinite
<1> HIDE DEF n
<1>3. n \notin VotesFor(p, c)
  BY <1>1 DEF VotesFor
<1>4. CASE choice = c
  <2>1. VotesFor(q, c) = VotesFor(p, c) \cup {n}
    BY <1>1, <1>4 DEF VotesFor
  <2>2. Cardinality(VotesFor(p, c) \cup {n}) = Cardinality(VotesFor(p, c)) + 1
    BY <1>2, <1>3, FS_AddElement
  <2> QED BY <1>4, <2>1, <2>2
<1>5. CASE choice # c
  <2>1. VotesFor(q, c) = VotesFor(p, c)
    BY <1>1, <1>5 DEF VotesFor
  <2> QED BY <1>2, <1>5, <2>1
<1> QED BY <1>4, <1>5

LEMMA CountedFields ==
  ASSUME NEW p \in Proposal, NEW voter \in Users, NEW choice \in Choices
  PROVE  LET q == Counted(p, voter, choice)
         IN  /\ q \in Proposal
             /\ q.votes = Append(p.votes, [voter |-> voter, choice |-> choice])
             /\ q.yes_votes = p.yes_votes + (IF choice = "Yes" THEN 1 ELSE 0)
             /\ q.no_votes = p.no_votes + (IF choice = "No" THEN 1 ELSE 0)
             /\ q.abstain_votes
                  = p.abstain_votes + (IF choice = "Abstain" THEN 1 ELSE 0)
             /\ q.status = p.status /\ q.end_time = p.end_time
<1> DEFINE One(c) == IF choice = c THEN 1 ELSE 0
           yes == p.yes_votes + One("Yes")
           no == p.no_votes + One("No")
           abstain == p.abstain_votes + One("Abstain")
           votes == Append(p.votes, [voter |-> voter, choice |-> choice])
<1>1. yes \in Nat /\ no \in Nat /\ abstain \in Nat
  BY DEF Proposal
<1>2. votes \in Seq(VoteRecord)
  <2>1. [voter |-> voter, choice |-> choice] \in VoteRecord
    BY DEF VoteRecord
  <2> QED BY <2>1 DEF Proposal
<1>3. Counted(p, voter, choice) =
        [p EXCEPT !.yes_votes = yes, !.no_votes = no,
                  !.abstain_votes = abstain, !.votes = votes]
  BY DEF Counted
<1> HIDE DEF One, yes, no, abstain, votes
<1> DEFINE q == [p EXCEPT !.yes_votes = yes, !.no_votes = no,
                          !.abstain_votes = abstain, !.votes = votes]
<1>4. /\ q \in Proposal /\ q.votes = votes /\ q.yes_votes = yes
      /\ q.no_votes = no /\ q.abstain_votes = abstain
      /\ q.status = p.status /\ q.end_time = p.end_time
  BY <1>1, <1>2 DEF Proposal
<1> HIDE DEF q
<1> QED BY <1>3, <1>4 DEF q, One, yes, no, abstain, votes

(***************************************************************************)
(* A vote of a member who has none yet keeps a proposal sound.             *)
(***************************************************************************)
LEMMA CountedSound ==
  ASSUME NEW p \in Proposal, NEW t, Sound(p, t), p.status = "Active",
         NEW voter \in Users, voter \notin Voters(p), NEW choice \in Choices
  PROVE  Sound(Counted(p, voter, choice), t)
<1> DEFINE q == Counted(p, voter, choice)
           n == Len(p.votes) + 1
<1>1. /\ q.votes = Append(p.votes, [voter |-> voter, choice |-> choice])
      /\ q.yes_votes = p.yes_votes + (IF choice = "Yes" THEN 1 ELSE 0)
      /\ q.no_votes = p.no_votes + (IF choice = "No" THEN 1 ELSE 0)
      /\ q.abstain_votes = p.abstain_votes + (IF choice = "Abstain" THEN 1 ELSE 0)
      /\ q.status = "Active"
  BY CountedFields
<1> HIDE DEF q
<1>2. Tallied(q)
  BY <1>1, OneMoreFor DEF Sound, Tallied
<1>3. /\ DOMAIN q.votes = (DOMAIN p.votes) \cup {n}
      /\ \A k \in DOMAIN p.votes : q.votes[k] = p.votes[k]
      /\ q.votes[n].voter = voter
  BY <1>1, OneMoreVote
<1> HIDE DEF n
<1>4. OneVoteEach(q)
  BY <1>3 DEF Sound, OneVoteEach, Voters
<1> QED BY <1>1, <1>2, <1>4 DEF Sound, q

(***************************************************************************)
(* Nothing but the status matters to the tallies.                          *)
(***************************************************************************)
LEMMA SettledSound ==
  ASSUME NEW p \in Proposal, NEW t, Sound(p, t),
         NEW status \in {"Approved", "Rejected", "Executed", "Cancelled"},
         status \in {"Approved", "Executed"} =>
           p.yes_votes > p.no_votes /\ t > p.end_time
  PROVE  /\ [p EXCEPT !.status = status] \in Proposal
         /\ Sound([p EXCEPT !.status = status], t)
<1> DEFINE q == [p EXCEPT !.status = status]
<1>1. /\ q.votes = p.votes /\ q.yes_votes = p.yes_votes
      /\ q.no_votes = p.no_votes /\ q.abstain_votes = p.abstain_votes
      /\ q.end_time = p.end_time /\ q.status = status
  BY DEF Proposal
<1>2. q \in Proposal
  BY DEF Proposal, Statuses
<1> HIDE DEF q
<1>3. Sound(q, t)
  BY <1>1 DEF Sound, OneVoteEach, Tallied, VotesFor
<1> QED BY <1>2, <1>3 DEF q

-----------------------------------------------------------------------------
(***************************************************************************)
(* Each step keeps the inductive invariant.                                *)
(***************************************************************************)
LEMMA InitIInv == Init => IInv
  BY GovernanceAssumption DEF Init, IInv, TypeOK, AllSound, Unused

LEMMA InitializeIInv ==
  ASSUME IInv, NEW caller \in Admins, NEW list \in MemberLists,
         NEW given \in Settings, Initialize(caller, list, given)
  PROVE  IInv'
<1>1. /\ caller \in Users /\ caller # None /\ list \in Seq(Users)
      /\ given \in [quorum : Nat, duration : Nat, grace : Nat]
  BY GovernanceAssumption
<1>2. /\ proposal_count = 0 /\ proposal_count' = 0
      /\ proposals' = proposals /\ now' = now
  BY DEF IInv, Unused, Initialize
<1>3. DOMAIN proposals' = {}
  BY <1>2 DEF IInv, TypeOK
<1>4. TypeOK'
  BY <1>1, <1>2 DEF IInv, TypeOK, Initialize
<1> QED BY <1>1, <1>2, <1>3, <1>4 DEF IInv, AllSound, Unused, Initialize

LEMMA CreateProposalIInv ==
  ASSUME IInv, NEW proposer \in Users, NEW amount \in Amounts,
         CreateProposal(proposer, amount)
  PROVE  IInv'
<1> DEFINE p == [proposer |-> proposer, amount |-> amount, yes_votes |-> 0,
                 no_votes |-> 0, abstain_votes |-> 0, votes |-> <<>>,
                 status |-> "Active", end_time |-> now + voting_duration]
<1>1. /\ amount \in Nat /\ now \in Nat /\ voting_duration \in Nat
      /\ proposal_count \in Nat /\ proposal_count < MaxProposals
      /\ proposal_count' = proposal_count + 1
      /\ DOMAIN proposals = 0 .. (proposal_count - 1)
      /\ proposals \in [DOMAIN proposals -> Proposal]
      /\ UNCHANGED <<admin, members, quorum_percentage, voting_duration,
                     grace_period, now>> /\ admin # None
  BY GovernanceAssumption
  DEF IInv, TypeOK, CreateProposal, MayPropose, settings
<1>2. proposals' = [id \in (DOMAIN proposals) \cup {proposal_count} |->
                      IF id \in DOMAIN proposals THEN proposals[id] ELSE p]
  BY DEF CreateProposal
<1>3. p \in Proposal
  BY <1>1 DEF Proposal, Statuses
<1>4. Sound(p, now)
  <2>1. \A c : VotesFor(p, c) = {}
    BY DEF VotesFor
  <2>2. Tallied(p)
    BY <2>1, FS_EmptySet DEF Tallied
  <2> QED BY <2>2 DEF Sound, OneVoteEach
<1> HIDE DEF p
<1>5. 0 .. (proposal_count' - 1) = (DOMAIN proposals) \cup {proposal_count}
  BY <1>1
<1>6. proposals' \in [0 .. (proposal_count' - 1) -> Proposal]
  BY <1>1, <1>2, <1>3, <1>5
<1>7. proposal_count' \in 0 .. MaxProposals
  BY <1>1, GovernanceAssumption
<1>8. TypeOK'
  BY <1>1, <1>6, <1>7 DEF IInv, TypeOK
<1>9. AllSound'
  BY <1>1, <1>2, <1>4 DEF IInv, AllSound
<1> QED BY <1>1, <1>8, <1>9 DEF IInv, Unused

(***************************************************************************)
(* A sound proposal in the place of another keeps the invariant.           *)
(***************************************************************************)
LEMMA ReplacedIInv ==
  ASSUME IInv, NEW id \in DOMAIN proposals, NEW p \in Proposal, Sound(p, now),
         proposals' = [proposals EXCEPT ![id] = p],
         UNCHANGED <<admin, members, settings, proposal_count, now>>
  PROVE  IInv'
<1>1. TypeOK'
  BY DEF IInv, TypeOK, settings
<1>2. AllSound'
  BY DEF IInv, AllSound
<1> QED BY <1>1, <1>2 DEF IInv, Unused

LEMMA VoteIInv ==
  ASSUME IInv, NEW voter \in Users, NEW id \in DOMAIN proposals,
         NEW choice \in Choices, Vote(voter, id, choice)
  PROVE  IInv'
<1> DEFINE p == proposals[id]
           q == Counted(p, voter, choice)
<1>1. /\ p \in Proposal /\ Sound(p, now) /\ p.status = "Active"
      /\ voter \notin Voters(p)
  BY DEF IInv, TypeOK, AllSound, Vote, MayVote
<1>2. q \in Proposal
  BY <1>1, CountedFields
<1>3. Sound(q, now)
  BY <1>1, CountedSound
<1> QED BY <1>2, <1>3, ReplacedIInv DEF Vote

(***************************************************************************)
(* A change of the status.                                                 *)
(***************************************************************************)
LEMMA SettledIInv ==
  ASSUME IInv, NEW id \in DOMAIN proposals,
         NEW status \in {"Approved", "Rejected", "Executed", "Cancelled"},
         status \in {"Approved", "Executed"} =>
           /\ proposals[id].yes_votes > proposals[id].no_votes
           /\ now > proposals[id].end_time,
         proposals' = [proposals EXCEPT ![id].status = status],
         UNCHANGED <<admin, members, settings, proposal_count, now>>
  PROVE  IInv'
<1> DEFINE p == proposals[id]
           q == [p EXCEPT !.status = status]
<1>1. p \in Proposal /\ Sound(p, now)
  BY DEF IInv, TypeOK, AllSound
<1>2. q \in Proposal /\ Sound(q, now)
  BY <1>1, SettledSound
<1>3. proposals' = [proposals EXCEPT ![id] = q]
  OBVIOUS
<1> HIDE DEF q
<1> QED BY <1>2, <1>3, ReplacedIInv

LEMMA FinalizeIInv ==
  ASSUME IInv, NEW caller \in Users, NEW id \in DOMAIN proposals,
         Finalize(caller, id)
  PROVE  IInv'
<1>1. /\ Decision(proposals[id]) \in {"Approved", "Rejected"}
      /\ Decision(proposals[id]) = "Approved" =>
           proposals[id].yes_votes > proposals[id].no_votes
      /\ now > proposals[id].end_time
  BY DEF Decision, Finalize, MayFinalize
<1> QED BY <1>1, SettledIInv DEF Finalize

LEMMA ExecuteIInv ==
  ASSUME IInv, NEW caller \in Users, NEW id \in DOMAIN proposals,
         Execute(caller, id)
  PROVE  IInv'
<1>1. /\ proposals[id].yes_votes > proposals[id].no_votes
      /\ now > proposals[id].end_time
  BY DEF IInv, AllSound, Sound, Execute
<1> QED BY <1>1, SettledIInv DEF Execute

LEMMA CancelProposalIInv ==
  ASSUME IInv, NEW proposer \in Users, NEW id \in DOMAIN proposals,
         CancelProposal(proposer, id)
  PROVE  IInv'
  BY SettledIInv DEF CancelProposal

LEMMA MembersIInv ==
  ASSUME IInv, members' \in Seq(Users),
         UNCHANGED <<admin, settings, proposal_count, proposals, now>>
  PROVE  IInv'
  BY DEF IInv, TypeOK, AllSound, Unused, settings

LEMMA TickIInv ==
  ASSUME IInv, Tick
  PROVE  IInv'
<1>1. now \in Nat /\ now' = now + 1 /\ now' \in 0 .. MaxTime
  BY GovernanceAssumption DEF IInv, TypeOK, Tick
<1>2. \A id \in DOMAIN proposals : proposals[id].end_time \in Nat
  BY DEF IInv, TypeOK, Proposal
<1>3. TypeOK'
  BY <1>1 DEF IInv, TypeOK, Tick, settings
<1>4. AllSound'
  BY <1>1, <1>2 DEF IInv, AllSound, Sound, Tick
<1> QED BY <1>3, <1>4 DEF IInv, Unused, Tick

LEMMA NextIInv ==
  ASSUME IInv, [Next]_vars
  PROVE  IInv'
<1>1. CASE \E caller \in Admins, list \in MemberLists, given \in Settings :
             Initialize(caller, list, given)
  BY <1>1, InitializeIInv
<1>2. CASE \E proposer \in Users, amount \in Amounts :
             CreateProposal(proposer, amount)
  BY <1>2, CreateProposalIInv
<1>3. CASE \E voter \in Users, id \in DOMAIN proposals, choice \in Choices :
             Vote(voter, id, choice)
  BY <1>3, VoteIInv
<1>4. CASE \E caller \in Users, id \in DOMAIN proposals : Finalize(caller, id)
  BY <1>4, FinalizeIInv
<1>5. CASE \E caller \in Users, id \in DOMAIN proposals : Execute(caller, id)
  BY <1>5, ExecuteIInv
<1>6. CASE \E proposer \in Users, id \in DOMAIN proposals :
             CancelProposal(proposer, id)
  BY <1>6, CancelProposalIInv
<1>7. CASE \E caller \in Users, new \in Users : AddMember(caller, new)
  BY <1>7, AppendElements, MembersIInv DEF AddMember, IInv, TypeOK
<1>8. CASE \E caller \in Users, member \in Users : RemoveMember(caller, member)
  BY <1>8, WithoutType, MembersIInv DEF RemoveMember, IInv, TypeOK
<1>9. CASE Tick
  BY <1>9, TickIInv
<1>10. CASE UNCHANGED vars
  BY <1>10 DEF vars, settings, IInv, TypeOK, AllSound, Unused
<1> QED
  BY <1>1, <1>2, <1>3, <1>4, <1>5, <1>6, <1>7, <1>8, <1>9, <1>10 DEF Next

LEMMA Inductive == Spec => []IInv
<1>1. IInv /\ [Next]_vars => IInv'
  BY NextIInv
<1> QED BY InitIInv, <1>1, PTL DEF Spec

(***************************************************************************)
(* The types of the variables.                                             *)
(***************************************************************************)
THEOREM TypeCorrect == Spec => []TypeOK
<1>1. IInv => TypeOK
  BY DEF IInv
<1> QED BY Inductive, <1>1, PTL

(***************************************************************************)
(* The three counters agree with the recorded votes, and nobody has two,   *)
(* also when members leave and come back during the vote.                  *)
(***************************************************************************)
THEOREM Tallies == Spec => []TallyExact
<1>1. IInv => TallyExact
  <2> SUFFICES ASSUME IInv, NEW id \in DOMAIN proposals
               PROVE  LET p == proposals[id]
                      IN  Tallied(p) /\ Cardinality(Voters(p)) = Len(p.votes)
    BY DEF TallyExact, Tallied
  <2> DEFINE p == proposals[id]
             names == [k \in 1 .. Len(p.votes) |-> p.votes[k].voter]
  <2>1. p \in Proposal /\ Sound(p, now)
    BY DEF IInv, TypeOK, AllSound
  <2>2. /\ Len(p.votes) \in Nat /\ DOMAIN p.votes = 1 .. Len(p.votes)
        /\ \A k \in DOMAIN p.votes : p.votes[k].voter \in Users
    BY <2>1, VotesType
  <2>3. names \in Seq(Users) /\ Len(names) = Len(p.votes)
    BY <2>2
  <2>4. Elements(names) = Voters(p) /\ Distinct(names)
    BY <2>1, <2>2 DEF Elements, Voters, Distinct, Sound, OneVoteEach
  <2> HIDE DEF names
  <2>5. Cardinality(Voters(p)) = Len(p.votes)
    BY <2>3, <2>4, DistinctLength
  <2> QED BY <2>1, <2>5 DEF Sound
<1> QED BY Inductive, <1>1, PTL

(***************************************************************************)
(* Only a proposal with a majority is approved, only after its vote ended, *)
(* and nothing later takes the majority away.                              *)
(***************************************************************************)
THEOREM Majority == Spec => []ApprovedByMajority
<1>1. IInv => ApprovedByMajority
  BY DEF IInv, AllSound, Sound, ApprovedByMajority
<1> QED BY Inductive, <1>1, PTL

-----------------------------------------------------------------------------
(***************************************************************************)
(* A proposal that is past its deadline and still active is not approved   *)
(* by any step: the deadline does not move, since the grace period is set  *)
(* before the first proposal, nobody can vote, and finalize compares with  *)
(* the clock.                                                              *)
(***************************************************************************)
Lapsed(p) ==
  p.status = "Active" /\ now > Deadline(p) /\ Deadline(p) <= MaxU64

LEMMA LapsedStatus ==
  ASSUME IInv, NEW id \in DOMAIN proposals
  PROVE  /\ Lapsed(proposals[id]) <=> LiveStatus(proposals[id]) = "Expired"
         /\ proposals[id].end_time \in Nat
         /\ Deadline(proposals[id]) \in Nat
         /\ proposals[id].end_time <= Deadline(proposals[id])
<1>1. /\ Sound(proposals[id], now) /\ proposals[id].end_time \in Nat
      /\ grace_period \in Nat /\ now \in Nat /\ MaxU64 \in Nat
  BY GovernanceAssumption DEF IInv, TypeOK, AllSound, Proposal
<1> QED BY <1>1 DEF Lapsed, LiveStatus, NoAnswer, Sound, Deadline

LEMMA LapsedStays ==
  ASSUME IInv, [Next]_vars, NEW id \in DOMAIN proposals, Lapsed(proposals[id])
  PROVE  LiveStatus(proposals[id])' \in {"Expired", "Rejected", "Cancelled"}
<1> DEFINE p == proposals[id]
           Down == LiveStatus(p)' \in {"Expired", "Rejected", "Cancelled"}
<1>1. /\ now \in Nat /\ p.end_time \in Nat /\ Deadline(p) \in Nat
      /\ p.end_time <= Deadline(p) /\ p.status = "Active" /\ now > Deadline(p)
      /\ p \in Proposal /\ Deadline(p) <= MaxU64 /\ MaxU64 \in Nat
  BY LapsedStatus, GovernanceAssumption DEF Lapsed, IInv, TypeOK
<1>2. ASSUME proposals'[id] = p, UNCHANGED grace_period, now' >= now, now' \in Nat
      PROVE  Down
  BY <1>1, <1>2 DEF LiveStatus, Deadline
<1>3. CASE \E caller \in Admins, list \in MemberLists, given \in Settings :
             Initialize(caller, list, given)
  <2>1. proposal_count = 0
    BY <1>3 DEF IInv, Unused, Initialize
  <2>2. DOMAIN proposals = {}
    BY <2>1 DEF IInv, TypeOK
  <2> QED BY <2>2
<1>4. CASE \E proposer \in Users, amount \in Amounts :
             CreateProposal(proposer, amount)
  BY <1>1, <1>2, <1>4 DEF CreateProposal, settings
<1>5. CASE \E voter \in Users, i \in DOMAIN proposals, choice \in Choices :
             Vote(voter, i, choice)
  <2>1. PICK voter \in Users, i \in DOMAIN proposals, choice \in Choices :
               Vote(voter, i, choice)
    BY <1>5
  <2>2. i # id
    BY <1>1, <2>1 DEF Vote, MayVote
  <2>3. proposals'[id] = p /\ UNCHANGED <<grace_period, now>>
    BY <2>1, <2>2 DEF Vote, settings
  <2> QED BY <1>1, <1>2, <2>3
<1>6. CASE \E caller \in Users, i \in DOMAIN proposals : Finalize(caller, i)
  <2>1. PICK caller \in Users, i \in DOMAIN proposals : Finalize(caller, i)
    BY <1>6
  <2>2. /\ proposals' = [proposals EXCEPT ![i].status = Decision(proposals[i])]
        /\ UNCHANGED <<grace_period, now>>
    BY <2>1 DEF Finalize, settings
  <2>3. CASE i = id
    <3>1. Decision(p) = "Rejected"
      BY <1>1 DEF Decision
    <3>2. proposals'[id].status = "Rejected"
      BY <1>1, <2>2, <2>3, <3>1 DEF Proposal
    <3> QED BY <3>2 DEF LiveStatus
  <2>4. CASE i # id
    BY <1>1, <1>2, <2>2, <2>4
  <2> QED BY <2>3, <2>4
<1>7. CASE \E caller \in Users, i \in DOMAIN proposals : Execute(caller, i)
  <2>1. PICK caller \in Users, i \in DOMAIN proposals : Execute(caller, i)
    BY <1>7
  <2>2. i # id
    BY <1>1, <2>1 DEF Execute
  <2>3. proposals'[id] = p /\ UNCHANGED <<grace_period, now>>
    BY <2>1, <2>2 DEF Execute, settings
  <2> QED BY <1>1, <1>2, <2>3
<1>8. CASE \E proposer \in Users, i \in DOMAIN proposals :
             CancelProposal(proposer, i)
  <2>1. PICK proposer \in Users, i \in DOMAIN proposals :
               CancelProposal(proposer, i)
    BY <1>8
  <2>2. /\ proposals' = [proposals EXCEPT ![i].status = "Cancelled"]
        /\ UNCHANGED <<grace_period, now>>
    BY <2>1 DEF CancelProposal, settings
  <2>3. CASE i = id
    <3>1. proposals'[id].status = "Cancelled"
      BY <1>1, <2>2, <2>3 DEF Proposal
    <3> QED BY <3>1 DEF LiveStatus
  <2>4. CASE i # id
    BY <1>1, <1>2, <2>2, <2>4
  <2> QED BY <2>3, <2>4
<1>9. CASE \/ \E caller \in Users, new \in Users : AddMember(caller, new)
           \/ \E caller \in Users, member \in Users :
                RemoveMember(caller, member)
  BY <1>1, <1>2, <1>9 DEF AddMember, RemoveMember, settings
<1>10. CASE Tick
  BY <1>1, <1>2, <1>10 DEF Tick, settings
<1>11. CASE UNCHANGED vars
  BY <1>1, <1>2, <1>11 DEF vars, settings
<1> QED
  BY <1>3, <1>4, <1>5, <1>6, <1>7, <1>8, <1>9, <1>10, <1>11 DEF Next

(***************************************************************************)
(* A proposal that get_proposal_status has called Expired is never         *)
(* approved afterwards.                                                    *)
(***************************************************************************)
THEOREM Expired == Spec => ExpiredStaysDown
<1> DEFINE A == \A id \in DOMAIN proposals :
                  LiveStatus(proposals[id]) = "Expired" =>
                    LiveStatus(proposals[id])' \in
                      {"Expired", "Rejected", "Cancelled"}
<1>1. IInv /\ [Next]_vars => A
  BY LapsedStatus, LapsedStays
<1>2. ExpiredStaysDown <=> [][A]_vars
  BY DEF ExpiredStaysDown
<1> HIDE DEF A
<1> QED BY Inductive, <1>1, <1>2, PTL DEF Spec

-----------------------------------------------------------------------------
(***************************************************************************)
(* The contract implements the ballots, step by step.  With one vote each, *)
(* the recorded votes are a function from the voters, and the numbers of   *)
(* votes and of voices agree.                                              *)
(***************************************************************************)
LEMMA VoteFound ==
  ASSUME NEW p, OneVoteEach(p), NEW k \in DOMAIN p.votes
  PROVE  VoteOf(p, p.votes[k].voter) = p.votes[k].choice
<1> DEFINE j == CHOOSE j \in DOMAIN p.votes : p.votes[j].voter = p.votes[k].voter
<1>1. j \in DOMAIN p.votes /\ p.votes[j].voter = p.votes[k].voter
  OBVIOUS
<1>2. j = k
  <2> HIDE DEF j
  <2> QED BY <1>1 DEF OneVoteEach
<1> QED BY <1>2 DEF VoteOf

LEMMA VoicesCount ==
  ASSUME NEW p \in Proposal, OneVoteEach(p), NEW choice
  PROVE  B!Cardinality(B!Voices(BallotOf(p), choice))
           = Cardinality(VotesFor(p, choice))
<1> DEFINE K == VotesFor(p, choice)
           W == B!Voices(BallotOf(p), choice)
           f == [k \in K |-> p.votes[k].voter]
<1>1. W = {voter \in Voters(p) : VoteOf(p, voter) = choice}
  BY DEF B!Voices, BallotOf
<1>2. \A k \in K : k \in DOMAIN p.votes /\ p.votes[k].choice = choice
  BY DEF VotesFor
<1>3. \A k \in K : f[k] \in W
  <2> SUFFICES ASSUME NEW k \in K PROVE f[k] \in W
    OBVIOUS
  <2>1. VoteOf(p, p.votes[k].voter) = choice
    BY <1>2, VoteFound
  <2> QED BY <1>1, <1>2, <2>1 DEF Voters
<1>4. \A w \in W : \E k \in K : f[k] = w
  <2> SUFFICES ASSUME NEW w \in W PROVE \E k \in K : f[k] = w
    OBVIOUS
  <2>1. PICK k \in DOMAIN p.votes : w = p.votes[k].voter
    BY <1>1 DEF Voters
  <2>2. k \in K
    BY <1>1, <2>1, VoteFound DEF VotesFor
  <2> QED BY <2>1, <2>2
<1>5. \A j, k \in K : f[j] = f[k] => j = k
  BY <1>2 DEF OneVoteEach
<1>6. IsFiniteSet(K)
  BY VotesForFinite
<1> HIDE DEF K, W
<1>7. f \in Bijection(K, W)
  BY <1>3, <1>4, <1>5 DEF Bijection, Injection, Surjection, IsInjective
<1>8. Cardinality(W) = Cardinality(K)
  <2>1. ExistsBijection(K, W)
    BY <1>7 DEF ExistsBijection
  <2> QED BY <1>6, <2>1, FS_Bijection
<1> QED BY <1>8 DEF K, W, Cardinality, B!Cardinality

LEMMA AheadByTally ==
  ASSUME NEW p \in Proposal, NEW t, Sound(p, t)
  PROVE  B!Ahead(BallotOf(p)) <=> p.yes_votes > p.no_votes
  BY VoicesCount DEF Sound, Tallied, B!Ahead

Ballots == [id \in DOMAIN proposals |-> BallotOf(proposals[id])]

LEMMA CreateProposalCalls ==
  ASSUME TypeOK, NEW proposer \in Users, NEW amount \in Amounts,
         CreateProposal(proposer, amount)
  PROVE  B!Next
<1> DEFINE n == proposal_count
           p == [proposer |-> proposer, amount |-> amount, yes_votes |-> 0,
                 no_votes |-> 0, abstain_votes |-> 0, votes |-> <<>>,
                 status |-> "Active", end_time |-> now + voting_duration]
<1>1. /\ n \in Nat /\ n < MaxProposals /\ n \notin DOMAIN proposals
      /\ proposals' = [id \in (DOMAIN proposals) \cup {n} |->
                         IF id \in DOMAIN proposals THEN proposals[id] ELSE p]
      /\ members' = members
  BY DEF TypeOK, CreateProposal
<1>2. BallotOf(p) = B!Opened
  <2>1. Voters(p) = {} /\ OutcomeOf(p.status) = "open"
    BY DEF Voters, OutcomeOf
  <2>2. [voter \in {} |-> VoteOf(p, voter)] = [voter \in {} |-> voter]
    OBVIOUS
  <2> HIDE DEF p
  <2> QED BY <2>1, <2>2 DEF BallotOf, B!Opened
<1>3. n \in 0 .. (MaxProposals - 1)
  BY <1>1, GovernanceAssumption
<1> HIDE DEF p, n
<1>4. /\ Ballots' = [id \in (DOMAIN Ballots) \cup {n} |->
                       IF id = n THEN B!Opened ELSE Ballots[id]]
      /\ DOMAIN Ballots = DOMAIN proposals
  BY <1>1, <1>2, Zenon DEF Ballots
<1>5. B!Call(n)
  BY <1>1, <1>4 DEF B!Call, Ballots
<1> QED BY <1>3, <1>5 DEF B!Next

LEMMA CountedBallot ==
  ASSUME NEW p \in Proposal, NEW t, Sound(p, t), p.status = "Active",
         NEW voter \in Users, voter \notin Voters(p), NEW choice \in Choices,
         NEW q, q = Counted(p, voter, choice)
  PROVE  BallotOf(q) =
           [BallotOf(p) EXCEPT !.cast =
              [v \in Voters(p) \cup {voter} |->
                 IF v = voter THEN choice ELSE BallotOf(p).cast[v]]]
<1> DEFINE n == Len(p.votes) + 1
           cast == [v \in Voters(p) \cup {voter} |->
                      IF v = voter THEN choice ELSE BallotOf(p).cast[v]]
<1>1. /\ q.votes = Append(p.votes, [voter |-> voter, choice |-> choice])
      /\ q.status = p.status
  BY CountedFields
<1>2. /\ DOMAIN q.votes = (DOMAIN p.votes) \cup {n}
      /\ \A k \in DOMAIN p.votes : q.votes[k] = p.votes[k]
      /\ q.votes[n].voter = voter /\ q.votes[n].choice = choice
  BY <1>1, OneMoreVote
<1>3. OneVoteEach(p) /\ OneVoteEach(q)
  BY CountedSound DEF Sound
<1> HIDE DEF n
<1>4. Voters(q) = Voters(p) \cup {voter}
  BY <1>2 DEF Voters
<1>5. VoteOf(q, voter) = choice
  BY <1>2, <1>3, VoteFound
<1>6. ASSUME NEW v \in Voters(p)
      PROVE  VoteOf(q, v) = VoteOf(p, v)
  <2>1. PICK k \in DOMAIN p.votes : v = p.votes[k].voter
    BY DEF Voters
  <2>2. VoteOf(p, v) = p.votes[k].choice
    BY <1>3, <2>1, VoteFound
  <2>3. k \in DOMAIN q.votes /\ q.votes[k] = p.votes[k]
    BY <1>2
  <2>4. VoteOf(q, q.votes[k].voter) = q.votes[k].choice
    BY <1>3, <2>3, VoteFound
  <2> QED BY <2>1, <2>2, <2>3, <2>4
<1>7. \A v \in Voters(p) : BallotOf(p).cast[v] = VoteOf(p, v)
  BY DEF BallotOf
<1>8. [v \in Voters(q) |-> VoteOf(q, v)] = cast
  BY <1>4, <1>5, <1>6, <1>7
<1> HIDE DEF cast
<1>9. BallotOf(q) = [cast |-> cast, outcome |-> OutcomeOf(p.status)]
  BY <1>1, <1>8 DEF BallotOf
<1>10. BallotOf(q) = [BallotOf(p) EXCEPT !.cast = cast]
  <2> DEFINE old == [v \in Voters(p) |-> VoteOf(p, v)]
  <2>1. BallotOf(p) = [cast |-> old, outcome |-> OutcomeOf(p.status)]
    BY DEF BallotOf
  <2> HIDE DEF old
  <2> QED BY <1>9, <2>1
<1> QED BY <1>10 DEF cast

LEMMA VoteCasts ==
  ASSUME TypeOK, AllSound, NEW voter \in Users, NEW id \in DOMAIN proposals,
         NEW choice \in Choices, Vote(voter, id, choice)
  PROVE  B!Next
<1> DEFINE p == proposals[id]
           q == Counted(p, voter, choice)
<1>1. /\ p \in Proposal /\ Sound(p, now) /\ p.status = "Active"
      /\ voter \notin Voters(p) /\ voter \in Elements(members)
      /\ proposals' = [proposals EXCEPT ![id] = q] /\ members' = members
  BY DEF TypeOK, AllSound, Vote, MayVote
<1>2. DOMAIN BallotOf(p).cast = Voters(p) /\ BallotOf(p).outcome = "open"
  BY <1>1 DEF BallotOf, OutcomeOf
<1>3. BallotOf(q) =
        [BallotOf(p) EXCEPT !.cast =
           [v \in (DOMAIN BallotOf(p).cast) \cup {voter} |->
              IF v = voter THEN choice ELSE BallotOf(p).cast[v]]]
  <2> HIDE DEF p
  <2> QED BY <1>1, <1>2, CountedBallot
<1>4. /\ Ballots' = [Ballots EXCEPT ![id] = BallotOf(q)]
      /\ Ballots[id] = BallotOf(p) /\ id \in DOMAIN Ballots
  BY <1>1 DEF Ballots
<1> HIDE DEF p, q
<1>5. B!Cast(voter, id, choice)
  BY <1>1, <1>2, <1>3, <1>4 DEF B!Cast, Ballots
<1> QED BY <1>4, <1>5 DEF B!Next, Ballots

(***************************************************************************)
(* A change of the status settles the ballot.                              *)
(***************************************************************************)
LEMMA StatusSettles ==
  ASSUME TypeOK, NEW id \in DOMAIN proposals, NEW status \in Statuses,
         proposals' = [proposals EXCEPT ![id].status = status],
         members' = members
  PROVE  B!Settle(id, OutcomeOf(proposals[id].status), OutcomeOf(status))
<1> DEFINE p == proposals[id]
           q == [p EXCEPT !.status = status]
<1>1. p \in Proposal
  BY DEF TypeOK
<1>2. q.votes = p.votes /\ q.status = status
  BY <1>1 DEF Proposal
<1>3. proposals' = [proposals EXCEPT ![id] = q]
  OBVIOUS
<1> HIDE DEF q
<1>4. Voters(q) = Voters(p) /\ \A v : VoteOf(q, v) = VoteOf(p, v)
  BY <1>2 DEF Voters, VoteOf
<1>5. BallotOf(q) = [BallotOf(p) EXCEPT !.outcome = OutcomeOf(status)]
  <2> DEFINE cast == [v \in Voters(p) |-> VoteOf(p, v)]
  <2>1. BallotOf(p) = [cast |-> cast, outcome |-> OutcomeOf(p.status)]
    BY DEF BallotOf
  <2>2. BallotOf(q) = [cast |-> cast, outcome |-> OutcomeOf(status)]
    BY <1>2, <1>4 DEF BallotOf
  <2> HIDE DEF cast
  <2> QED BY <2>1, <2>2
<1>6. /\ Ballots' = [Ballots EXCEPT ![id] = BallotOf(q)]
      /\ Ballots[id] = BallotOf(p) /\ id \in DOMAIN Ballots
  BY <1>3 DEF Ballots
<1>7. BallotOf(p).outcome = OutcomeOf(p.status)
  BY DEF BallotOf
<1> HIDE DEF p
<1>8. B!Settle(id, OutcomeOf(p.status), OutcomeOf(status))
  BY <1>5, <1>6, <1>7 DEF B!Settle, Ballots
<1> QED BY <1>8 DEF p

LEMMA FinalizeSettles ==
  ASSUME TypeOK, AllSound, NEW caller \in Users, NEW id \in DOMAIN proposals,
         Finalize(caller, id)
  PROVE  B!Pass(id) \/ B!Fail(id)
<1> DEFINE p == proposals[id]
<1>1. /\ p \in Proposal /\ Sound(p, now) /\ p.status = "Active"
      /\ proposals' = [proposals EXCEPT ![id].status = Decision(p)]
      /\ members' = members
  BY DEF TypeOK, AllSound, Finalize, MayFinalize
<1>2. /\ OutcomeOf(p.status) = "open" /\ OutcomeOf("Approved") = "passed"
      /\ OutcomeOf("Rejected") = "failed"
  BY <1>1 DEF OutcomeOf
<1>3. CASE Decision(p) = "Approved"
  <2>1. B!Settle(id, "open", "passed")
    BY <1>1, <1>2, <1>3, StatusSettles DEF Statuses
  <2>2. p.yes_votes > p.no_votes
    BY <1>3 DEF Decision
  <2>3. B!Ahead(BallotOf(p))
    BY <1>1, <2>2, AheadByTally
  <2> QED BY <2>1, <2>3 DEF B!Pass
<1>4. CASE Decision(p) = "Rejected"
  <2>1. B!Settle(id, "open", "failed")
    BY <1>1, <1>2, <1>4, StatusSettles DEF Statuses
  <2> QED BY <2>1 DEF B!Fail
<1> QED BY <1>3, <1>4 DEF Decision

LEMMA MembersEnroll ==
  ASSUME members' \in Seq(Users), proposals' = proposals
  PROVE  B!Enroll
<1>1. Elements(members)' \subseteq Users
  BY DEF Elements
<1> QED BY <1>1 DEF B!Enroll

LEMMA NextImplements ==
  ASSUME TypeOK, AllSound, TypeOK', [Next]_vars
  PROVE  [B!Next]_(B!vars)
<1>1. CASE \E caller \in Admins, list \in MemberLists, given \in Settings :
             Initialize(caller, list, given)
  BY <1>1, MembersEnroll DEF Initialize, TypeOK, B!Next
<1>2. CASE \E proposer \in Users, amount \in Amounts :
             CreateProposal(proposer, amount)
  BY <1>2, CreateProposalCalls
<1>3. CASE \E voter \in Users, id \in DOMAIN proposals, choice \in Choices :
             Vote(voter, id, choice)
  BY <1>3, VoteCasts
<1>4. CASE \E caller \in Users, id \in DOMAIN proposals : Finalize(caller, id)
  BY <1>4, FinalizeSettles DEF B!Next
<1>5. CASE \E caller \in Users, id \in DOMAIN proposals : Execute(caller, id)
  <2>1. PICK caller \in Users, id \in DOMAIN proposals : Execute(caller, id)
    BY <1>5
  <2>2. OutcomeOf("Approved") = "passed" /\ OutcomeOf("Executed") = "enacted"
    BY DEF OutcomeOf
  <2>3. B!Enact(id)
    BY <2>1, <2>2, StatusSettles DEF Execute, Statuses, B!Enact
  <2> QED BY <2>3 DEF B!Next
<1>6. CASE \E proposer \in Users, id \in DOMAIN proposals :
             CancelProposal(proposer, id)
  <2>1. PICK proposer \in Users, id \in DOMAIN proposals :
               CancelProposal(proposer, id)
    BY <1>6
  <2>2. OutcomeOf("Active") = "open" /\ OutcomeOf("Cancelled") = "withdrawn"
    BY DEF OutcomeOf
  <2>3. B!Withdraw(id)
    BY <2>1, <2>2, StatusSettles
    DEF CancelProposal, MayCancel, Statuses, B!Withdraw
  <2> QED BY <2>3 DEF B!Next
<1>7. CASE \E caller \in Users, new \in Users : AddMember(caller, new)
  BY <1>7, MembersEnroll DEF AddMember, TypeOK, B!Next
<1>8. CASE \E caller \in Users, member \in Users : RemoveMember(caller, member)
  BY <1>8, MembersEnroll DEF RemoveMember, TypeOK, B!Next
<1>9. CASE Tick
  BY <1>9 DEF Tick, B!vars
<1>10. CASE UNCHANGED vars
  BY <1>10 DEF vars, B!vars
<1> QED
  BY <1>1, <1>2, <1>3, <1>4, <1>5, <1>6, <1>7, <1>8, <1>9, <1>10 DEF Next

(***************************************************************************)
(* The contract implements the ballots: one voice for each member, no vote *)
(* lost, no proposal approved that is not ahead by its votes, and one      *)
(* decision that is final.                                                 *)
(***************************************************************************)
THEOREM GovernanceImplementsBallot == Spec => ImplementsBallot
<1>1. Init => B!Init
  <2>1. Elements(<<>>) = {}
    BY DEF Elements
  <2> QED BY <2>1 DEF Init, B!Init
<1>2. IInv /\ IInv' /\ [Next]_vars => [B!Next]_(B!vars)
  BY NextImplements DEF IInv
<1> QED BY Inductive, <1>1, <1>2, PTL DEF Spec, ImplementsBallot, B!Spec
=============================================================================
