---------------------------- MODULE Arbitration ----------------------------
(***************************************************************************)
(* arbitration: weighted arbitrators vote on disputes during a window;     *)
(* afterwards anyone resolves a dispute, to the outcome with the greatest  *)
(* weight or to a tie.  Arbitrators come, go and change weight, and the    *)
(* admin moves the quorum, while votes are being cast.                     *)
(*                                                                         *)
(* The pause may flip at any time (see module Pausable).                   *)
(***************************************************************************)
EXTENDS LedgerClock

CONSTANTS
    ArbitrationAdmins, NoArbitrationAdmin,   \* holders of DataKey::Admin; absent
    Arbitrators,       \* addresses that may vote
    Creators,          \* addresses that open disputes
    NoDispute,         \* DataKey::Dispute(id) absent
    Weights,           \* arguments weight
    MaxOutcome,        \* bound: outcomes are 1..MaxOutcome
    Windows,           \* arguments duration
    Quorums,           \* arguments <<min_total_weight, min_voters>>
    MaxDisputes,       \* bound: disputes opened
    MaxBenchPage,      \* MAX_ITER_HARD_CAP
    DefaultBenchPage   \* DEFAULT_MAX_ITER

ASSUME ArbitrationAssumption ==
    /\ NoArbitrationAdmin \notin ArbitrationAdmins
    /\ IsFiniteSet(Arbitrators)
    /\ Weights \subseteq Nat /\ Windows \subseteq Nat /\ Quorums \subseteq Nat \X Nat
    /\ MaxOutcome \in Nat /\ MaxDisputes \in Nat
    /\ {MaxBenchPage, DefaultBenchPage} \subseteq Nat \ {0}

Outcomes == 1..MaxOutcome
DisputeIds == 0..(MaxDisputes - 1)
DisputeStatuses == {"Voting", "Resolved", "Cancelled", "Tied"}
Disputes ==
    [creator : Creators, voting_end : Nat, status : DisputeStatuses, outcome : 0..MaxOutcome]

VARIABLES
    arbitration_admin,    \* DataKey::Admin
    arbitration_paused,   \* DataKey::Paused
    arbitrator,           \* DataKey::Arbitrator: weights, 0 when absent
    arbitrators,          \* DataKey::ArbitratorRegistry
    dispute,              \* DataKey::Dispute
    dispute_counter,      \* DataKey::DisputeCounter
    dispute_votes,        \* DataKey::DisputeVotes: 0 when absent from the map
    voter_casted,         \* DataKey::VoterCasted
    voter_counter,        \* DataKey::VoterCounter
    quorum,               \* DataKey::MinTotalWeight and DataKey::MinVoters
    ballots               \* history variable: what each voter cast, [outcome, weight]

benchVars == <<arbitrator, arbitrators>>
votesVars == <<dispute_votes, voter_casted, voter_counter, ballots>>
arbitrationVars == <<arbitration_admin, arbitration_paused, benchVars, dispute,
                     dispute_counter, votesVars, quorum>>

ArbitrationInit ==
    /\ arbitration_admin = NoArbitrationAdmin /\ arbitration_paused = FALSE
    /\ arbitrator = [v \in Arbitrators |-> 0] /\ arbitrators = <<>>
    /\ dispute = [id \in DisputeIds |-> NoDispute] /\ dispute_counter = 0
    /\ dispute_votes = [id \in DisputeIds |-> [o \in Outcomes |-> 0]]
    /\ voter_casted = [id \in DisputeIds |-> {}]
    /\ voter_counter = [id \in DisputeIds |-> 0]
    /\ quorum = <<0, 0>>
    /\ ballots = [id \in DisputeIds |-> {}]

ArbitrationInitialize(a) ==
    /\ arbitration_admin = NoArbitrationAdmin
    /\ arbitration_admin' = a /\ arbitration_paused' = FALSE
    /\ UNCHANGED <<benchVars, dispute, dispute_counter, votesVars, quorum>>

Sitting == ~arbitration_paused
ArbitrationAdminSigns == arbitration_admin # NoArbitrationAdmin

-----------------------------------------------------------------------------
(* The bench.  Votes that were cast keep the weight they were cast with.    *)

RegisterArbitrator(v, weight) ==
    /\ Sitting /\ ArbitrationAdminSigns
    /\ weight > 0
    /\ arbitrator' = [arbitrator EXCEPT ![v] = weight]
    /\ arbitrators' = IF Contains(arbitrators, v) THEN arbitrators
                      ELSE Append(arbitrators, v)
    /\ UNCHANGED <<arbitration_admin, arbitration_paused, dispute, dispute_counter,
                   votesVars, quorum>>

Fault_UnregisterArbitrator(v) ==
    /\ Sitting /\ ArbitrationAdminSigns
    /\ arbitrator' = [arbitrator EXCEPT ![v] = 0]
    /\ UNCHANGED <<arbitration_admin, arbitration_paused, arbitrators, dispute,
                   dispute_counter, votesVars, quorum>>
UnregisterArbitrator(v) ==
    /\ Sitting /\ ArbitrationAdminSigns
    /\ arbitrator' = [arbitrator EXCEPT ![v] = 0]
    /\ arbitrators' = Without(arbitrators, {v})
    /\ UNCHANGED <<arbitration_admin, arbitration_paused, dispute, dispute_counter,
                   votesVars, quorum>>

(* A page of the list from a cursor, and the cursor of the next one, -1     *)
(* when this is the last.                                                   *)
ArbitratorsPage(cursor, limit) ==
    LET size == IF limit = 0 THEN DefaultBenchPage
                ELSE IF limit < MaxBenchPage THEN limit ELSE MaxBenchPage
        end  == IF cursor + size < Len(arbitrators) THEN cursor + size ELSE Len(arbitrators)
    IN  IF cursor >= Len(arbitrators) THEN [members |-> <<>>, next |-> -1]
        ELSE [members |-> SubSeq(arbitrators, cursor + 1, end),
              next |-> IF end >= Len(arbitrators) THEN -1 ELSE end]

SetQuorum(q) ==
    /\ Sitting /\ ArbitrationAdminSigns
    /\ quorum' = q
    /\ UNCHANGED <<arbitration_admin, arbitration_paused, benchVars, dispute,
                   dispute_counter, votesVars>>

-----------------------------------------------------------------------------
(* A dispute.  It is stored in status Voting: Open and Resolving are passed *)
(* within one call.                                                         *)

CreateDispute(c, duration) ==
    /\ Sitting /\ dispute_counter < MaxDisputes
    /\ dispute' = [dispute EXCEPT ![dispute_counter] =
         [creator |-> c, voting_end |-> now + duration, status |-> "Voting", outcome |-> 0]]
    /\ dispute_counter' = dispute_counter + 1
    /\ UNCHANGED <<arbitration_admin, arbitration_paused, benchVars, votesVars, quorum>>

(* By the creator or by the admin; the admin must exist in either case.     *)
CancelDispute(c, id) ==
    /\ Sitting /\ ArbitrationAdminSigns
    /\ dispute[id] # NoDispute /\ dispute[id].status = "Voting"
    /\ c \in {dispute[id].creator, arbitration_admin}
    /\ dispute' = [dispute EXCEPT ![id].status = "Cancelled"]
    /\ UNCHANGED <<arbitration_admin, arbitration_paused, benchVars, dispute_counter,
                   votesVars, quorum>>

Fault_CanVote(v, id) ==
    /\ arbitrator[v] > 0
    /\ dispute[id] # NoDispute /\ dispute[id].status = "Voting"
    /\ now <= dispute[id].voting_end

Fault_CanVoteLate(v, id) ==
    /\ arbitrator[v] > 0
    /\ dispute[id] # NoDispute /\ v \notin voter_casted[id]

(* The last instant of the window is still within it.                       *)
CanVote(v, id) ==
    /\ arbitrator[v] > 0
    /\ dispute[id] # NoDispute /\ dispute[id].status = "Voting"
    /\ now <= dispute[id].voting_end
    /\ v \notin voter_casted[id]

CastVote(v, id, outcome) ==
    /\ Sitting /\ CanVote(v, id)
    /\ voter_casted' = [voter_casted EXCEPT ![id] = @ \cup {v}]
    /\ voter_counter' = [voter_counter EXCEPT ![id] = @ + 1]
    /\ dispute_votes' = [dispute_votes EXCEPT ![id][outcome] = @ + arbitrator[v]]
    /\ ballots' = [ballots EXCEPT ![id] =
         @ \cup {[voter |-> v, outcome |-> outcome, weight |-> arbitrator[v]]}]
    /\ UNCHANGED <<arbitration_admin, arbitration_paused, benchVars, dispute,
                   dispute_counter, quorum>>

-----------------------------------------------------------------------------
(* The verdict: one pass over the tallies in the order of the outcomes.     *)

Count(votes) ==
    LET count[n \in 0..MaxOutcome] ==
            IF n = 0 THEN [winner |-> 0, weight |-> -1, tie |-> FALSE]
            ELSE IF votes[n] = 0 THEN count[n - 1]
            ELSE IF votes[n] > count[n - 1].weight
                 THEN [winner |-> n, weight |-> votes[n], tie |-> FALSE]
            ELSE [count[n - 1] EXCEPT !.tie = @ \/ votes[n] = count[n - 1].weight]
    IN  count[MaxOutcome]

TotalWeight(votes) ==
    LET total[n \in 0..MaxOutcome] == IF n = 0 THEN 0 ELSE total[n - 1] + votes[n]
    IN  total[MaxOutcome]

Tied(count) == count.tie \/ count.weight < 0

QuorumReached(id) ==
    TotalWeight(dispute_votes[id]) >= quorum[1] /\ voter_counter[id] >= quorum[2]

(* Anyone; a dispute without its quorum stays in Voting.                    *)
ResolveDispute(id) ==
    /\ Sitting
    /\ dispute[id] # NoDispute /\ dispute[id].status = "Voting"
    /\ now > dispute[id].voting_end
    /\ QuorumReached(id)
    /\ LET count == Count(dispute_votes[id])
       IN  dispute' = [dispute EXCEPT
             ![id].status = IF Tied(count) THEN "Tied" ELSE "Resolved",
             ![id].outcome = IF Tied(count) THEN 0 ELSE count.winner]
    /\ UNCHANGED <<arbitration_admin, arbitration_paused, benchVars, dispute_counter,
                   votesVars, quorum>>

ArbitrationSwitchPause ==
    /\ ArbitrationAdminSigns
    /\ arbitration_paused' = ~arbitration_paused
    /\ UNCHANGED <<arbitration_admin, benchVars, dispute, dispute_counter, votesVars, quorum>>

ArbitrationNext ==
    \/ \E a \in ArbitrationAdmins : ArbitrationInitialize(a)
    \/ \E v \in Arbitrators, weight \in Weights : RegisterArbitrator(v, weight)
    \/ \E v \in Arbitrators : UnregisterArbitrator(v)
    \/ \E q \in Quorums : SetQuorum(q)
    \/ \E c \in Creators, duration \in Windows : CreateDispute(c, duration)
    \/ \E c \in Creators \cup ArbitrationAdmins, id \in DisputeIds : CancelDispute(c, id)
    \/ \E v \in Arbitrators, id \in DisputeIds, o \in Outcomes : CastVote(v, id, o)
    \/ \E id \in DisputeIds : ResolveDispute(id)
    \/ ArbitrationSwitchPause

(* The contract alone on its ledger.                                        *)
ArbitrationSpec ==
    /\ LedgerInit /\ ArbitrationInit
    /\ [][\/ ArbitrationNext /\ UNCHANGED now
          \/ Tick /\ UNCHANGED arbitrationVars]_<<now, arbitrationVars>>

-----------------------------------------------------------------------------
(* Properties.                                                              *)

(* The bench that can be listed is the bench that can vote: reading it page *)
(* by page, at any page size, gives each arbitrator with a weight once and  *)
(* nobody else, after arbitrators left, came back or changed their weight.  *)
BenchIsListed ==
    /\ Lists(arbitrators, {v \in Arbitrators : arbitrator[v] > 0})
    /\ \A limit \in 0..MaxBenchPage + 1 :
          LET read[cursor \in 0..Cardinality(Arbitrators)] ==
                  LET page == ArbitratorsPage(cursor, limit)
                  IN  page.members \o (IF page.next = -1 THEN <<>> ELSE read[page.next])
          IN  read[0] = arbitrators

(* A voter counts once in a dispute, with the weight of the moment of the   *)
(* vote, whatever happens to the bench later: leaving, coming back or       *)
(* another weight neither changes a tally nor allows a second vote.         *)
OneBallotEach ==
    \A id \in DisputeIds :
        /\ Cardinality({b.voter : b \in ballots[id]}) = Cardinality(ballots[id])
        /\ voter_counter[id] = Cardinality(ballots[id])
        /\ \A o \in Outcomes :
               LET cast == {b \in ballots[id] : b.outcome = o}
               IN  dispute_votes[id][o] = SumFunction([b \in cast |-> b.weight])

(* A verdict is what the ballots say, at every moment after it was given: a *)
(* resolved dispute has the outcome with strictly more weight than each     *)
(* other, a tied one has none, and none is given during the window.         *)
VerdictStands ==
    \A id \in DisputeIds : dispute[id] # NoDispute =>
        LET d == dispute[id]
            votes == dispute_votes[id]
            Wins(o) == votes[o] > 0 /\ \A p \in Outcomes \ {o} : votes[p] < votes[o]
        IN  /\ d.status = "Resolved" => d.outcome # 0 /\ Wins(d.outcome)
            /\ d.status = "Tied" => d.outcome = 0 /\ \A o \in Outcomes : ~Wins(o)
            /\ d.status \in {"Resolved", "Tied"} => now > d.voting_end
=============================================================================
