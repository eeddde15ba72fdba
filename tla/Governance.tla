----------------------------- MODULE Governance -----------------------------
(***************************************************************************)
(* credence_bond, governance_approval.rs: governors vote on slashes, each  *)
(* by his own ballot or by that of the address he has delegated to.  The   *)
(* ballots are kept by address; which of them count, and for how many      *)
(* seats, is decided when the slash is executed.                           *)
(*                                                                         *)
(* Nothing guards initialize_governance: a second call replaces the        *)
(* governors and restarts the identifiers, and old ballots stay stored.    *)
(***************************************************************************)
EXTENDS LedgerClock

CONSTANTS
    Voters, NoVoter,          \* addresses; no delegate stored
    GovernorLists,            \* arguments governors
    QuorumRules,              \* arguments <<quorum_bps, min_governors>>
    SlashAmounts,             \* arguments amount
    BpsOfWhole,               \* BPS_DENOMINATOR
    MaxSlashProposals,        \* bound: proposals between two initializations
    MaxFoundings,             \* bound: calls of initialize_governance
    NoSlashProposal

ASSUME GovernanceAssumption ==
    /\ NoVoter \notin Voters /\ GovernorLists \subseteq Seq(Voters)
    /\ QuorumRules \subseteq Nat \X Nat /\ SlashAmounts \subseteq Int
    /\ BpsOfWhole \in Nat \ {0} /\ MaxSlashProposals \in Nat /\ MaxFoundings \in Nat

VARIABLES
    governors,            \* DataKey::GovernanceGovernors
    quorum_rule,          \* DataKey::GovernanceQuorumBps and GovernanceMinGovernors
    next_slash,           \* DataKey::GovernanceNextProposalId
    slash_proposal,       \* DataKey::GovernanceProposal
    governance_vote,      \* DataKey::GovernanceVote: "approve", "reject" or "none"
    governance_delegate,  \* DataKey::GovernanceDelegate
    foundings,            \* history: calls of initialize_governance
    verdict               \* history: the seats' voices when a proposal was decided

chamberVars == <<governors, quorum_rule, foundings>>
governanceVars == <<chamberVars, next_slash, slash_proposal, governance_vote,
                    governance_delegate, verdict>>

SlashIds == 0 .. MaxSlashProposals - 1

GovernanceInit ==
    /\ governors = <<>> /\ quorum_rule = <<5100, 1>> /\ foundings = 0
    /\ next_slash = 0 /\ slash_proposal = [p \in SlashIds |-> NoSlashProposal]
    /\ governance_vote = [p \in SlashIds |-> [v \in Voters |-> "none"]]
    /\ governance_delegate = [v \in Voters |-> NoVoter]
    /\ verdict = [p \in SlashIds |-> <<>>]

InitializeGovernance(list, rule) ==
    /\ rule[1] <= BpsOfWhole /\ foundings < MaxFoundings
    /\ governors' = list /\ quorum_rule' = rule /\ next_slash' = 0
    /\ foundings' = foundings + 1
    /\ UNCHANGED <<slash_proposal, governance_vote, governance_delegate, verdict>>

IsGovernor(v) == Contains(governors, v)

-----------------------------------------------------------------------------
(* The callers of propose_slash answer for the proposer.                    *)
ProposeSlash(amount) ==
    /\ amount > 0 /\ next_slash < MaxSlashProposals
    /\ slash_proposal' = [slash_proposal EXCEPT
          ![next_slash] = [amount |-> amount, status |-> "Open"]]
    /\ next_slash' = next_slash + 1
    /\ verdict' = [verdict EXCEPT ![next_slash] = <<>>]
    /\ UNCHANGED <<chamberVars, governance_vote, governance_delegate>>

Open(p) == slash_proposal[p] # NoSlashProposal /\ slash_proposal[p].status = "Open"

(* Also by the delegate of any governor, whether or not he is one himself.  *)
Vote(v, p, ballot) ==
    /\ Open(p)
    /\ IsGovernor(v) \/ \E i \in DOMAIN governors : governance_delegate[governors[i]] = v
    /\ governance_vote[p][v] = "none"
    /\ governance_vote' = [governance_vote EXCEPT ![p][v] = ballot]
    /\ UNCHANGED <<chamberVars, next_slash, slash_proposal, governance_delegate, verdict>>

Delegate(g, to) ==
    /\ IsGovernor(g)
    /\ governance_delegate' = [governance_delegate EXCEPT ![g] = to]
    /\ UNCHANGED <<chamberVars, next_slash, slash_proposal, governance_vote, verdict>>

-----------------------------------------------------------------------------
(* Counting, by seats: a governor who is listed twice has two, and who has  *)
(* delegated is heard through his delegate only, not through a ballot of    *)
(* his own nor through a delegate of his delegate.                          *)
EffectiveVoter(g) == IF governance_delegate[g] = NoVoter THEN g ELSE governance_delegate[g]
Voice(p, seat) == governance_vote[p][EffectiveVoter(governors[seat])]
Seats(p, voices) == Cardinality({s \in DOMAIN governors : Voice(p, s) \in voices})

Greater(a, b) == IF a >= b THEN a ELSE b

Fault_IsApproved(p) ==
    LET voted == Seats(p, {"approve", "reject"})
    IN  /\ governors # <<>> /\ voted > 0
        /\ voted >= Greater((Len(governors) * quorum_rule[1]) \div BpsOfWhole, quorum_rule[2])
        /\ 2 * Seats(p, {"approve"}) >= voted
IsApproved(p) ==
    LET voted == Seats(p, {"approve", "reject"})
    IN  /\ governors # <<>> /\ voted > 0
        /\ voted >= Greater((Len(governors) * quorum_rule[1]) \div BpsOfWhole, quorum_rule[2])
        /\ Seats(p, {"approve"}) > voted \div 2

(* One call decides for good: without the votes it needs by then, the       *)
(* proposal is rejected.                                                    *)
ExecuteSlashIfApproved(p) ==
    /\ Open(p)
    /\ slash_proposal' = [slash_proposal EXCEPT
          ![p].status = IF IsApproved(p) THEN "Executed" ELSE "Rejected"]
    /\ verdict' = [verdict EXCEPT ![p] = [s \in DOMAIN governors |-> Voice(p, s)]]
    /\ UNCHANGED <<chamberVars, next_slash, governance_vote, governance_delegate>>

GovernanceNext ==
    \/ \E list \in GovernorLists, rule \in QuorumRules : InitializeGovernance(list, rule)
    \/ \E amount \in SlashAmounts : ProposeSlash(amount)
    \/ \E v \in Voters, p \in SlashIds, ballot \in {"approve", "reject"} : Vote(v, p, ballot)
    \/ \E g, to \in Voters : Delegate(g, to)
    \/ \E p \in SlashIds : ExecuteSlashIfApproved(p)

(* The chamber alone: it has no clock.                                      *)
GovernanceSpec == GovernanceInit /\ [][GovernanceNext]_governanceVars

-----------------------------------------------------------------------------
(* Properties.                                                              *)

(* A slash is executed only if more of the seats that spoke were for it than*)
(* against it: each seat once, through the delegations standing at that     *)
(* moment, and whether or not the list of governors names somebody twice.   *)
VerdictsMatchVoices == \A p \in SlashIds :
    LET Spoke(voice) == Cardinality({s \in DOMAIN verdict[p] : verdict[p][s] = voice})
    IN  slash_proposal[p] # NoSlashProposal /\ slash_proposal[p].status = "Executed" =>
            Spoke("approve") > Spoke("reject")
=============================================================================
