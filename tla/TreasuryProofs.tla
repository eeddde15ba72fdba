--------------------------- MODULE TreasuryProofs ---------------------------
(***************************************************************************)
(* Proofs about Treasury, for every value of its constants: the types, the *)
(* accounting identity with its rounding, the lifetime counters, custody   *)
(* and the liquidity floor, the emergency pause, and that what is counted  *)
(* (approvals, signers, payments) is what is stored.                       *)
(***************************************************************************)
EXTENDS Treasury, Lemmas

USE PauseSortsAssumption, TreasurySortsAssumption, TreasuryNumbersAssumption,
    NoProposalAssumption

-----------------------------------------------------------------------------
(* Arithmetic.                                                              *)

(* The rounded share of one source fits in that source, and what is left of *)
(* the withdrawal fits in the other.                                        *)
LEMMA DeductionBounds ==
  ASSUME NEW part \in Nat, NEW whole \in Nat, part <= whole,
         NEW amt \in Nat, amt <= whole
  PROVE  /\ Deduction(part, amt, whole) \in Nat
         /\ Deduction(part, amt, whole) <= part
         /\ Deduction(part, amt, whole) <= amt
         /\ amt - Deduction(part, amt, whole) <= whole - part
<1>1. CASE part = 0 \/ amt = 0
  BY <1>1 DEF Deduction
<1>2. CASE part # 0 /\ amt = whole
  BY <1>2 DEF Deduction
<1>3. CASE part # 0 /\ amt # 0 /\ amt # whole
  <2> DEFINE q == (part * amt) \div whole
  <2>1. Deduction(part, amt, whole) = q /\ whole > 0 /\ part * amt \in Nat
    BY <1>3 DEF Deduction
  <2>2. q \in Nat /\ q * whole <= part * amt /\ part * amt < (q + 1) * whole
    BY <2>1
  <2> HIDE DEF q
  <2>3. q <= part
    <3>1. part * amt <= part * whole
      OBVIOUS
    <3> QED
      BY <2>1, <2>2, <3>1
  <2>4. q <= amt
    <3>1. part * amt <= amt * whole
      OBVIOUS
    <3> QED
      BY <2>1, <2>2, <3>1
  <2>5. amt - q <= whole - part
    <3>1. (whole - part) * (whole - amt) >= 0
      OBVIOUS
    <3>2. (amt + part - whole) * whole <= part * amt
      BY <3>1
    <3>3. (amt + part - whole) * whole < (q + 1) * whole
      BY <2>2, <3>2
    <3>4. amt + part - whole < q + 1
      BY <2>1, <2>2, <3>3
    <3> QED
      BY <2>2, <3>4
  <2> QED
    BY <2>1, <2>2, <2>3, <2>4, <2>5
<1> QED
  BY <1>1, <1>2, <1>3

(* The share is the floor of the exact proportion.                          *)
LEMMA DeductionIsFloor ==
  ASSUME NEW part \in Nat, NEW whole \in Nat, part <= whole,
         NEW amt \in Nat, amt <= whole, whole > 0
  PROVE  /\ Deduction(part, amt, whole) * whole <= part * amt
         /\ part * amt < (Deduction(part, amt, whole) + 1) * whole
<1>1. CASE part = 0 \/ amt = 0
  BY <1>1 DEF Deduction
<1>2. CASE part # 0 /\ amt = whole
  BY <1>2 DEF Deduction
<1>3. CASE part # 0 /\ amt # 0 /\ amt # whole
  <2>1. Deduction(part, amt, whole) = (part * amt) \div whole /\ part * amt \in Nat
    BY <1>3 DEF Deduction
  <2> QED
    BY <2>1
<1> QED
  BY <1>1, <1>2, <1>3

(* A deposit adds exactly its amount to a lifetime counter, rollover or not.*)
LEMMA AddedCounts ==
  ASSUME NEW c \in [rollovers : Nat, remainder : 0..MaxAmount],
         NEW amt \in 0..MaxAmount
  PROVE  /\ Added(c, amt) \in [rollovers : Nat, remainder : 0..MaxAmount]
         /\ Lifetime(Added(c, amt)) = Lifetime(c) + amt
<1>1. CASE c.remainder + amt >= Segment
  <2>1. Added(c, amt) = [rollovers |-> c.rollovers + 1,
                         remainder |-> c.remainder + amt - Segment]
    BY <1>1 DEF Added
  <2>2. (c.rollovers + 1) * Segment = c.rollovers * Segment + Segment
    BY DEF Segment
  <2>3. c.remainder + amt - Segment \in 0..MaxAmount /\ c.rollovers + 1 \in Nat
    BY <1>1 DEF Segment
  <2> QED
    BY <2>1, <2>2, <2>3 DEF Lifetime, Segment
<1>2. CASE ~(c.remainder + amt >= Segment)
  <2>1. Added(c, amt) = [c EXCEPT !.remainder = @ + amt]
    BY <1>2 DEF Added
  <2>2. Added(c, amt) = [rollovers |-> c.rollovers, remainder |-> c.remainder + amt]
    BY <2>1
  <2>3. c.remainder + amt \in 0..MaxAmount
    BY <1>2 DEF Segment
  <2> QED
    BY <2>2, <2>3 DEF Lifetime, Segment
<1> QED
  BY <1>1, <1>2

-----------------------------------------------------------------------------
(* Types.                                                                   *)

BallotsTypeOK ==
    /\ counter \in 0..MaxProposals
    /\ proposal \in [Ids -> Proposal \cup {NoProposal}]
    /\ approvals \in [Ids -> SUBSET Signers]
    /\ approval_count \in [Ids -> Nat]

RolesTypeOK ==
    /\ depositors \subseteq Depositors /\ signers \subseteq Signers
    /\ signer_count \in Nat /\ threshold \in Nat

LEMMA TypeParts == TypeOK <=> InstanceTypeOK /\ RolesTypeOK /\ BallotsTypeOK
  BY DEF TypeOK, RolesTypeOK, BallotsTypeOK

(* The pause entry points keep the types of the pause keys.                 *)
LEMMA PauseNextType ==
  ASSUME PauseTypeOK, PauseNext
  PROVE  PauseTypeOK'
<1>1. ASSUME NEW id \in PauseIds, NEW s \in PauseSigners, NEW count \in Nat,
             RecordPauseApproval(id, s, count)
      PROVE  /\ pause_approvals' \in [PauseIds -> SUBSET PauseSigners]
             /\ pause_approval_count' \in [PauseIds -> Nat]
  BY <1>1 DEF RecordPauseApproval, PauseTypeOK
<1>2. ASSUME NEW a \in Admins, NEW s \in PauseSigners, NEW enabled \in BOOLEAN,
             SetPauseSigner(a, s, enabled)
      PROVE  PauseTypeOK'
  <2>1. CASE enabled
    BY <1>2, <2>1 DEF SetPauseSigner, EnablePauseSigner, PauseTypeOK, pauseBallots
  <2>2. CASE ~enabled
    BY <1>2, <2>2 DEF SetPauseSigner, DisablePauseSigner, Smaller, PauseTypeOK,
                      pauseBallots, pauseConfig
  <2> QED
    BY <2>1, <2>2
<1>3. ASSUME NEW a \in Admins, NEW t \in 0..Cardinality(PauseSigners), SetPauseThreshold(a, t)
      PROVE  PauseTypeOK'
  <2>1. t \in Nat
    BY FS_CardinalityType
  <2> QED
    BY <1>3, <2>1 DEF SetPauseThreshold, PauseTypeOK, pauseBallots
<1>4. ASSUME NEW a \in Admins, NEW action \in PauseActions, PauseDirectly(a, action)
      PROVE  PauseTypeOK'
  BY <1>4 DEF PauseDirectly, PauseTypeOK, pauseBallots, pauseConfig
<1>5. ASSUME NEW s \in PauseSigners, NEW action \in PauseActions, ProposePause(s, action)
      PROVE  PauseTypeOK'
  <2>1. pause_counter \in PauseIds /\ pause_counter + 1 \in 0..MaxPauseProposals
    BY <1>5 DEF ProposePause, PauseTypeOK, PauseIds
  <2>2. /\ pause_approvals' \in [PauseIds -> SUBSET PauseSigners]
        /\ pause_approval_count' \in [PauseIds -> Nat]
    BY <1>1, <1>5, <2>1 DEF ProposePause
  <2> QED
    BY <1>5, <2>1, <2>2 DEF ProposePause, PauseTypeOK, pauseConfig
<1>6. ASSUME NEW s \in PauseSigners, NEW id \in PauseIds, ApprovePauseProposal(s, id)
      PROVE  PauseTypeOK'
  <2>1. pause_approval_count[id] \in Nat
    BY DEF PauseTypeOK
  <2>2. /\ pause_approvals' \in [PauseIds -> SUBSET PauseSigners]
        /\ pause_approval_count' \in [PauseIds -> Nat]
    BY <1>1, <1>6, <2>1 DEF ApprovePauseProposal
  <2> QED
    BY <1>6, <2>2 DEF ApprovePauseProposal, PauseTypeOK, pauseConfig
<1>7. ASSUME NEW id \in PauseIds, ExecutePauseProposal(id)
      PROVE  PauseTypeOK'
  BY <1>7 DEF ExecutePauseProposal, PauseTypeOK, pauseConfig
<1> QED
  BY <1>2, <1>3, <1>4, <1>5, <1>6, <1>7 DEF PauseNext

(* What an execution does to the numbers: the settled amount is between 0   *)
(* and the total, and so is what remains.                                   *)
LEMMA SettledBounds ==
  ASSUME TypeOK, NEW id \in Ids, NEW cut \in Cuts, CanExecute(id), cut <= proposal[id].amount
  PROVE  /\ proposal[id] \in Proposal
         /\ Settled(proposal[id], cut) \in 0..total
         /\ Settled(proposal[id], cut) <= proposal[id].amount
         /\ Debited(proposal[id], cut) \in 0..MaxAmount
<1>1. proposal[id] \in Proposal
  BY DEF TypeOK, CanExecute, Live
<1>2. proposal[id].amount \in Nat /\ proposal[id].amount <= total
  BY <1>1 DEF Proposal, CanExecute
<1>3. total \in 0..MaxAmount /\ cut \in Nat
  BY DEF TypeOK, InstanceTypeOK
<1>4. Settled(proposal[id], cut) \in 0..total /\ Settled(proposal[id], cut) <= proposal[id].amount
  BY <1>2, <1>3 DEF Settled
<1> QED
  BY <1>1, <1>3, <1>4 DEF Debited

(* Configuration entry points.                                              *)
LEMMA AdminNextType ==
  ASSUME TypeOK, NEW a \in Admins, AdminNext(a)
  PROVE  TypeOK'
<1> USE DEF TypeOK, InstanceTypeOK
<1>1. ASSUME NEW t \in Tokens, Initialize(a, t)
      PROVE  TypeOK'
  <2>1. PauseTypeOK'
    <3>1. 0 \in 0..MaxPauseProposals /\ admin' \in Admins /\ paused' = FALSE
      BY <1>1 DEF Initialize, PauseReset
    <3> QED
      BY <1>1, <3>1 DEF Initialize, PauseReset, PauseTypeOK
  <2>2. Zero \in [rollovers : Nat, remainder : 0..MaxAmount]
    BY DEF Zero
  <2> QED
    BY <1>1, <2>1, <2>2 DEF Initialize, custody
<1>2. ASSUME NEW t \in Tokens, SetToken(a, t)
      PROVE  TypeOK'
  BY <1>2 DEF SetToken, pauseVars, pauseConfig, pauseBallots, PauseTypeOK, funds, custody,
              roles, limits, ballots
<1>3. ASSUME NEW d \in Depositors, AddDepositor(a, d) \/ RemoveDepositor(a, d)
      PROVE  TypeOK'
  BY <1>3 DEF AddDepositor, RemoveDepositor, pauseVars, pauseConfig, pauseBallots,
              PauseTypeOK, funds, custody, limits, ballots
<1>4. ASSUME NEW s \in Signers, AddSigner(a, s) \/ RemoveSigner(a, s)
      PROVE  TypeOK'
  BY <1>4 DEF AddSigner, RemoveSigner, CappedThreshold, Smaller, pauseVars, pauseConfig,
              pauseBallots, PauseTypeOK, funds, custody, limits, ballots
<1>5. ASSUME NEW t \in 0..Cardinality(Signers), SetThreshold(a, t)
      PROVE  TypeOK'
  <2>1. t \in Nat
    BY FS_CardinalityType
  <2> QED
    BY <1>5, <2>1 DEF SetThreshold, pauseVars, pauseConfig, pauseBallots, PauseTypeOK,
                      funds, custody, limits, ballots
<1>6. ASSUME NEW floor \in Floors, SetMinLiquidity(a, floor)
      PROVE  TypeOK'
  BY <1>6 DEF SetMinLiquidity, pauseVars, pauseConfig, pauseBallots, PauseTypeOK, funds,
              custody, roles, ballots
<1>7. ASSUME NEW ttl \in Ttls, SetProposalTtl(a, ttl)
      PROVE  TypeOK'
  BY <1>7 DEF SetProposalTtl, pauseVars, pauseConfig, pauseBallots, PauseTypeOK, funds,
              custody, roles, ballots
<1>8. ASSUME NEW r \in Recipients, NEW amt \in Amounts, RescueNative(a, r, amt)
      PROVE  TypeOK'
  <2>1. token \in Tokens /\ amt \in Nat /\ amt <= held[token] /\ held[token] \in Nat
    BY <1>8 DEF RescueNative, Excess
  <2>2. held' \in [Tokens -> Nat]
    BY <1>8, <2>1 DEF RescueNative
  <2> QED
    BY <1>8, <2>2 DEF RescueNative, pauseVars, pauseConfig, pauseBallots, PauseTypeOK,
                      funds, roles, limits, ballots
<1> QED
  BY <1>1, <1>2, <1>3, <1>4, <1>5, <1>6, <1>7, <1>8 DEF AdminNext

(* Proposals and approvals.                                                 *)
LEMMA SignerNextType ==
  ASSUME TypeOK, NEW s \in Signers, SignerNext(s)
  PROVE  TypeOK'
<1> USE DEF TypeOK, InstanceTypeOK
<1>1. ASSUME NEW r \in Recipients, NEW amt \in Amounts, ProposeWithdrawal(s, r, amt)
      PROVE  TypeOK'
  <2>1. counter \in Ids /\ counter + 1 \in 0..MaxProposals
    BY <1>1 DEF ProposeWithdrawal, Ids
  <2>2. amt \in Nat /\ MaxTimestamp \in Nat /\ now + proposal_ttl \in Nat
    BY <1>1 DEF ProposeWithdrawal
  <2> DEFINE p == [recipient |-> r, amount |-> amt, executed |-> FALSE,
                   expires_at |-> IF proposal_ttl = 0 THEN MaxTimestamp ELSE now + proposal_ttl]
  <2>3. p \in Proposal
    BY <2>2 DEF Proposal
  <2>4. proposal' = [proposal EXCEPT ![counter] = p]
    BY <1>1 DEF ProposeWithdrawal
  <2> HIDE DEF p
  <2>5. proposal' \in [Ids -> Proposal \cup {NoProposal}]
    BY <2>1, <2>3, <2>4
  <2> QED
    BY <1>1, <2>1, <2>5 DEF ProposeWithdrawal, pauseVars, pauseConfig, pauseBallots,
                            PauseTypeOK, funds, custody, roles, limits
<1>2. ASSUME NEW id \in Ids, ApproveWithdrawal(s, id)
      PROVE  TypeOK'
  BY <1>2 DEF ApproveWithdrawal, pauseVars, pauseConfig, pauseBallots, PauseTypeOK, funds,
              custody, roles, limits
<1> QED
  BY <1>1, <1>2 DEF SignerNext

(* Deposits.                                                                *)
LEMMA ReceiveFeeType ==
  ASSUME TypeOK, NEW a \in Admins \cup Depositors, NEW amt \in Amounts,
         NEW source \in Sources, NEW cut \in Cuts, ReceiveFee(a, amt, source, cut)
  PROVE  TypeOK'
<1> USE DEF TypeOK, InstanceTypeOK
<1>1. amt \in 0..MaxAmount /\ total' \in 0..MaxAmount /\ cut \in Nat /\ token \in Tokens
  BY DEF ReceiveFee
<1>2. cumulative' \in [Counters -> [rollovers : Nat, remainder : 0..MaxAmount]]
  <2>1. \A c \in Counters : Added(cumulative[c], amt) \in [rollovers : Nat, remainder : 0..MaxAmount]
    BY <1>1, AddedCounts
  <2> QED
    BY <2>1 DEF ReceiveFee
<1>3. held' \in [Tokens -> Nat] /\ withheld' \in Nat
  BY <1>1 DEF ReceiveFee
<1>4. source_balance' \in [Sources -> Int]
  BY <1>1 DEF ReceiveFee, Credited
<1> QED
  BY <1>1, <1>2, <1>3, <1>4 DEF ReceiveFee, pauseVars, pauseConfig, pauseBallots,
                               PauseTypeOK, roles, limits, ballots

(* Executed withdrawals.                                                    *)
LEMMA ExecuteType ==
  ASSUME TypeOK, NEW id \in Ids, NEW cut \in Cuts, NEW m \in Amounts \cup {0},
         ExecuteWithdrawal(id, m, cut)
  PROVE  TypeOK'
<1> USE DEF TypeOK, InstanceTypeOK
<1> DEFINE p == proposal[id]
<1>1. CanExecute(id) /\ cut <= p.amount
  BY DEF ExecuteWithdrawal
<1>2. /\ p \in Proposal /\ Settled(p, cut) \in 0..total
      /\ Debited(p, cut) \in 0..MaxAmount
  BY <1>1, SettledBounds
<1>3. p.amount \in Nat /\ token \in Tokens /\ p.amount <= held[token]
  BY <1>1, <1>2 DEF Proposal, CanExecute
<1>4. held' \in [Tokens -> Nat] /\ withheld' \in Nat /\ paid' \in Nat
  BY <1>3 DEF ExecuteWithdrawal, custody
<1>5. proposal' \in [Ids -> Proposal \cup {NoProposal}]
  <2>1. [p EXCEPT !.executed = TRUE] \in Proposal
    BY <1>2 DEF Proposal
  <2>2. proposal' = [proposal EXCEPT ![id] = [p EXCEPT !.executed = TRUE]]
    BY DEF ExecuteWithdrawal
  <2> QED
    BY <2>1, <2>2
<1>6. source_balance' \in [Sources -> Int]
  <2> DEFINE share == Deduction(source_balance["ProtocolFee"], Settled(p, cut), total)
  <2>1. share \in Int
    <3>1. "ProtocolFee" \in Sources
      BY DEF Sources
    <3>2. source_balance["ProtocolFee"] \in Int /\ Settled(p, cut) \in Nat /\ total \in Nat
      BY <1>2, <3>1
    <3>3. Settled(p, cut) # 0 => total > 0
      BY <1>2
    <3> QED
      BY <3>2, <3>3 DEF Deduction
  <2>2. Settled(p, cut) \in Int
    BY <1>2
  <2>3. source_balance' = [s \in Sources |->
           source_balance[s] - (IF s = "ProtocolFee" THEN share ELSE Settled(p, cut) - share)]
    BY DEF ExecuteWithdrawal, Deducted
  <2> HIDE DEF share
  <2> QED
    BY <2>1, <2>2, <2>3
<1>7. total' \in 0..MaxAmount
  BY <1>2 DEF ExecuteWithdrawal
<1> QED
  BY <1>4, <1>5, <1>6, <1>7 DEF ExecuteWithdrawal, pauseVars, pauseConfig, pauseBallots,
                               PauseTypeOK, roles, limits

LEMMA NextType ==
  ASSUME TypeOK, [Next]_vars
  PROVE  TypeOK'
<1> USE DEF TypeOK, InstanceTypeOK
<1>1. ASSUME PauseNext, UNCHANGED treasuryVars
      PROVE  TypeOK'
  <2>1. PauseTypeOK'
    BY <1>1, PauseNextType
  <2> QED
    BY <1>1, <2>1 DEF treasuryVars, funds, custody, roles, limits, ballots
<1>2. ASSUME NEW t \in Tokens, NEW amt \in Amounts, Donate(t, amt)
      PROVE  TypeOK'
  BY <1>2 DEF Donate, pauseVars, pauseConfig, pauseBallots, PauseTypeOK, funds, roles,
              limits, ballots
<1>3. CASE Tick
  BY <1>3 DEF Tick, pauseVars, pauseConfig, pauseBallots, PauseTypeOK, funds, custody,
              roles, limits, ballots
<1>4. CASE UNCHANGED vars
  BY <1>4 DEF vars, treasuryVars, pauseVars, pauseConfig, pauseBallots, PauseTypeOK, funds,
              custody, roles, limits, ballots
<1> QED
  BY <1>1, <1>2, <1>3, <1>4, AdminNextType, SignerNextType, ReceiveFeeType, ExecuteType
     DEF Next

LEMMA InitType == Init => TypeOK
<1> SUFFICES ASSUME Init PROVE TypeOK
  OBVIOUS
<1>1. PauseTypeOK
  <2>1. 0 \in 0..MaxPauseProposals /\ FALSE \in BOOLEAN /\ {} \in SUBSET PauseSigners
    OBVIOUS
  <2> QED
    BY <2>1 DEF Init, PauseInit, PauseTypeOK
<1>2. Zero \in [rollovers : Nat, remainder : 0..MaxAmount]
  BY DEF Zero
<1> QED
  BY <1>1, <1>2 DEF Init, TypeOK, InstanceTypeOK

(* Every key keeps the type the code gives it.                              *)
THEOREM TypeCorrect == Spec => []TypeOK
<1> QED
  BY InitType, NextType, PTL DEF Spec

-----------------------------------------------------------------------------
(* The accounting identity and the lifetime counters.                       *)

Books == BooksBalance /\ LifetimesAgree

(* What a step does to the books when it is neither a deposit, nor an       *)
(* execution, nor an initialization: nothing.                               *)
BooksUntouched == UNCHANGED <<total, source_balance, cumulative, paid>>

LEMMA UntouchedBooks ==
  ASSUME Books, BooksUntouched
  PROVE  Books'
BY DEF Books, BooksUntouched, BooksBalance, LifetimesAgree, Lifetime

LEMMA StepKinds ==
  ASSUME [Next]_vars
  PROVE  \/ BooksUntouched
         \/ \E a \in Admins, t \in Tokens : Initialize(a, t)
         \/ \E a \in Admins \cup Depositors, amt \in Amounts, source \in Sources, cut \in Cuts :
               ReceiveFee(a, amt, source, cut)
         \/ \E id \in Ids, m \in Amounts \cup {0}, cut \in Cuts : ExecuteWithdrawal(id, m, cut)
<1> USE DEF BooksUntouched, funds
<1>1. ASSUME NEW a \in Admins, AdminNext(a)
      PROVE  BooksUntouched \/ \E t \in Tokens : Initialize(a, t)
  BY <1>1 DEF AdminNext, SetToken, AddDepositor, RemoveDepositor, AddSigner, RemoveSigner,
              SetThreshold, SetMinLiquidity, SetProposalTtl, RescueNative
<1>2. ASSUME NEW s \in Signers, SignerNext(s)
      PROVE  BooksUntouched
  BY <1>2 DEF SignerNext, ProposeWithdrawal, ApproveWithdrawal
<1>3. ASSUME PauseNext, UNCHANGED treasuryVars
      PROVE  BooksUntouched
  BY <1>3 DEF treasuryVars
<1>4. ASSUME NEW t \in Tokens, NEW amt \in Amounts, Donate(t, amt)
      PROVE  BooksUntouched
  BY <1>4 DEF Donate
<1>5. ASSUME Tick \/ UNCHANGED vars
      PROVE  BooksUntouched
  BY <1>5 DEF Tick, vars, treasuryVars
<1> QED
  BY <1>1, <1>2, <1>3, <1>4, <1>5 DEF Next

LEMMA InitializeBooks ==
  ASSUME NEW a \in Admins, NEW t \in Tokens, Initialize(a, t)
  PROVE  Books'
<1>1. total' = 0 /\ source_balance'["ProtocolFee"] = 0 /\ source_balance'["SlashedFunds"] = 0
  BY DEF Initialize, Sources
<1>2. \A c \in Counters : cumulative'[c] = Zero
  BY DEF Initialize
<1>3. Zero.rollovers * Segment + Zero.remainder = 0
  BY DEF Zero, Segment
<1> QED
  BY <1>1, <1>2, <1>3 DEF Books, BooksBalance, LifetimesAgree, Lifetime, Counters, Sources

LEMMA ReceiveFeeBooks ==
  ASSUME TypeOK, Books, NEW a \in Admins \cup Depositors, NEW amt \in Amounts,
         NEW source \in Sources, NEW cut \in Cuts, ReceiveFee(a, amt, source, cut)
  PROVE  Books'
<1>1. amt \in 0..MaxAmount /\ amt > 0 /\ total \in 0..MaxAmount /\ total' = total + amt
  BY DEF ReceiveFee, TypeOK, InstanceTypeOK
<1>2. /\ source_balance \in [Sources -> Int]
      /\ cumulative \in [Counters -> [rollovers : Nat, remainder : 0..MaxAmount]]
  BY DEF TypeOK, InstanceTypeOK
<1>3. BooksBalance'
  BY <1>1, <1>2 DEF ReceiveFee, Credited, Books, BooksBalance, Sources
<1>4. \A c \in Counters :
         /\ Lifetime(cumulative[c]) \in Int
         /\ Lifetime(cumulative'[c]) =
              IF c \in {source, "All"} THEN Lifetime(cumulative[c]) + amt
              ELSE Lifetime(cumulative[c])
  <2> TAKE c \in Counters
  <2>1. Lifetime(cumulative[c]) \in Int
    BY <1>2 DEF Lifetime, Segment
  <2>2. Lifetime(Added(cumulative[c], amt)) = Lifetime(cumulative[c]) + amt
    BY <1>1, <1>2, AddedCounts
  <2>3. cumulative'[c] = IF c \in {source, "All"} THEN Added(cumulative[c], amt) ELSE cumulative[c]
    BY DEF ReceiveFee
  <2> QED
    BY <2>1, <2>2, <2>3
<1>5. LifetimesAgree'
  BY <1>1, <1>4 DEF Books, LifetimesAgree, Counters, Sources
<1> QED
  BY <1>3, <1>5 DEF Books

(* The share, as a number the rest of the proof can use.                    *)
LEMMA ShareOfExecution ==
  ASSUME TypeOK, BooksBalance, NEW id \in Ids, NEW m \in Amounts \cup {0}, NEW cut \in Cuts,
         ExecuteWithdrawal(id, m, cut)
  PROVE  \E amt \in 0..total, share \in Nat :
           /\ share = Deduction(source_balance["ProtocolFee"], amt, total)
           /\ total' = total - amt
           /\ source_balance'["ProtocolFee"] = source_balance["ProtocolFee"] - share
           /\ source_balance'["SlashedFunds"] = source_balance["SlashedFunds"] - (amt - share)
           /\ share <= source_balance["ProtocolFee"]
           /\ amt - share <= source_balance["SlashedFunds"]
           /\ cumulative' = cumulative
<1> DEFINE amt == Settled(proposal[id], cut)
           part == source_balance["ProtocolFee"]
           share == Deduction(part, amt, total)
<1>1. amt \in 0..total /\ amt \in Nat /\ amt <= total
  BY SettledBounds DEF ExecuteWithdrawal, TypeOK, InstanceTypeOK
<1>2. /\ part \in Nat /\ total \in Nat /\ part <= total
      /\ source_balance["SlashedFunds"] = total - part
  BY DEF TypeOK, InstanceTypeOK, BooksBalance, Sources
<1>3. share \in Nat /\ share <= part /\ amt - share <= total - part
  BY <1>1, <1>2, DeductionBounds
<1>4. total' = total - amt /\ cumulative' = cumulative
  BY DEF ExecuteWithdrawal, Debited
<1>5. /\ source_balance'["ProtocolFee"] = part - share
      /\ source_balance'["SlashedFunds"] = source_balance["SlashedFunds"] - (amt - share)
  BY DEF ExecuteWithdrawal, Deducted, Sources
<1> QED
  BY <1>1, <1>2, <1>3, <1>4, <1>5

LEMMA ExecuteBooks ==
  ASSUME TypeOK, Books, NEW id \in Ids, NEW m \in Amounts \cup {0}, NEW cut \in Cuts,
         ExecuteWithdrawal(id, m, cut)
  PROVE  Books'
<1>1. PICK amt \in 0..total, share \in Nat :
           /\ total' = total - amt
           /\ source_balance'["ProtocolFee"] = source_balance["ProtocolFee"] - share
           /\ source_balance'["SlashedFunds"] = source_balance["SlashedFunds"] - (amt - share)
           /\ share <= source_balance["ProtocolFee"]
           /\ amt - share <= source_balance["SlashedFunds"]
           /\ cumulative' = cumulative
  BY ShareOfExecution DEF Books
<1>2. total \in Nat /\ source_balance \in [Sources -> Int]
  BY DEF TypeOK, InstanceTypeOK
<1>3. BooksBalance'
  BY <1>1, <1>2 DEF Books, BooksBalance, Sources
<1>4. Lifetime(cumulative["All"]) \in Int
  BY DEF TypeOK, InstanceTypeOK, Lifetime, Segment, Counters
<1>5. LifetimesAgree'
  BY <1>1, <1>2, <1>4 DEF Books, LifetimesAgree
<1> QED
  BY <1>3, <1>5 DEF Books

LEMMA NextBooks ==
  ASSUME TypeOK, Books, [Next]_vars
  PROVE  Books'
BY StepKinds, UntouchedBooks, InitializeBooks, ReceiveFeeBooks, ExecuteBooks

LEMMA InitBooks == Init => Books
<1> SUFFICES ASSUME Init PROVE Books
  OBVIOUS
<1>1. total = 0 /\ source_balance["ProtocolFee"] = 0 /\ source_balance["SlashedFunds"] = 0
  BY DEF Init, Sources
<1>2. \A c \in Counters : cumulative[c] = Zero
  BY DEF Init
<1>3. Zero.rollovers * Segment + Zero.remainder = 0
  BY DEF Zero, Segment
<1> QED
  BY <1>1, <1>2, <1>3 DEF Books, BooksBalance, LifetimesAgree, Lifetime, Counters, Sources

LEMMA BooksInvariant == Spec => [](TypeOK /\ Books)
<1>1. Init => TypeOK /\ Books
  BY InitType, InitBooks
<1>2. TypeOK /\ Books /\ [Next]_vars => (TypeOK /\ Books)'
  BY NextType, NextBooks
<1> QED
  BY <1>1, <1>2, PTL DEF Spec

(* The accounting identity of docs/treasury.md holds for every amount, every*)
(* split of the sources and every settlement: rounding never drifts and     *)
(* never drives a source negative.                                          *)
THEOREM IdentityKept == Spec => []BooksBalance
<1>1. TypeOK /\ Books => BooksBalance
  BY DEF Books
<1> QED
  BY <1>1, BooksInvariant, PTL

(* The lifetime counters agree through any number of rollovers.             *)
THEOREM LifetimesKept == Spec => []LifetimesAgree
<1>1. TypeOK /\ Books => LifetimesAgree
  BY DEF Books
<1> QED
  BY <1>1, BooksInvariant, PTL

-----------------------------------------------------------------------------
(* Proportional charges.                                                    *)

Proportional(s) ==
    LET error == (source_balance[s] - source_balance'[s]) * total
                   - source_balance[s] * (total - total')
    IN  -total < error /\ error < total

LEMMA ExecuteProportional ==
  ASSUME TypeOK, BooksBalance, NEW id \in Ids, NEW m \in Amounts \cup {0}, NEW cut \in Cuts,
         ExecuteWithdrawal(id, m, cut), total' < total
  PROVE  \A s \in Sources : Proportional(s)
<1> DEFINE P == source_balance["ProtocolFee"]
           S == source_balance["SlashedFunds"]
<1>1. PICK amt \in 0..total, share \in Nat :
           /\ share = Deduction(P, amt, total)
           /\ total' = total - amt
           /\ source_balance'["ProtocolFee"] = P - share
           /\ source_balance'["SlashedFunds"] = S - (amt - share)
  BY ShareOfExecution
<1>2. P \in Nat /\ S \in Nat /\ total \in Nat /\ P + S = total /\ P <= total
  BY DEF TypeOK, InstanceTypeOK, BooksBalance, Sources
<1>3. amt \in Nat /\ amt <= total /\ total > 0
  BY <1>1, <1>2
<1>4. share * total <= P * amt /\ P * amt < (share + 1) * total
  BY <1>1, <1>2, <1>3, DeductionIsFloor
<1> HIDE DEF P, S
<1>5. (share + 1) * total = share * total + total
  BY <1>2, <1>3
<1>6. /\ share * total - P * amt <= 0
      /\ -total < share * total - P * amt
  BY <1>2, <1>3, <1>4, <1>5
<1>7. (amt - share) * total - S * amt = P * amt - share * total
  <2>1. S = total - P
    BY <1>2
  <2>2. (amt - share) * total = amt * total - share * total
    BY <1>2, <1>3
  <2>3. (total - P) * amt = total * amt - P * amt
    BY <1>2, <1>3
  <2> QED
    BY <1>2, <1>3, <2>1, <2>2, <2>3
<1>8. Proportional("ProtocolFee")
  <2>1. P - source_balance'["ProtocolFee"] = share /\ total - total' = amt
    BY <1>1, <1>2, <1>3
  <2>2. source_balance["ProtocolFee"] = P
    BY DEF P
  <2> QED
    BY <1>2, <1>3, <1>6, <2>1, <2>2 DEF Proportional
<1>9. Proportional("SlashedFunds")
  <2>1. S - source_balance'["SlashedFunds"] = amt - share /\ total - total' = amt
    BY <1>1, <1>2, <1>3
  <2>2. source_balance["SlashedFunds"] = S
    BY DEF S
  <2>3. /\ (amt - share) * total - S * amt < total
        /\ -total < (amt - share) * total - S * amt
    BY <1>2, <1>3, <1>6, <1>7
  <2> QED
    BY <2>1, <2>2, <2>3 DEF Proportional
<1> QED
  BY <1>8, <1>9 DEF Sources

(* Each source is charged the floor or the ceiling of its exact share.      *)
THEOREM ChargesKeptProportional == Spec => ChargesAreProportional
<1>1. ASSUME TypeOK, Books, [Next]_vars
      PROVE  [total' < total /\ inits' = inits => \A s \in Sources : Proportional(s)]_vars
  <2> SUFFICES ASSUME total' < total, inits' = inits
               PROVE  \A s \in Sources : Proportional(s)
    OBVIOUS
  <2>1. ~BooksUntouched
    BY <1>1 DEF BooksUntouched, TypeOK, InstanceTypeOK
  <2>2. \A a \in Admins, t \in Tokens : ~Initialize(a, t)
    BY <1>1 DEF Initialize, TypeOK, InstanceTypeOK
  <2>3. \A a \in Admins \cup Depositors, amt \in Amounts, source \in Sources, cut \in Cuts :
           ~ReceiveFee(a, amt, source, cut)
    BY <1>1 DEF ReceiveFee, TypeOK, InstanceTypeOK
  <2>4. BooksBalance
    BY <1>1 DEF Books
  <2> QED
    BY <1>1, <2>1, <2>2, <2>3, <2>4, StepKinds, ExecuteProportional
<1> QED
  BY <1>1, BooksInvariant, PTL DEF Spec, ChargesAreProportional, Proportional

-----------------------------------------------------------------------------
(* Approvals.                                                               *)

BallotsHonest == \A id \in Ids : approval_count[id] <= Cardinality(approvals[id])

LEMMA ApprovalsFinite ==
  ASSUME TypeOK, NEW id \in Ids
  PROVE  IsFiniteSet(approvals[id]) /\ Cardinality(approvals[id]) \in Nat
BY FS_Subset, FS_CardinalityType DEF TypeOK

LEMMA NextBallots ==
  ASSUME TypeOK, BallotsHonest, [Next]_vars
  PROVE  BallotsHonest'
<1>1. ASSUME NEW s \in Signers, NEW r \in Recipients, NEW amt \in Amounts,
             ProposeWithdrawal(s, r, amt)
      PROVE  BallotsHonest'
  <2>1. approvals' = approvals /\ approval_count' = [approval_count EXCEPT ![counter] = 0]
    BY <1>1 DEF ProposeWithdrawal
  <2> QED
    BY <2>1, ApprovalsFinite DEF BallotsHonest, TypeOK
<1>2. ASSUME NEW s \in Signers, NEW id \in Ids, ApproveWithdrawal(s, id)
      PROVE  BallotsHonest'
  <2>1. /\ s \notin approvals[id]
        /\ approvals' = [approvals EXCEPT ![id] = @ \cup {s}]
        /\ approval_count' = [approval_count EXCEPT ![id] = @ + 1]
    BY <1>2 DEF ApproveWithdrawal, CanApprove
  <2>2. Cardinality(approvals[id] \cup {s}) = Cardinality(approvals[id]) + 1
    BY <2>1, ApprovalsFinite, FS_AddElement
  <2>3. approval_count[id] + 1 <= Cardinality(approvals[id]) + 1
    BY ApprovalsFinite DEF BallotsHonest, TypeOK
  <2> QED
    BY <2>1, <2>2, <2>3 DEF BallotsHonest, TypeOK
<1>3. ASSUME UNCHANGED <<approvals, approval_count>>
      PROVE  BallotsHonest'
  BY <1>3 DEF BallotsHonest
<1>4. ASSUME NEW a \in Admins, AdminNext(a)
      PROVE  UNCHANGED <<approvals, approval_count>>
  BY <1>4 DEF AdminNext, Initialize, SetToken, AddDepositor, RemoveDepositor, AddSigner,
              RemoveSigner, SetThreshold, SetMinLiquidity, SetProposalTtl, RescueNative, ballots
<1>5. ASSUME PauseNext, UNCHANGED treasuryVars
      PROVE  UNCHANGED <<approvals, approval_count>>
  BY <1>5 DEF treasuryVars, ballots
<1>6. ASSUME NEW a \in Admins \cup Depositors, NEW amt \in Amounts, NEW source \in Sources,
             NEW cut \in Cuts, ReceiveFee(a, amt, source, cut)
      PROVE  UNCHANGED <<approvals, approval_count>>
  BY <1>6 DEF ReceiveFee, ballots
<1>7. ASSUME NEW id \in Ids, NEW m \in Amounts \cup {0}, NEW cut \in Cuts,
             ExecuteWithdrawal(id, m, cut)
      PROVE  UNCHANGED <<approvals, approval_count>>
  BY <1>7 DEF ExecuteWithdrawal
<1>8. ASSUME (\E t \in Tokens, amt \in Amounts : Donate(t, amt)) \/ Tick \/ UNCHANGED vars
      PROVE  UNCHANGED <<approvals, approval_count>>
  BY <1>8 DEF Donate, Tick, vars, treasuryVars, ballots
<1> QED
  BY <1>1, <1>2, <1>3, <1>4, <1>5, <1>6, <1>7, <1>8 DEF Next, SignerNext

LEMMA BallotsInvariant == Spec => [](TypeOK /\ BallotsHonest)
<1>1. Init => TypeOK /\ BallotsHonest
  <2>1. Cardinality({}) = 0
    BY FS_EmptySet
  <2> QED
    BY <2>1, InitType DEF Init, BallotsHonest
<1>2. TypeOK /\ BallotsHonest /\ [Next]_vars => (TypeOK /\ BallotsHonest)'
  BY NextType, NextBallots
<1> QED
  BY <1>1, <1>2, PTL DEF Spec

(* Every executed withdrawal had as many different approvers as the         *)
(* threshold in force, for any number of signers, proposals, removals and   *)
(* re-initializations.                                                      *)
THEOREM QuorumKept == Spec => QuorumMet
<1> DEFINE Met == \A id \in Ids : paid' # paid /\ ~Executed(id) /\ Executed(id)'
                     => Cardinality(approvals[id]) >= threshold
<1>1. ASSUME TypeOK, BallotsHonest, [Next]_vars
      PROVE  [Met]_vars
  <2> SUFFICES ASSUME NEW id \in Ids, paid' # paid, ~Executed(id), Executed(id)'
               PROVE  Cardinality(approvals[id]) >= threshold
    OBVIOUS
  <2>1. ~BooksUntouched
    BY DEF BooksUntouched
  <2>2. \A a \in Admins, t \in Tokens : ~Initialize(a, t)
    BY DEF Initialize
  <2>3. \A a \in Admins \cup Depositors, amt \in Amounts, source \in Sources, cut \in Cuts :
           ~ReceiveFee(a, amt, source, cut)
    BY DEF ReceiveFee
  <2>4. PICK i \in Ids, m \in Amounts \cup {0}, cut \in Cuts : ExecuteWithdrawal(i, m, cut)
    BY <1>1, <2>1, <2>2, <2>3, StepKinds
  <2>5. proposal' = [proposal EXCEPT ![i].executed = TRUE] /\ CanExecute(i)
    BY <2>4 DEF ExecuteWithdrawal
  <2>6. i = id
    BY <2>5 DEF Executed
  <2>7. approval_count[id] >= threshold
    BY <2>5, <2>6 DEF CanExecute
  <2> QED
    BY <1>1, <2>7, ApprovalsFinite DEF BallotsHonest, TypeOK
<1> QED
  BY <1>1, BallotsInvariant, PTL DEF Spec, QuorumMet

-----------------------------------------------------------------------------
(* Custody.                                                                 *)

CustodyUntouched == UNCHANGED <<total, held, withheld>>

(* The entry points that move tokens or rewrite the total.                  *)
LEMMA CustodySteps ==
  ASSUME [Next]_vars
  PROVE  \/ CustodyUntouched
         \/ \E a \in Admins, t \in Tokens : Initialize(a, t)
         \/ \E a \in Admins, r \in Recipients, amt \in Amounts : RescueNative(a, r, amt)
         \/ \E t \in Tokens, amt \in Amounts : Donate(t, amt)
         \/ \E a \in Admins \cup Depositors, amt \in Amounts, source \in Sources, cut \in Cuts :
               ReceiveFee(a, amt, source, cut)
         \/ \E id \in Ids, m \in Amounts \cup {0}, cut \in Cuts : ExecuteWithdrawal(id, m, cut)
<1> USE DEF CustodyUntouched, funds, custody
<1>1. ASSUME NEW a \in Admins, AdminNext(a)
      PROVE  \/ CustodyUntouched \/ \E t \in Tokens : Initialize(a, t)
             \/ \E r \in Recipients, amt \in Amounts : RescueNative(a, r, amt)
  BY <1>1 DEF AdminNext, SetToken, AddDepositor, RemoveDepositor, AddSigner, RemoveSigner,
              SetThreshold, SetMinLiquidity, SetProposalTtl
<1>2. ASSUME NEW s \in Signers, SignerNext(s)
      PROVE  CustodyUntouched
  BY <1>2 DEF SignerNext, ProposeWithdrawal, ApproveWithdrawal
<1>3. ASSUME PauseNext, UNCHANGED treasuryVars
      PROVE  CustodyUntouched
  BY <1>3 DEF treasuryVars
<1>4. ASSUME Tick \/ UNCHANGED vars
      PROVE  CustodyUntouched
  BY <1>4 DEF Tick, vars, treasuryVars
<1> QED
  BY <1>1, <1>2, <1>3, <1>4 DEF Next

(* What the treasury holds of all tokens, when one of them is moved.        *)
LEMMA HeldMoves ==
  ASSUME TypeOK, NEW t \in Tokens, NEW x \in Int, held[t] + x \in Nat,
         held' = [held EXCEPT ![t] = @ + x]
  PROVE  /\ SumFunction(held) \in Nat
         /\ SumFunction(held') = SumFunction(held) + x
         /\ held'[t] <= SumFunction(held')
<1>1. PICK w, v : w = held /\ v = held'
  OBVIOUS
<1>2. w \in [Tokens -> Nat] /\ v = [w EXCEPT ![t] = @ + x] /\ w[t] + x \in Nat
  BY <1>1 DEF TypeOK, InstanceTypeOK
<1>3. /\ v \in [Tokens -> Nat] /\ v \in [Tokens -> Int] /\ w \in [Tokens -> Int]
      /\ v[t] = w[t] + x
      /\ \A u \in Tokens \ {t} : v[u] = w[u]
  BY <1>2
<1>4. IsFiniteSet(Tokens)
  OBVIOUS
<1>5. SumFunction(v) = SumFunction(w) + v[t] - w[t]
  BY ONLY <1>3, <1>4, SumUpdate, t \in Tokens
<1>6. SumFunction(w) \in Nat
  BY ONLY <1>2, <1>4, SumNat
<1>7. v[t] <= SumFunction(v)
  BY ONLY <1>3, <1>4, SumCovers, t \in Tokens
<1>8. w[t] \in Nat
  BY <1>2
<1> QED
  BY <1>1, <1>3, <1>5, <1>6, <1>7, <1>8

LEMMA ReserveType == TypeOK => Reserve \in Nat
<1> SUFFICES ASSUME TypeOK PROVE Reserve \in Nat
  OBVIOUS
<1>1. PICK v : v = held
  OBVIOUS
<1>2. v \in [Tokens -> Nat] /\ IsFiniteSet(Tokens)
  BY <1>1 DEF TypeOK, InstanceTypeOK
<1>3. SumFunction(v) \in Nat
  BY ONLY <1>2, SumNat
<1> QED
  BY <1>1, <1>3 DEF Reserve, TypeOK, InstanceTypeOK

(* Every entry point is a step of the vault or none.                        *)
LEMMA NextVault ==
  ASSUME TypeOK, TypeOK', [Next]_vars
  PROVE  [Vault!VaultNext]_(Vault!escrowVars)
<1> USE DEF Reserve
<1>0. /\ total \in Nat /\ total' \in Nat /\ withheld \in Nat /\ withheld' \in Nat
      /\ held \in [Tokens -> Nat]
  BY DEF TypeOK, InstanceTypeOK
<1>1. CASE CustodyUntouched
  BY <1>1 DEF CustodyUntouched, Vault!escrowVars
<1>2. ASSUME NEW a \in Admins, NEW t \in Tokens, Initialize(a, t)
      PROVE  Vault!Release
  <2>1. total' = 0 /\ Reserve' = Reserve
    BY <1>2 DEF Initialize, custody
  <2>2. Reserve \in Nat
    BY ReserveType
  <2> QED
    BY <1>0, <2>1, <2>2 DEF Vault!Release
<1>3. ASSUME NEW a \in Admins, NEW r \in Recipients, NEW amt \in Amounts, RescueNative(a, r, amt)
      PROVE  Vault!Skim \/ UNCHANGED Vault!escrowVars
  <2>1. /\ token \in Tokens /\ amt \in Nat /\ held[token] \in Nat
        /\ total <= held[token] - amt
        /\ total' = total /\ withheld' = withheld
    BY <1>0, <1>3 DEF RescueNative, Excess, TypeOK, InstanceTypeOK, funds
  <2>2. CASE r = Self
    BY <1>3, <2>1, <2>2 DEF RescueNative, Vault!escrowVars
  <2>3. CASE r # Self
    <3>1. held[token] + (-amt) \in Nat /\ -amt \in Int /\ held[token] - amt = held[token] + (-amt)
      BY <1>0, <2>1
    <3>2. held' = [held EXCEPT ![token] = @ + (-amt)]
      BY <1>3, <2>3, <3>1 DEF RescueNative
    <3>3. /\ held'[token] <= SumFunction(held') /\ SumFunction(held') = SumFunction(held) + (-amt)
          /\ SumFunction(held) \in Nat
      BY <2>1, <3>1, <3>2, HeldMoves
    <3>4. held'[token] = held[token] - amt
      BY <1>0, <2>1, <3>2
    <3> QED
      BY <1>0, <2>1, <3>3, <3>4 DEF Vault!Skim
  <2> QED
    BY <2>2, <2>3
<1>4. ASSUME NEW t \in Tokens, NEW amt \in Amounts, Donate(t, amt)
      PROVE  Vault!Fund
  <2>1. /\ amt \in Nat /\ held' = [held EXCEPT ![t] = @ + amt] /\ held[t] + amt \in Nat
        /\ total' = total /\ withheld' = withheld
    BY <1>0, <1>4 DEF Donate, funds
  <2>2. SumFunction(held') = SumFunction(held) + amt /\ SumFunction(held) \in Nat
    BY <2>1, HeldMoves
  <2> QED
    BY <1>0, <2>1, <2>2 DEF Vault!Fund
<1>5. ASSUME NEW a \in Admins \cup Depositors, NEW amt \in Amounts, NEW source \in Sources,
             NEW cut \in Cuts, ReceiveFee(a, amt, source, cut)
      PROVE  Vault!Fund
  <2>1. /\ token \in Tokens /\ amt \in Nat /\ cut \in Nat /\ cut <= amt
        /\ held' = [held EXCEPT ![token] = @ + (amt - cut)]
        /\ total' = total + amt /\ withheld' = withheld + cut
    BY <1>5 DEF ReceiveFee, TypeOK, InstanceTypeOK
  <2>2. amt - cut \in Int /\ held[token] + (amt - cut) \in Nat
    BY <1>0, <2>1
  <2>3. SumFunction(held') = SumFunction(held) + (amt - cut) /\ SumFunction(held) \in Nat
    BY <2>1, <2>2, HeldMoves
  <2> QED
    BY <1>0, <2>1, <2>3 DEF Vault!Fund
<1>6. ASSUME NEW id \in Ids, NEW m \in Amounts \cup {0}, NEW cut \in Cuts,
             ExecuteWithdrawal(id, m, cut)
      PROVE  Vault!Release \/ UNCHANGED Vault!escrowVars
  <2>1. PICK p : p = proposal[id]
    OBVIOUS
  <2>2. /\ p \in Proposal /\ p.amount \in Nat /\ cut \in Nat /\ cut <= p.amount
        /\ token \in Tokens /\ p.amount <= held[token]
        /\ total' = total - Settled(p, cut)
    <3>1. CanExecute(id) /\ cut <= p.amount /\ total' = total - Settled(p, cut)
      BY <1>6, <2>1 DEF ExecuteWithdrawal, Debited
    <3>2. p \in Proposal
      BY <2>1, <3>1, SettledBounds
    <3> QED
      BY <2>1, <3>1, <3>2 DEF Proposal, CanExecute, TypeOK, InstanceTypeOK
  <2>3. CASE p.recipient = Self
    <3>1. held' = held /\ withheld' = withheld /\ Settled(p, cut) = 0
      BY <1>6, <2>1, <2>3 DEF ExecuteWithdrawal, Settled, custody
    <3> QED
      BY <1>0, <2>2, <3>1 DEF Vault!escrowVars
  <2>4. CASE p.recipient # Self
    <3>1. /\ held' = [held EXCEPT ![token] = @ + (-p.amount)] /\ withheld' = withheld + cut
          /\ held[token] + (-p.amount) \in Nat /\ -p.amount \in Int
          /\ Settled(p, cut) = p.amount - cut
      BY <1>0, <1>6, <2>1, <2>2, <2>4 DEF ExecuteWithdrawal, Settled
    <3>2. SumFunction(held') = SumFunction(held) + (-p.amount) /\ SumFunction(held) \in Nat
      BY <2>2, <3>1, HeldMoves
    <3> QED
      BY <1>0, <2>2, <3>1, <3>2 DEF Vault!Release
  <2> QED
    BY <2>3, <2>4
<1> QED
  BY <1>1, <1>2, <1>3, <1>4, <1>5, <1>6, CustodySteps DEF Vault!VaultNext, Vault!Next

LEMMA InitVault == Init => Vault!Init /\ Reserve = 0
<1> SUFFICES ASSUME Init PROVE Vault!Init /\ Reserve = 0
  OBVIOUS
<1>1. PICK v : v = held
  OBVIOUS
<1>2. DOMAIN v = Tokens /\ IsFiniteSet(Tokens) /\ \A t \in Tokens : v[t] = 0
  BY <1>1 DEF Init
<1>3. SumFunction(v) = 0
  BY ONLY <1>2, SumZero DEF SumFunction
<1> QED
  BY <1>1, <1>3 DEF Init, Vault!Init, Reserve

(* credence_treasury keeps its tokens like a vault: for any number of       *)
(* tokens, any fees they keep, any rescue, change of token and call of      *)
(* initialize, what leaves is charged to the books or was promised to none. *)
THEOREM TreasuryIsAVault == Spec => ImplementsVault
<1>1. Init => TypeOK /\ Vault!Init
  BY InitType, InitVault
<1>2. TypeOK /\ [Next]_vars => TypeOK'
  BY NextType
<1>3. TypeOK /\ TypeOK' /\ [Next]_vars => [Vault!VaultNext]_(Vault!escrowVars)
  BY NextVault
<1> QED
  BY <1>1, <1>2, <1>3, PTL DEF Spec, ImplementsVault, Vault!VaultSpec

(* A vault always holds what it has promised.                               *)
LEMMA VaultCovers ==
  ASSUME total \in Nat, total' \in Nat, Reserve \in Nat, Reserve' \in Nat, total <= Reserve,
         [Vault!VaultNext]_(Vault!escrowVars)
  PROVE  total' <= Reserve'
<1>1. PICK r \in Nat, s \in Nat, c \in Nat, d \in Nat :
        r = Reserve /\ s = Reserve' /\ c = total /\ d = total'
  OBVIOUS
<1>2. CASE Vault!Fund
  <2>1. c <= r /\ d <= c + (s - r)
    BY <1>1, <1>2 DEF Vault!Fund
  <2>2. d <= s
    BY ONLY <2>1, c \in Nat, d \in Nat, r \in Nat, s \in Nat
  <2> QED
    BY <1>1, <2>2
<1>3. CASE Vault!Release
  <2>1. c <= r /\ r - s <= c - d
    BY <1>1, <1>3 DEF Vault!Release
  <2>2. d <= s
    BY ONLY <2>1, c \in Nat, d \in Nat, r \in Nat, s \in Nat
  <2> QED
    BY <1>1, <2>2
<1>4. CASE Vault!Skim
  BY <1>1, <1>4 DEF Vault!Skim
<1>5. CASE UNCHANGED Vault!escrowVars
  BY <1>1, <1>5 DEF Vault!escrowVars
<1> QED
  BY <1>2, <1>3, <1>4, <1>5 DEF Vault!VaultNext, Vault!Next

(* In particular the books never promise more than there is.                *)
THEOREM CoverKept == Spec => []Covered
<1> DEFINE Inv == TypeOK /\ Reserve \in Nat
<1>1. Init => TypeOK /\ Covered
  BY InitType, InitVault DEF Covered, Init
<1>2. TypeOK /\ [Next]_vars => TypeOK'
  BY NextType
<1>3. TypeOK => Inv
  BY ReserveType
<1>4. Inv /\ Inv' /\ Covered /\ [Next]_vars => Covered'
  <2> SUFFICES ASSUME Inv, Inv', Covered, [Next]_vars PROVE Covered'
    OBVIOUS
  <2>1. total \in Nat /\ total' \in Nat /\ total <= Reserve
    BY DEF TypeOK, InstanceTypeOK, Covered
  <2>2. total' <= Reserve'
    BY <2>1, NextVault, VaultCovers
  <2> QED
    BY <2>2 DEF Covered
<1> QED
  BY <1>1, <1>2, <1>3, <1>4, PTL DEF Spec

-----------------------------------------------------------------------------
(* No withdrawal breaks the floor: what is settled is at most what was      *)
(* proposed, which is what the guard compared with the floor.               *)
THEOREM FloorHolds == Spec => FloorKept
<1>1. ASSUME TypeOK, [Next]_vars
      PROVE  [total' < total /\ inits' = inits => total' >= min_liquidity]_vars
  <2> SUFFICES ASSUME total' < total, inits' = inits
               PROVE  total' >= min_liquidity
    OBVIOUS
  <2>1. ~CustodyUntouched
    BY <1>1 DEF CustodyUntouched, TypeOK, InstanceTypeOK
  <2>2. \A a \in Admins, t \in Tokens : ~Initialize(a, t)
    BY <1>1 DEF Initialize, TypeOK, InstanceTypeOK
  <2>3. \A a \in Admins \cup Depositors, amt \in Amounts, source \in Sources, cut \in Cuts :
           ~ReceiveFee(a, amt, source, cut)
    BY <1>1 DEF ReceiveFee, TypeOK, InstanceTypeOK
  <2>4. /\ \A a \in Admins, r \in Recipients, amt \in Amounts : ~RescueNative(a, r, amt)
        /\ \A t \in Tokens, amt \in Amounts : ~Donate(t, amt)
    BY <1>1 DEF RescueNative, Donate, funds, TypeOK, InstanceTypeOK
  <2>5. PICK id \in Ids, m \in Amounts \cup {0}, cut \in Cuts : ExecuteWithdrawal(id, m, cut)
    BY <1>1, <2>1, <2>2, <2>3, <2>4, CustodySteps
  <2>6. /\ CanExecute(id) /\ cut <= proposal[id].amount
        /\ total' = total - Settled(proposal[id], cut)
    BY <2>5 DEF ExecuteWithdrawal, Debited
  <2>7. /\ Settled(proposal[id], cut) <= proposal[id].amount
        /\ Settled(proposal[id], cut) \in Int /\ proposal[id].amount \in Int
    BY <1>1, <2>6, SettledBounds DEF Proposal
  <2> QED
    BY <1>1, <2>6, <2>7 DEF CanExecute, TypeOK, InstanceTypeOK
<1> QED
  BY <1>1, TypeCorrect, PTL DEF Spec, FloorKept

-----------------------------------------------------------------------------
(* The emergency pause.                                                     *)

(* Entry points of the treasury leave the keys of the pause alone.          *)
LEMMA PauseSteps ==
  ASSUME [Next]_vars
  PROVE  \/ PauseNext /\ UNCHANGED treasuryVars
         \/ \E a \in Admins, t \in Tokens : Initialize(a, t)
         \/ UNCHANGED pauseVars /\ inits' = inits
<1>1. ASSUME NEW a \in Admins, AdminNext(a)
      PROVE  (\E t \in Tokens : Initialize(a, t)) \/ (UNCHANGED pauseVars /\ inits' = inits)
  BY <1>1 DEF AdminNext, SetToken, AddDepositor, RemoveDepositor, AddSigner, RemoveSigner,
              SetThreshold, SetMinLiquidity, SetProposalTtl, RescueNative
<1>2. ASSUME NEW s \in Signers, SignerNext(s)
      PROVE  UNCHANGED pauseVars /\ inits' = inits
  BY <1>2 DEF SignerNext, ProposeWithdrawal, ApproveWithdrawal
<1>3. ASSUME NEW a \in Admins \cup Depositors, NEW amt \in Amounts, NEW source \in Sources,
             NEW cut \in Cuts, ReceiveFee(a, amt, source, cut)
      PROVE  UNCHANGED pauseVars /\ inits' = inits
  BY <1>3 DEF ReceiveFee
<1>4. ASSUME NEW id \in Ids, NEW m \in Amounts \cup {0}, NEW cut \in Cuts,
             ExecuteWithdrawal(id, m, cut)
      PROVE  UNCHANGED pauseVars /\ inits' = inits
  BY <1>4 DEF ExecuteWithdrawal
<1>5. ASSUME (\E t \in Tokens, amt \in Amounts : Donate(t, amt)) \/ Tick \/ UNCHANGED vars
      PROVE  UNCHANGED pauseVars /\ inits' = inits
  BY <1>5 DEF Donate, Tick, vars, treasuryVars
<1> QED
  BY <1>1, <1>2, <1>3, <1>4, <1>5 DEF Next

LEMMA PauseApprovalsFinite ==
  ASSUME PauseTypeOK, NEW id \in PauseIds
  PROVE  IsFiniteSet(pause_approvals[id]) /\ Cardinality(pause_approvals[id]) \in Nat
BY FS_Subset, FS_CardinalityType DEF PauseTypeOK

(* A ballot that counts at most its approvals still does after one more.    *)
LEMMA RecordStaysHonest ==
  ASSUME PauseTypeOK, PauseBallotsHonest, NEW id \in PauseIds, NEW s \in PauseSigners,
         NEW count \in Nat, count <= Cardinality(pause_approvals[id]),
         RecordPauseApproval(id, s, count)
  PROVE  PauseBallotsHonest'
<1>1. /\ pause_approvals' = [pause_approvals EXCEPT ![id] = @ \cup {s}]
      /\ pause_approval_count' = [pause_approval_count EXCEPT ![id] =
            IF s \in pause_approvals[id] THEN count ELSE count + 1]
      /\ pause_approvals \in [PauseIds -> SUBSET PauseSigners]
      /\ pause_approval_count \in [PauseIds -> Nat]
  BY DEF RecordPauseApproval, PauseTypeOK
<1>2. pause_approval_count'[id] <= Cardinality(pause_approvals'[id])
  <2>1. CASE s \in pause_approvals[id]
    <3>1. pause_approvals[id] \cup {s} = pause_approvals[id]
      BY <2>1
    <3> QED
      BY <1>1, <2>1, <3>1
  <2>2. CASE s \notin pause_approvals[id]
    <3>1. Cardinality(pause_approvals[id] \cup {s}) = Cardinality(pause_approvals[id]) + 1
      BY <2>2, PauseApprovalsFinite, FS_AddElement
    <3>2. Cardinality(pause_approvals[id]) \in Nat
      BY PauseApprovalsFinite
    <3> QED
      BY <1>1, <2>2, <3>1, <3>2
  <2> QED
    BY <2>1, <2>2
<1>3. \A i \in PauseIds \ {id} : /\ pause_approval_count'[i] = pause_approval_count[i]
                                 /\ pause_approvals'[i] = pause_approvals[i]
  BY <1>1
<1> QED
  BY <1>2, <1>3 DEF PauseBallotsHonest

LEMMA NextPauseBallots ==
  ASSUME TypeOK, PauseBallotsHonest, [Next]_vars
  PROVE  PauseBallotsHonest'
<1>0. PauseTypeOK
  BY DEF TypeOK, InstanceTypeOK
<1>1. ASSUME UNCHANGED <<pause_approvals, pause_approval_count>>
      PROVE  PauseBallotsHonest'
  BY <1>1 DEF PauseBallotsHonest
<1>2. ASSUME NEW s \in PauseSigners, NEW action \in PauseActions, ProposePause(s, action)
      PROVE  PauseBallotsHonest'
  <2>1. pause_counter \in PauseIds
    BY <1>0, <1>2 DEF ProposePause, PauseTypeOK, PauseIds
  <2>2. 0 <= Cardinality(pause_approvals[pause_counter])
    BY <1>0, <2>1, PauseApprovalsFinite
  <2>3. RecordPauseApproval(pause_counter, s, 0)
    BY <1>2 DEF ProposePause
  <2> QED
    BY <1>0, <2>1, <2>2, <2>3, RecordStaysHonest
<1>3. ASSUME NEW s \in PauseSigners, NEW id \in PauseIds, ApprovePauseProposal(s, id)
      PROVE  PauseBallotsHonest'
  <2>1. RecordPauseApproval(id, s, pause_approval_count[id])
    BY <1>3 DEF ApprovePauseProposal
  <2>2. /\ pause_approval_count[id] \in Nat
        /\ pause_approval_count[id] <= Cardinality(pause_approvals[id])
    BY <1>0 DEF PauseTypeOK, PauseBallotsHonest
  <2> QED
    BY <1>0, <2>1, <2>2, RecordStaysHonest
<1>4. ASSUME PauseNext
      PROVE  PauseBallotsHonest'
  <2>1. ASSUME \/ \E a \in Admins, s \in PauseSigners, enabled \in BOOLEAN :
                     SetPauseSigner(a, s, enabled)
               \/ \E a \in Admins, t \in 0..Cardinality(PauseSigners) : SetPauseThreshold(a, t)
               \/ \E a \in Admins, action \in PauseActions : PauseDirectly(a, action)
               \/ \E id \in PauseIds : ExecutePauseProposal(id)
        PROVE  UNCHANGED <<pause_approvals, pause_approval_count>>
    BY <2>1 DEF SetPauseSigner, SetPauseThreshold, PauseDirectly, ExecutePauseProposal, pauseBallots
  <2> QED
    BY <1>1, <1>2, <1>3, <1>4, <2>1 DEF PauseNext
<1>5. ASSUME \/ \E a \in Admins, t \in Tokens : Initialize(a, t)
             \/ UNCHANGED pauseVars
      PROVE  UNCHANGED <<pause_approvals, pause_approval_count>>
  BY <1>5 DEF Initialize, PauseReset, pauseVars, pauseBallots
<1> QED
  BY <1>1, <1>4, <1>5, PauseSteps

LEMMA PauseBallotsInvariant == Spec => [](TypeOK /\ PauseBallotsHonest)
<1>1. Init => TypeOK /\ PauseBallotsHonest
  <2>1. Cardinality({}) = 0
    BY FS_EmptySet
  <2> QED
    BY <2>1, InitType DEF Init, PauseInit, PauseBallotsHonest
<1>2. TypeOK /\ PauseBallotsHonest /\ [Next]_vars => (TypeOK /\ PauseBallotsHonest)'
  BY NextType, NextPauseBallots
<1> QED
  BY <1>1, <1>2, PTL DEF Spec

(* A repeated approval is never counted twice, for any number of signers    *)
(* and ballots, also when initialize hands out the ids of old ballots.      *)
THEOREM PauseBallotsKeptHonest == Spec => []PauseBallotsHonest
<1> QED
  BY PauseBallotsInvariant, PTL

(* The pause is changed by the admin alone only at threshold 0, otherwise   *)
(* with as many different approvers as the threshold, on a ballot that      *)
(* cannot be used again.                                                    *)
THEOREM PauseKeptAuthorised == Spec => PauseAuthorised
<1> DEFINE Authorised ==
        paused' # paused /\ inits' = inits
         => \/ pause_threshold = 0
            \/ \E id \in PauseIds :
                 /\ pause_proposal[id] # NoAction /\ pause_proposal'[id] = NoAction
                 /\ Cardinality(pause_approvals[id]) >= pause_threshold
<1>1. ASSUME TypeOK, PauseBallotsHonest, [Next]_vars
      PROVE  [Authorised]_vars
  <2> SUFFICES ASSUME paused' # paused, inits' = inits
               PROVE  \/ pause_threshold = 0
                      \/ \E id \in PauseIds :
                           /\ pause_proposal[id] # NoAction /\ pause_proposal'[id] = NoAction
                           /\ Cardinality(pause_approvals[id]) >= pause_threshold
    OBVIOUS
  <2>0. PauseTypeOK /\ inits \in Nat
    BY <1>1 DEF TypeOK, InstanceTypeOK
  <2>1. PauseNext
    <3>1. ~(UNCHANGED pauseVars)
      BY DEF pauseVars
    <3>2. \A a \in Admins, t \in Tokens : ~Initialize(a, t)
      BY <2>0 DEF Initialize
    <3> QED
      BY <1>1, <3>1, <3>2, PauseSteps
  <2>2. \/ \E a \in Admins, action \in PauseActions : PauseDirectly(a, action)
        \/ \E id \in PauseIds : ExecutePauseProposal(id)
    BY <2>1 DEF PauseNext, SetPauseSigner, SetPauseThreshold, ProposePause, ApprovePauseProposal
  <2>3. ASSUME NEW id \in PauseIds, ExecutePauseProposal(id)
        PROVE  /\ pause_proposal[id] # NoAction /\ pause_proposal'[id] = NoAction
               /\ Cardinality(pause_approvals[id]) >= pause_threshold
    <3>1. /\ pause_proposal[id] # NoAction
          /\ pause_approval_count[id] >= pause_threshold
          /\ pause_proposal'[id] = NoAction
      BY <2>0, <2>3 DEF ExecutePauseProposal, CanExecutePause, PauseTypeOK
    <3>2. /\ pause_approval_count[id] <= Cardinality(pause_approvals[id])
          /\ pause_approval_count[id] \in Nat /\ pause_threshold \in Nat
          /\ Cardinality(pause_approvals[id]) \in Nat
      BY <1>1, <2>0, PauseApprovalsFinite DEF PauseBallotsHonest, PauseTypeOK
    <3> QED
      BY <3>1, <3>2
  <2> QED
    BY <2>2, <2>3 DEF PauseDirectly
<1> QED
  BY <1>1, PauseBallotsInvariant, PTL DEF Spec, PauseAuthorised

(* Nothing but the pause's own entry points and unsolicited transfers of    *)
(* tokens gets through while the contract stays paused.                     *)
THEOREM PauseFreezes == Spec => PausedFreezes
<1> DEFINE Frozen == /\ UNCHANGED <<token, funds, roles, limits, ballots, paid>>
                     /\ SumFunction(held') >= SumFunction(held)
<1>1. ASSUME TypeOK, [Next]_vars
      PROVE  [paused /\ paused' => Frozen]_vars
  <2> SUFFICES ASSUME paused, paused' PROVE Frozen
    OBVIOUS
  <2>0. held \in [Tokens -> Nat]
    BY <1>1 DEF TypeOK, InstanceTypeOK
  <2>1. ASSUME UNCHANGED <<token, funds, roles, limits, ballots, paid, held>>
        PROVE  Frozen
    <3>1. PICK w : w = held
      OBVIOUS
    <3>2. w \in [Tokens -> Nat] /\ IsFiniteSet(Tokens)
      BY <2>0, <3>1
    <3>3. SumFunction(w) \in Nat
      BY ONLY <3>2, SumNat
    <3> QED
      BY <2>1, <3>1, <3>3
  <2>2. ASSUME NEW a \in Admins, AdminNext(a)
        PROVE  FALSE
    BY <2>2 DEF AdminNext, Governs, Initialize, PauseReset, SetToken, AddDepositor,
                RemoveDepositor, AddSigner, RemoveSigner, SetThreshold, SetMinLiquidity,
                SetProposalTtl, RescueNative
  <2>3. ASSUME NEW s \in Signers, SignerNext(s)
        PROVE  FALSE
    BY <2>3 DEF SignerNext, ProposeWithdrawal, ApproveWithdrawal, CanApprove
  <2>4. ASSUME NEW a \in Admins \cup Depositors, NEW amt \in Amounts, NEW source \in Sources,
               NEW cut \in Cuts, ReceiveFee(a, amt, source, cut)
        PROVE  FALSE
    BY <2>4 DEF ReceiveFee
  <2>5. ASSUME NEW id \in Ids, NEW m \in Amounts \cup {0}, NEW cut \in Cuts,
               ExecuteWithdrawal(id, m, cut)
        PROVE  FALSE
    BY <2>5 DEF ExecuteWithdrawal, CanExecute
  <2>6. ASSUME NEW t \in Tokens, NEW amt \in Amounts, Donate(t, amt)
        PROVE  Frozen
    <3>1. /\ amt \in Nat /\ held' = [held EXCEPT ![t] = @ + amt] /\ held[t] + amt \in Nat
          /\ UNCHANGED <<token, funds, roles, limits, ballots, paid>>
      BY <2>0, <2>6 DEF Donate
    <3>2. SumFunction(held') = SumFunction(held) + amt /\ SumFunction(held) \in Nat
      BY <1>1, <3>1, HeldMoves
    <3> QED
      BY <3>1, <3>2
  <2>7. ASSUME (PauseNext /\ UNCHANGED treasuryVars) \/ Tick \/ UNCHANGED vars
        PROVE  Frozen
    <3> HIDE DEF Frozen
    <3>1. UNCHANGED <<token, funds, roles, limits, ballots, paid, held>>
      BY <2>7 DEF treasuryVars, vars, Tick, custody
    <3> QED
      BY <2>1, <3>1
  <2> HIDE DEF Frozen
  <2> QED
    BY <1>1, <2>2, <2>3, <2>4, <2>5, <2>6, <2>7 DEF Next
<1> QED
  BY <1>1, TypeCorrect, PTL DEF Spec, PausedFreezes

-----------------------------------------------------------------------------
(* Until initialize is called a second time.                                *)

(* Before the first initialize there is no admin, hence nobody who could    *)
(* name a signer, and no signer who could propose.                          *)
Unopened ==
    inits = 0 =>
        /\ admin = NoAdmin /\ signers = {} /\ pause_signers = {}
        /\ \A id \in Ids : proposal[id] = NoProposal

(* The next id is the id of no proposal.                                    *)
NextIdFree == fresh => \A id \in Ids : id >= counter => proposal[id] = NoProposal

LEMMA SignersFinite ==
  ASSUME TypeOK
  PROVE  /\ IsFiniteSet(signers) /\ Cardinality(signers) \in Nat
         /\ IsFiniteSet(pause_signers) /\ Cardinality(pause_signers) \in Nat
<1>1. signers \in SUBSET Signers /\ pause_signers \in SUBSET PauseSigners
  BY DEF TypeOK, InstanceTypeOK, PauseTypeOK
<1>2. IsFiniteSet(Signers) /\ IsFiniteSet(PauseSigners)
  OBVIOUS
<1>3. IsFiniteSet(signers) /\ IsFiniteSet(pause_signers)
  BY <1>1, <1>2, FS_Subset
<1> QED
  BY <1>3, FS_CardinalityType

(* The entry points that change who signs and how many have to.             *)
LEMMA RoleSteps ==
  ASSUME [Next]_vars
  PROVE  \/ UNCHANGED <<signers, signer_count, threshold, inits>>
         \/ \E a \in Admins, t \in Tokens : Initialize(a, t)
         \/ \E a \in Admins, s \in Signers : AddSigner(a, s) \/ RemoveSigner(a, s)
         \/ \E a \in Admins, t \in 0..Cardinality(Signers) : SetThreshold(a, t)
<1> DEFINE Same == UNCHANGED <<signers, signer_count, threshold, inits>>
<1>1. ASSUME NEW a \in Admins, AdminNext(a)
      PROVE  \/ Same \/ \E t \in Tokens : Initialize(a, t)
             \/ \E s \in Signers : AddSigner(a, s) \/ RemoveSigner(a, s)
             \/ \E t \in 0..Cardinality(Signers) : SetThreshold(a, t)
  BY <1>1 DEF AdminNext, SetToken, AddDepositor, RemoveDepositor,
              SetMinLiquidity, SetProposalTtl, RescueNative, roles
<1>2. ASSUME NEW s \in Signers, SignerNext(s)
      PROVE  Same
  BY <1>2 DEF SignerNext, ProposeWithdrawal, ApproveWithdrawal, roles
<1>3. ASSUME PauseNext, UNCHANGED treasuryVars
      PROVE  Same
  BY <1>3 DEF treasuryVars, roles
<1>4. ASSUME NEW a \in Admins \cup Depositors, NEW amt \in Amounts, NEW source \in Sources,
             NEW cut \in Cuts, ReceiveFee(a, amt, source, cut)
      PROVE  Same
  BY <1>4 DEF ReceiveFee, roles
<1>5. ASSUME NEW id \in Ids, NEW m \in Amounts \cup {0}, NEW cut \in Cuts,
             ExecuteWithdrawal(id, m, cut)
      PROVE  Same
  BY <1>5 DEF ExecuteWithdrawal, roles
<1>6. ASSUME (\E t \in Tokens, amt \in Amounts : Donate(t, amt)) \/ Tick \/ UNCHANGED vars
      PROVE  Same
  BY <1>6 DEF Donate, Tick, vars, treasuryVars, roles
<1> HIDE DEF Same
<1>7. \/ Same
      \/ \E a \in Admins, t \in Tokens : Initialize(a, t)
      \/ \E a \in Admins, s \in Signers : AddSigner(a, s) \/ RemoveSigner(a, s)
      \/ \E a \in Admins, t \in 0..Cardinality(Signers) : SetThreshold(a, t)
  BY <1>1, <1>2, <1>3, <1>4, <1>5, <1>6 DEF Next
<1> QED
  BY <1>7 DEF Same

(* The entry points that write proposals or pay out.                        *)
LEMMA ProposalSteps ==
  ASSUME [Next]_vars
  PROVE  \/ UNCHANGED <<counter, proposal, paid, inits>>
         \/ \E a \in Admins, t \in Tokens : Initialize(a, t)
         \/ \E s \in Signers, r \in Recipients, amt \in Amounts : ProposeWithdrawal(s, r, amt)
         \/ \E id \in Ids, m \in Amounts \cup {0}, cut \in Cuts : ExecuteWithdrawal(id, m, cut)
<1> DEFINE Same == UNCHANGED <<counter, proposal, paid, inits>>
<1>1. ASSUME NEW a \in Admins, AdminNext(a)
      PROVE  Same \/ \E t \in Tokens : Initialize(a, t)
  BY <1>1 DEF AdminNext, SetToken, AddDepositor, RemoveDepositor, AddSigner, RemoveSigner,
              SetThreshold, SetMinLiquidity, SetProposalTtl, RescueNative, ballots
<1>2. ASSUME NEW s \in Signers, SignerNext(s)
      PROVE  Same \/ \E r \in Recipients, amt \in Amounts : ProposeWithdrawal(s, r, amt)
  BY <1>2 DEF SignerNext, ApproveWithdrawal
<1>3. ASSUME PauseNext, UNCHANGED treasuryVars
      PROVE  Same
  BY <1>3 DEF treasuryVars, ballots
<1>4. ASSUME NEW a \in Admins \cup Depositors, NEW amt \in Amounts, NEW source \in Sources,
             NEW cut \in Cuts, ReceiveFee(a, amt, source, cut)
      PROVE  Same
  BY <1>4 DEF ReceiveFee, ballots
<1>5. ASSUME (\E t \in Tokens, amt \in Amounts : Donate(t, amt)) \/ Tick \/ UNCHANGED vars
      PROVE  Same
  BY <1>5 DEF Donate, Tick, vars, treasuryVars, ballots
<1> HIDE DEF Same
<1>6. \/ Same
      \/ \E a \in Admins, t \in Tokens : Initialize(a, t)
      \/ \E s \in Signers, r \in Recipients, amt \in Amounts : ProposeWithdrawal(s, r, amt)
      \/ \E id \in Ids, m \in Amounts \cup {0}, cut \in Cuts : ExecuteWithdrawal(id, m, cut)
  BY <1>1, <1>2, <1>3, <1>4, <1>5 DEF Next
<1> QED
  BY <1>6 DEF Same

LEMMA InitializeOpens ==
  ASSUME TypeOK, NEW a \in Admins, NEW t \in Tokens, Initialize(a, t)
  PROVE  /\ inits' = inits + 1 /\ inits' # 0 /\ (fresh' => inits = 0 /\ fresh)
         /\ signers' = signers /\ pause_signers' = pause_signers /\ proposal' = proposal
         /\ signer_count' = 0 /\ threshold' = 0
         /\ pause_signer_count' = 0 /\ pause_threshold' = 0
         /\ counter' = 0 /\ paid' = paid
BY DEF Initialize, PauseReset, fresh, TypeOK, InstanceTypeOK

LEMMA NextUnopened ==
  ASSUME TypeOK, Unopened, [Next]_vars
  PROVE  Unopened'
<1>1. CASE \E a \in Admins, t \in Tokens : Initialize(a, t)
  BY <1>1, InitializeOpens DEF Unopened
<1>2. CASE inits' # 0
  BY <1>2 DEF Unopened
<1>3. CASE /\ ~\E a \in Admins, t \in Tokens : Initialize(a, t)
           /\ inits' = 0
  <2>1. inits = 0
    BY <1>3, PauseSteps DEF treasuryVars
  <2>2. /\ admin = NoAdmin /\ signers = {} /\ pause_signers = {}
        /\ \A id \in Ids : proposal[id] = NoProposal
    BY <2>1 DEF Unopened
  <2>3. \A a \in Admins : ~Governs(a) /\ ~StoredAdmin(a)
    BY <2>2 DEF Governs, StoredAdmin
  <2>4. signers' = signers
    BY <1>3, <2>3, RoleSteps DEF AddSigner, RemoveSigner, SetThreshold
  <2>5. proposal' = proposal
    BY <1>3, <2>2, ProposalSteps DEF ProposeWithdrawal, ExecuteWithdrawal, CanExecute, Live
  <2>6. admin' = admin /\ pause_signers' = pause_signers
    <3>1. CASE PauseNext
      BY <2>2, <2>3, <3>1 DEF PauseNext, SetPauseSigner, SetPauseThreshold, PauseDirectly,
           ProposePause, ApprovePauseProposal, ExecutePauseProposal, pauseConfig
    <3>2. CASE UNCHANGED pauseVars
      BY <3>2 DEF pauseVars, pauseConfig
    <3> QED
      BY <1>3, <3>1, <3>2, PauseSteps
  <2> QED
    BY <2>2, <2>4, <2>5, <2>6 DEF Unopened
<1> QED
  BY <1>1, <1>2, <1>3

LEMMA NextSigners ==
  ASSUME TypeOK, Unopened, SignersInLockstep, [Next]_vars
  PROVE  SignersInLockstep'
<1>0. /\ IsFiniteSet(signers) /\ Cardinality(signers) \in Nat
      /\ signer_count \in Nat /\ threshold \in Nat
  BY SignersFinite DEF TypeOK
<1>1. ASSUME NEW a \in Admins, NEW t \in Tokens, Initialize(a, t)
      PROVE  SignersInLockstep'
  <2>1. fresh' => signers' = {} /\ signer_count' = 0 /\ threshold' = 0
    BY <1>1, InitializeOpens DEF Unopened
  <2> QED
    BY <2>1, FS_EmptySet DEF SignersInLockstep
<1>2. ASSUME UNCHANGED <<signers, signer_count, threshold, inits>>
      PROVE  SignersInLockstep'
  BY <1>2 DEF SignersInLockstep, fresh
<1>3. ASSUME NEW a \in Admins, NEW s \in Signers, AddSigner(a, s)
      PROVE  SignersInLockstep'
  <2>1. Cardinality(signers \cup {s}) = Cardinality(signers) + 1
    BY <1>0, <1>3, FS_AddElement DEF AddSigner
  <2>2. /\ signers' = signers \cup {s} /\ signer_count' = signer_count + 1
        /\ threshold' = threshold /\ inits' = inits
    BY <1>3 DEF AddSigner
  <2> QED
    BY <1>0, <2>1, <2>2 DEF SignersInLockstep, fresh
<1>4. ASSUME NEW a \in Admins, NEW s \in Signers, RemoveSigner(a, s)
      PROVE  SignersInLockstep'
  <2>1. Cardinality(signers \ {s}) = Cardinality(signers) - 1
    BY <1>0, <1>4, FS_RemoveElement DEF RemoveSigner
  <2>2. Cardinality(signers) # 0
    BY <1>0, <1>4, FS_EmptySet DEF RemoveSigner
  <2>3. /\ signers' = signers \ {s} /\ inits' = inits
        /\ signer_count' = IF signer_count = 0 THEN 0 ELSE signer_count - 1
        /\ threshold' = IF threshold <= signer_count' THEN threshold ELSE signer_count'
    BY <1>4 DEF RemoveSigner, CappedThreshold, Smaller
  <2> QED
    BY <1>0, <2>1, <2>2, <2>3 DEF SignersInLockstep, fresh
<1>5. ASSUME NEW a \in Admins, NEW t \in 0..Cardinality(Signers), SetThreshold(a, t)
      PROVE  SignersInLockstep'
  BY <1>5 DEF SetThreshold, SignersInLockstep, fresh
<1> QED
  BY <1>1, <1>2, <1>3, <1>4, <1>5, RoleSteps

LEMMA NextPauseSigners ==
  ASSUME TypeOK, Unopened, PauseLockstepWhileFresh, [Next]_vars
  PROVE  PauseLockstepWhileFresh'
<1>0. /\ IsFiniteSet(pause_signers) /\ Cardinality(pause_signers) \in Nat
      /\ pause_signer_count \in Nat /\ pause_threshold \in Nat
  BY SignersFinite DEF TypeOK, InstanceTypeOK, PauseTypeOK
<1>1. ASSUME NEW a \in Admins, NEW t \in Tokens, Initialize(a, t)
      PROVE  PauseLockstepWhileFresh'
  <2>1. fresh' => pause_signers' = {} /\ pause_signer_count' = 0 /\ pause_threshold' = 0
    BY <1>1, InitializeOpens DEF Unopened
  <2> QED
    BY <2>1, FS_EmptySet DEF PauseLockstepWhileFresh, PauseSignersInLockstep
<1>2. ASSUME UNCHANGED <<pauseConfig, inits>>
      PROVE  PauseLockstepWhileFresh'
  BY <1>2 DEF PauseLockstepWhileFresh, PauseSignersInLockstep, fresh, pauseConfig
<1>3. ASSUME NEW a \in Admins, NEW s \in PauseSigners, NEW enabled \in BOOLEAN,
             SetPauseSigner(a, s, enabled), inits' = inits
      PROVE  PauseLockstepWhileFresh'
  <2>1. CASE enabled
    <3>1. Cardinality(pause_signers \cup {s}) =
            IF s \in pause_signers THEN Cardinality(pause_signers) ELSE Cardinality(pause_signers) + 1
      BY <1>0, FS_AddElement
    <3>2. /\ pause_signers' = pause_signers \cup {s} /\ pause_threshold' = pause_threshold
          /\ pause_signer_count' =
               IF s \in pause_signers THEN pause_signer_count ELSE pause_signer_count + 1
      BY <1>3, <2>1 DEF SetPauseSigner, EnablePauseSigner
    <3> QED
      BY <1>0, <1>3, <3>1, <3>2 DEF PauseLockstepWhileFresh, PauseSignersInLockstep, fresh
  <2>2. CASE ~enabled /\ s \in pause_signers
    <3>1. /\ Cardinality(pause_signers \ {s}) = Cardinality(pause_signers) - 1
          /\ Cardinality(pause_signers) # 0
      BY <1>0, <2>2, FS_RemoveElement, FS_EmptySet
    <3>2. /\ pause_signers' = pause_signers \ {s}
          /\ pause_signer_count' = IF pause_signer_count = 0 THEN 0 ELSE pause_signer_count - 1
          /\ pause_threshold' =
               IF pause_threshold <= pause_signer_count' THEN pause_threshold ELSE pause_signer_count'
      BY <1>3, <2>2 DEF SetPauseSigner, DisablePauseSigner, Smaller
    <3> QED
      BY <1>0, <1>3, <3>1, <3>2 DEF PauseLockstepWhileFresh, PauseSignersInLockstep, fresh
  <2>3. CASE ~enabled /\ s \notin pause_signers
    BY <1>2, <1>3, <2>3 DEF SetPauseSigner, DisablePauseSigner
  <2> QED
    BY <2>1, <2>2, <2>3
<1>4. ASSUME NEW a \in Admins, NEW t \in 0..Cardinality(PauseSigners), SetPauseThreshold(a, t),
             inits' = inits
      PROVE  PauseLockstepWhileFresh'
  BY <1>4 DEF SetPauseThreshold, PauseLockstepWhileFresh, PauseSignersInLockstep, fresh
<1>5. ASSUME \/ \E a \in Admins, action \in PauseActions : PauseDirectly(a, action)
             \/ \E s \in PauseSigners, action \in PauseActions : ProposePause(s, action)
             \/ \E s \in PauseSigners, id \in PauseIds : ApprovePauseProposal(s, id)
             \/ \E id \in PauseIds : ExecutePauseProposal(id)
      PROVE  UNCHANGED pauseConfig
  BY <1>5 DEF PauseDirectly, ProposePause, ApprovePauseProposal, ExecutePauseProposal
<1>6. CASE PauseNext /\ inits' = inits
  BY <1>2, <1>3, <1>4, <1>5, <1>6 DEF PauseNext
<1> QED
  BY <1>1, <1>2, <1>6, PauseSteps DEF treasuryVars, pauseVars

(* What the executed proposals add up to.                                   *)
Payments == [id \in Ids |-> IF Executed(id) THEN proposal[id].amount ELSE 0]

LEMMA PaymentsType ==
  ASSUME TypeOK
  PROVE  Payments \in [Ids -> Nat]
<1>1. \A id \in Ids : Executed(id) => proposal[id].amount \in Nat
  BY DEF TypeOK, Executed, Proposal
<1> QED
  BY <1>1 DEF Payments

LEMMA PaymentsTypeAfter ==
  ASSUME TypeOK'
  PROVE  Payments' \in [Ids -> Nat]
<1>1. \A id \in Ids : Executed(id)' => proposal'[id].amount \in Nat
  BY DEF TypeOK, Executed, Proposal
<1> QED
  BY <1>1 DEF Payments

LEMMA NextPaid ==
  ASSUME TypeOK, TypeOK', Unopened, NextIdFree, PaidAsProposed, [Next]_vars
  PROVE  NextIdFree' /\ PaidAsProposed'
<1>0. /\ fresh => paid = SumFunction(Payments)
      /\ paid \in Nat
  BY DEF PaidAsProposed, Payments, TypeOK, InstanceTypeOK
<1>1. ASSUME UNCHANGED <<counter, proposal, paid, inits>>
      PROVE  NextIdFree' /\ PaidAsProposed'
  BY <1>1 DEF NextIdFree, PaidAsProposed, Executed, fresh
<1>2. ASSUME NEW a \in Admins, NEW t \in Tokens, Initialize(a, t)
      PROVE  NextIdFree' /\ PaidAsProposed'
  <2>1. /\ fresh' => fresh /\ \A id \in Ids : proposal[id] = NoProposal
        /\ proposal' = proposal /\ paid' = paid
    BY <1>2, InitializeOpens DEF Unopened
  <2> QED
    BY <2>1 DEF NextIdFree, PaidAsProposed, Executed
<1>3. ASSUME NEW s \in Signers, NEW r \in Recipients, NEW amt \in Amounts,
             ProposeWithdrawal(s, r, amt)
      PROVE  NextIdFree' /\ PaidAsProposed'
  <2> DEFINE p == [recipient |-> r, amount |-> amt, executed |-> FALSE,
                   expires_at |-> IF proposal_ttl = 0 THEN MaxTimestamp ELSE now + proposal_ttl]
  <2>1. /\ counter' = counter + 1 /\ paid' = paid /\ inits' = inits
        /\ proposal' = [proposal EXCEPT ![counter] = p]
        /\ counter \in Ids
    BY <1>3 DEF ProposeWithdrawal, TypeOK, Ids
  <2>2. ~p.executed
    OBVIOUS
  <2> HIDE DEF p
  <2>3. /\ proposal'[counter] = p
        /\ \A id \in Ids \ {counter} : proposal'[id] = proposal[id]
    BY <2>1 DEF TypeOK
  <2>4. NextIdFree'
    BY <2>1, <2>3 DEF NextIdFree, fresh, Ids
  <2>5. fresh => \A id \in Ids :
          (IF Executed(id)' THEN proposal'[id].amount ELSE 0)
            = (IF Executed(id) THEN proposal[id].amount ELSE 0)
    BY <2>1, <2>2, <2>3 DEF Executed, NextIdFree, Ids
  <2>6. fresh => Payments' = Payments
    BY <2>5 DEF Payments
  <2> QED
    BY <1>0, <2>1, <2>4, <2>6 DEF PaidAsProposed, Payments, fresh
<1>4. ASSUME NEW id \in Ids, NEW m \in Amounts \cup {0}, NEW cut \in Cuts,
             ExecuteWithdrawal(id, m, cut)
      PROVE  NextIdFree' /\ PaidAsProposed'
  <2>1. /\ CanExecute(id) /\ cut <= proposal[id].amount
        /\ counter' = counter /\ inits' = inits /\ paid' = paid + proposal[id].amount
        /\ proposal' = [proposal EXCEPT ![id].executed = TRUE]
    BY <1>4 DEF ExecuteWithdrawal
  <2>2. /\ proposal[id] \in Proposal /\ proposal[id].amount \in Nat /\ ~Executed(id)
        /\ proposal[id] # NoProposal
    BY <2>1, SettledBounds DEF CanExecute, Executed, Live, Proposal
  <2>3. /\ proposal'[id] \in Proposal
        /\ proposal'[id].executed /\ proposal'[id].amount = proposal[id].amount
    BY <2>1, <2>2 DEF TypeOK, Proposal
  <2>4. proposal'[id] # NoProposal
    BY <2>3
  <2>5. \A i \in Ids \ {id} : proposal'[i] = proposal[i]
    BY <2>1 DEF TypeOK
  <2>6. NextIdFree'
    BY <2>1, <2>2, <2>5 DEF NextIdFree, fresh
  <2>7. PICK w, v : w = Payments /\ v = Payments'
    OBVIOUS
  <2>8. /\ w \in [Ids -> Nat] /\ v \in [Ids -> Nat]
    BY <2>7, PaymentsType, PaymentsTypeAfter
  <2>9. w[id] = 0 /\ v[id] = proposal[id].amount
    BY <2>2, <2>3, <2>4, <2>7 DEF Payments, Executed
  <2>10. \A i \in Ids \ {id} : v[i] = w[i]
    BY <2>5, <2>7 DEF Payments, Executed
  <2>11. w \in [Ids -> Int] /\ v \in [Ids -> Int] /\ IsFiniteSet(Ids)
    <3>1. IsFiniteSet(0 .. MaxProposals - 1)
      BY FS_Interval
    <3> QED
      BY <2>8, <3>1 DEF Ids
  <2>12. SumFunction(v) = SumFunction(w) + v[id] - w[id]
    BY ONLY <2>10, <2>11, id \in Ids, SumUpdate
  <2>13. SumFunction(w) \in Int
    BY ONLY <2>11, SumInt
  <2>14. fresh => paid' = SumFunction(v)
    BY <1>0, <2>1, <2>2, <2>7, <2>9, <2>12, <2>13
  <2> QED
    BY <2>1, <2>6, <2>7, <2>14 DEF PaidAsProposed, Payments, fresh
<1> QED
  BY <1>1, <1>2, <1>3, <1>4, ProposalSteps

FreshInv ==
    /\ TypeOK /\ Unopened /\ NextIdFree
    /\ PaidAsProposed /\ SignersInLockstep /\ PauseLockstepWhileFresh

LEMMA InitFresh == Init => FreshInv
<1> SUFFICES ASSUME Init PROVE FreshInv
  OBVIOUS
<1>1. TypeOK
  BY InitType
<1>2. Unopened /\ NextIdFree
  BY DEF Init, PauseInit, Unopened, NextIdFree
<1>3. SignersInLockstep /\ PauseLockstepWhileFresh
  BY FS_EmptySet DEF Init, PauseInit, SignersInLockstep, PauseLockstepWhileFresh,
                     PauseSignersInLockstep
<1>4. PaidAsProposed
  <2>1. PICK w : w = Payments
    OBVIOUS
  <2>2. w \in [Ids -> Nat] /\ \A id \in Ids : w[id] = 0
    BY <2>1 DEF Init, Payments, Executed
  <2>3. IsFiniteSet(0 .. MaxProposals - 1)
    BY FS_Interval
  <2>4. IsFiniteSet(Ids) /\ DOMAIN w = Ids
    BY <2>2, <2>3 DEF Ids
  <2>5. SumFunctionOnSet(w, Ids) = 0
    BY ONLY <2>2, <2>4, SumZero
  <2>6. SumFunction(w) = 0
    BY <2>4, <2>5 DEF SumFunction
  <2> QED
    BY <2>1, <2>6 DEF Init, PaidAsProposed, Payments
<1> QED
  BY <1>1, <1>2, <1>3, <1>4 DEF FreshInv

LEMMA NextFresh == FreshInv /\ [Next]_vars => FreshInv'
<1> SUFFICES ASSUME FreshInv, [Next]_vars PROVE FreshInv'
  OBVIOUS
<1>1. TypeOK /\ Unopened /\ NextIdFree /\ PaidAsProposed /\ SignersInLockstep
      /\ PauseLockstepWhileFresh
  BY DEF FreshInv
<1>2. TypeOK'
  BY <1>1, NextType
<1>3. Unopened' /\ SignersInLockstep' /\ PauseLockstepWhileFresh'
  BY <1>1, NextUnopened, NextSigners, NextPauseSigners
<1>4. NextIdFree' /\ PaidAsProposed'
  BY <1>1, <1>2, NextPaid
<1> QED
  BY <1>2, <1>3, <1>4 DEF FreshInv

LEMMA FreshInvariant == Spec => []FreshInv
<1> QED
  BY InitFresh, NextFresh, PTL DEF Spec

(* Until initialize is called again, what was paid out is what the executed *)
(* proposals say, for any number of proposals and payments in any order.    *)
THEOREM PaidStaysAsProposed == Spec => []PaidAsProposed
<1>1. FreshInv => PaidAsProposed
  BY DEF FreshInv
<1> QED
  BY <1>1, FreshInvariant, PTL

(* Until initialize is called again, both cached counts are the numbers of  *)
(* signers and neither threshold is beyond what the signers can reach,      *)
(* however often signers are added, removed, enabled and disabled.          *)
THEOREM SignerCountsKept == Spec => []ThresholdsReachable
<1>1. FreshInv => ThresholdsReachable
  BY DEF FreshInv, ThresholdsReachable
<1> QED
  BY <1>1, FreshInvariant, PTL
=============================================================================
