------------------------------ MODULE Treasury ------------------------------
(***************************************************************************)
(* credence_treasury/src/treasury.rs: fees and slashed funds by source,    *)
(* lifetime counters that roll over at i128::MAX, multi-signature          *)
(* withdrawals with expiry, liquidity floor and slippage bound, rescue of  *)
(* excess tokens, and the emergency pause of module Pausable.              *)
(*                                                                         *)
(* The token is another contract.  A transfer between two accounts may     *)
(* credit less than it debits (`cut`, what a fee-on-transfer token keeps); *)
(* one from the treasury to itself moves nothing.                          *)
(***************************************************************************)
EXTENDS Pausable, Functions

CONSTANTS
    Depositors,      \* addresses that may be depositors
    Signers,         \* addresses that may be signers
    Tokens,          \* token contracts
    NoToken,         \* DataKey::Token absent
    Self,            \* the treasury's own address
    Recipients,      \* addresses withdrawals may go to
    NoProposal,      \* DataKey::Proposal(id) absent
    Amounts,         \* i128 arguments a caller may pass
    Floors,          \* arguments of set_min_liquidity
    Ttls,            \* arguments of set_proposal_ttl
    DefaultTtl,      \* DEFAULT_PROPOSAL_TTL
    Cuts,            \* what the token may keep of a transfer
    MaxAmount,       \* i128::MAX
    MaxTimestamp,    \* u64::MAX
    MaxTime,         \* bound: last ledger timestamp explored
    MaxProposals,    \* bound: withdrawal proposals created
    MaxRollovers,    \* bound: rollovers of a lifetime counter
    MaxExcess,       \* bound: tokens held beyond the accounted total
    MaxInits         \* bound: calls of initialize

Sources == {"ProtocolFee", "SlashedFunds"}
Counters == Sources \cup {"All"}
Segment == MaxAmount + 1
Ids == 0..(MaxProposals - 1)

ASSUME TreasurySortsAssumption ==
    IsFiniteSet(Signers) /\ IsFiniteSet(Tokens) /\ NoToken \notin Tokens
ASSUME TreasuryNumbersAssumption ==
    /\ Amounts \subseteq Int /\ Floors \subseteq Int
    /\ Ttls \subseteq Nat /\ DefaultTtl \in Nat /\ Cuts \subseteq Nat
    /\ MaxAmount \in Nat \ {0} /\ MaxTimestamp \in Nat /\ MaxTime \in Nat
    /\ MaxProposals \in Nat /\ MaxRollovers \in Nat /\ MaxExcess \in Nat /\ MaxInits \in Nat

Proposal ==
    [recipient : Recipients, amount : Nat, expires_at : Nat, executed : BOOLEAN]

ASSUME NoProposalAssumption == NoProposal \notin Proposal

VARIABLES
    now,             \* e.ledger().timestamp()
    token,           \* DataKey::Token
    held,            \* what the treasury holds of each token
    total,           \* DataKey::TotalBalance
    source_balance,  \* DataKey::BalanceBySource
    cumulative,      \* DataKey::CumulativeReceived and ...BySource
    depositors,      \* DataKey::Depositor
    signers,         \* DataKey::Signer
    signer_count,    \* DataKey::SignerCount
    threshold,       \* DataKey::Threshold
    min_liquidity,   \* DataKey::MinLiquidity
    proposal_ttl,    \* DataKey::ProposalTtl
    counter,         \* DataKey::ProposalCounter
    proposal,        \* DataKey::Proposal
    approvals,       \* DataKey::Approval
    approval_count,  \* DataKey::ApprovalCount
    inits,           \* history variable: calls of initialize
    withheld,        \* history variable: what tokens kept of transfers
    paid             \* history variable: sum of the withdrawals executed

funds == <<total, source_balance, cumulative>>
custody == <<held, withheld>>
roles == <<depositors, signers, signer_count, threshold>>
limits == <<min_liquidity, proposal_ttl>>
ballots == <<counter, proposal, approvals, approval_count>>
treasuryVars == <<now, token, funds, custody, roles, limits, ballots, inits, paid>>
vars == <<pauseVars, treasuryVars>>

-----------------------------------------------------------------------------
(* Arithmetic.                                                              *)

Fault_Added(c, amt) ==
    IF c.remainder + amt >= Segment
    THEN [rollovers |-> c.rollovers + 1, remainder |-> 0]
    ELSE [c EXCEPT !.remainder = @ + amt]

Fault_AddedLate(c, amt) ==
    IF c.remainder + amt > Segment
    THEN [rollovers |-> c.rollovers + 1, remainder |-> c.remainder + amt - Segment]
    ELSE [c EXCEPT !.remainder = @ + amt]

(* add_to_cumulative: at most one rollover, because amt <= i128::MAX.       *)
Added(c, amt) ==
    IF c.remainder + amt >= Segment
    THEN [rollovers |-> c.rollovers + 1, remainder |-> c.remainder + amt - Segment]
    ELSE [c EXCEPT !.remainder = @ + amt]

Lifetime(c) == c.rollovers * Segment + c.remainder

Fault_Deduction(part, amt, whole) ==
    IF part = 0 \/ amt = 0 THEN 0
    ELSE IF amt = whole THEN part
    ELSE (part * amt) \div whole + 1

(* proportional_deduction: floor of the share, in 256 bits.                 *)
Deduction(part, amt, whole) ==
    IF part = 0 \/ amt = 0 THEN 0
    ELSE IF amt = whole THEN part
    ELSE (part * amt) \div whole

(* The remainder of the rounding is charged to the slashed funds.           *)
Deducted(amt) ==
    LET share == Deduction(source_balance["ProtocolFee"], amt, total)
    IN  [s \in Sources |->
           source_balance[s] - (IF s = "ProtocolFee" THEN share ELSE amt - share)]

-----------------------------------------------------------------------------
Zero == [rollovers |-> 0, remainder |-> 0]

Init ==
    /\ PauseInit
    /\ now = 1 /\ token = NoToken /\ inits = 0
    /\ held = [t \in Tokens |-> 0] /\ withheld = 0 /\ paid = 0
    /\ total = 0 /\ source_balance = [s \in Sources |-> 0]
    /\ cumulative = [c \in Counters |-> Zero]
    /\ depositors = {} /\ signers = {} /\ signer_count = 0 /\ threshold = 0
    /\ min_liquidity = 0 /\ proposal_ttl = DefaultTtl
    /\ counter = 0
    /\ proposal = [id \in Ids |-> NoProposal]
    /\ approvals = [id \in Ids |-> {}]
    /\ approval_count = [id \in Ids |-> 0]

(* No check that the contract is still uninitialized: balances and counters *)
(* start again, signers, depositors, proposals and approvals stay stored.   *)
Initialize(a, t) ==
    /\ inits < MaxInits
    /\ inits' = inits + 1
    /\ admin' = a /\ token' = t
    /\ PauseReset
    /\ total' = 0 /\ source_balance' = [s \in Sources |-> 0]
    /\ cumulative' = [c \in Counters |-> Zero]
    /\ signer_count' = 0 /\ threshold' = 0
    /\ counter' = 0
    /\ min_liquidity' = 0 /\ proposal_ttl' = DefaultTtl
    /\ UNCHANGED <<now, custody, depositors, signers, proposal, approvals,
                   approval_count, paid>>

-----------------------------------------------------------------------------
(* Roles and limits.                                                        *)

Fault_Governs(a) == StoredAdmin(a)
Governs(a) == ~paused /\ StoredAdmin(a)

AddDepositor(a, d) ==
    /\ Governs(a)
    /\ depositors' = depositors \cup {d}
    /\ UNCHANGED <<pauseVars, now, token, funds, custody, signers, signer_count,
                   threshold, limits, ballots, inits, paid>>

RemoveDepositor(a, d) ==
    /\ Governs(a)
    /\ depositors' = depositors \ {d}
    /\ UNCHANGED <<pauseVars, now, token, funds, custody, signers, signer_count,
                   threshold, limits, ballots, inits, paid>>

(* An address that is a signer already is not counted again.                *)
AddSigner(a, s) ==
    /\ Governs(a) /\ s \notin signers
    /\ signers' = signers \cup {s}
    /\ signer_count' = signer_count + 1
    /\ UNCHANGED <<pauseVars, now, token, funds, custody, depositors, threshold,
                   limits, ballots, inits, paid>>

Fault_CappedThreshold(count) == threshold
CappedThreshold(count) == Smaller(threshold, count)

(* Approvals the signer has given stay.                                     *)
RemoveSigner(a, s) ==
    /\ Governs(a) /\ s \in signers
    /\ signers' = signers \ {s}
    /\ signer_count' = IF signer_count = 0 THEN 0 ELSE signer_count - 1
    /\ threshold' = CappedThreshold(signer_count')
    /\ UNCHANGED <<pauseVars, now, token, funds, custody, depositors,
                   limits, ballots, inits, paid>>

SetThreshold(a, t) ==
    /\ Governs(a) /\ t <= signer_count
    /\ threshold' = t
    /\ UNCHANGED <<pauseVars, now, token, funds, custody, depositors, signers,
                   signer_count, limits, ballots, inits, paid>>

SetToken(a, t) ==
    /\ Governs(a)
    /\ token' = t
    /\ UNCHANGED <<pauseVars, now, funds, custody, roles, limits, ballots, inits, paid>>

SetMinLiquidity(a, floor) ==
    /\ Governs(a)
    /\ min_liquidity' = floor
    /\ UNCHANGED <<pauseVars, now, token, funds, custody, roles, proposal_ttl,
                   ballots, inits, paid>>

SetProposalTtl(a, ttl) ==
    /\ Governs(a)
    /\ proposal_ttl' = ttl
    /\ UNCHANGED <<pauseVars, now, token, funds, custody, roles, min_liquidity,
                   ballots, inits, paid>>

-----------------------------------------------------------------------------
(* Deposits.                                                                *)

MayDeposit(a) == admin # NoAdmin /\ (a = admin \/ a \in depositors)

Fault_Credited(source, amt) == [source_balance EXCEPT ![source] = amt]
Credited(source, amt) == [source_balance EXCEPT ![source] = @ + amt]

(* The books take the nominal amount, the treasury what the token delivers. *)
ReceiveFee(a, amt, source, cut) ==
    /\ ~paused /\ amt > 0 /\ MayDeposit(a)
    /\ total + amt <= MaxAmount /\ source_balance[source] + amt <= MaxAmount
    /\ token # NoToken /\ cut <= amt
    /\ \A c \in {source, "All"} : Added(cumulative[c], amt).rollovers <= MaxRollovers
    /\ total' = total + amt
    /\ source_balance' = Credited(source, amt)
    /\ cumulative' = [c \in Counters |->
         IF c \in {source, "All"} THEN Added(cumulative[c], amt) ELSE cumulative[c]]
    /\ held' = [held EXCEPT ![token] = @ + (amt - cut)]
    /\ withheld' = withheld + cut
    /\ UNCHANGED <<pauseVars, now, token, roles, limits, ballots, inits, paid>>

(* Anyone may send tokens without telling the treasury.                     *)
Donate(t, amt) ==
    /\ amt > 0 /\ SumFunction(held) + amt <= total + MaxExcess
    /\ held' = [held EXCEPT ![t] = @ + amt]
    /\ UNCHANGED <<pauseVars, now, token, funds, withheld, roles, limits, ballots,
                   inits, paid>>

-----------------------------------------------------------------------------
(* Withdrawals.                                                             *)

ProposeWithdrawal(s, recipient, amt) ==
    /\ ~paused /\ s \in signers
    /\ 0 < amt /\ amt <= total
    /\ counter < MaxProposals
    /\ proposal_ttl # 0 => now + proposal_ttl <= MaxTimestamp
    /\ counter' = counter + 1
    /\ proposal' = [proposal EXCEPT ![counter] =
         [recipient |-> recipient, amount |-> amt, executed |-> FALSE,
          expires_at |-> IF proposal_ttl = 0 THEN MaxTimestamp ELSE now + proposal_ttl]]
    /\ approval_count' = [approval_count EXCEPT ![counter] = 0]
    /\ UNCHANGED <<pauseVars, now, token, funds, custody, roles, limits, approvals,
                   inits, paid>>

Live(id) == proposal[id] # NoProposal /\ now < proposal[id].expires_at

Fault_CanApprove(s, id) ==
    /\ ~paused /\ s \in signers
    /\ Live(id) /\ ~proposal[id].executed

(* A second approval of one signer changes nothing.                         *)
CanApprove(s, id) ==
    /\ ~paused /\ s \in signers
    /\ Live(id) /\ ~proposal[id].executed
    /\ s \notin approvals[id]

ApproveWithdrawal(s, id) ==
    /\ CanApprove(s, id)
    /\ approvals' = [approvals EXCEPT ![id] = @ \cup {s}]
    /\ approval_count' = [approval_count EXCEPT ![id] = @ + 1]
    /\ UNCHANGED <<pauseVars, now, token, funds, custody, roles, limits, counter,
                   proposal, inits, paid>>

Fault_CanExecute(id) ==
    /\ ~paused
    /\ Live(id)
    /\ approval_count[id] >= threshold
    /\ proposal[id].amount <= total
    /\ total - proposal[id].amount >= min_liquidity
    /\ token # NoToken /\ proposal[id].amount <= held[token]

Fault_CanExecuteUnfloored(id) ==
    /\ ~paused
    /\ Live(id) /\ ~proposal[id].executed
    /\ approval_count[id] >= threshold
    /\ proposal[id].amount <= total /\ total >= min_liquidity
    /\ token # NoToken /\ proposal[id].amount <= held[token]

CanExecute(id) ==
    /\ ~paused
    /\ Live(id) /\ ~proposal[id].executed
    /\ approval_count[id] >= threshold
    /\ proposal[id].amount <= total
    /\ total - proposal[id].amount >= min_liquidity
    /\ token # NoToken /\ proposal[id].amount <= held[token]

(* What the recipient's balance rose by, measured around the transfer.      *)
Settled(p, cut) == IF p.recipient = Self THEN 0 ELSE p.amount - cut

Fault_Debited(p, cut) == total - p.amount
Debited(p, cut) == total - Settled(p, cut)

(* Anyone may execute; the caller's bound is on the settled amount.         *)
ExecuteWithdrawal(id, min_amount_out, cut) ==
    LET p == proposal[id]
    IN  /\ CanExecute(id) /\ cut <= p.amount
        /\ min_amount_out <= Settled(p, cut)
        /\ total' = Debited(p, cut)
        /\ source_balance' = Deducted(Settled(p, cut))
        /\ proposal' = [proposal EXCEPT ![id].executed = TRUE]
        /\ IF p.recipient = Self THEN UNCHANGED custody
           ELSE /\ held' = [held EXCEPT ![token] = @ - p.amount]
                /\ withheld' = withheld + cut
        /\ paid' = paid + p.amount
        /\ UNCHANGED <<pauseVars, now, token, cumulative, roles, limits, counter,
                       approvals, approval_count, inits>>

Fault_Excess == SumFunction(held)
Excess == held[token] - total

RescueNative(a, recipient, amt) ==
    /\ Governs(a) /\ token # NoToken
    /\ 0 < amt /\ amt <= Excess
    /\ held' = IF recipient = Self THEN held ELSE [held EXCEPT ![token] = @ - amt]
    /\ UNCHANGED <<pauseVars, now, token, funds, withheld, roles, limits, ballots,
                   inits, paid>>

-----------------------------------------------------------------------------
(* Ledgers close.                                                           *)
Tick ==
    /\ now < MaxTime
    /\ now' = now + 1
    /\ UNCHANGED <<pauseVars, token, funds, custody, roles, limits, ballots, inits, paid>>

AdminNext(a) ==
    \/ \E t \in Tokens : Initialize(a, t) \/ SetToken(a, t)
    \/ \E d \in Depositors : AddDepositor(a, d) \/ RemoveDepositor(a, d)
    \/ \E s \in Signers : AddSigner(a, s) \/ RemoveSigner(a, s)
    \/ \E t \in 0..Cardinality(Signers) : SetThreshold(a, t)
    \/ \E floor \in Floors : SetMinLiquidity(a, floor)
    \/ \E ttl \in Ttls : SetProposalTtl(a, ttl)
    \/ \E r \in Recipients, amt \in Amounts : RescueNative(a, r, amt)

SignerNext(s) ==
    \/ \E r \in Recipients, amt \in Amounts : ProposeWithdrawal(s, r, amt)
    \/ \E id \in Ids : ApproveWithdrawal(s, id)

Next ==
    \/ PauseNext /\ UNCHANGED treasuryVars
    \/ \E a \in Admins : AdminNext(a)
    \/ \E s \in Signers : SignerNext(s)
    \/ \E a \in Admins \cup Depositors, amt \in Amounts, source \in Sources, cut \in Cuts :
          ReceiveFee(a, amt, source, cut)
    \/ \E id \in Ids, min_amount_out \in Amounts \cup {0}, cut \in Cuts :
          ExecuteWithdrawal(id, min_amount_out, cut)
    \/ \E t \in Tokens, amt \in Amounts : Donate(t, amt)
    \/ Tick

Spec == Init /\ [][Next]_vars

-----------------------------------------------------------------------------
(* Properties.                                                              *)

InstanceTypeOK ==
    /\ PauseTypeOK
    /\ now \in Nat /\ token \in Tokens \cup {NoToken}
    /\ held \in [Tokens -> Nat] /\ withheld \in Nat
    /\ total \in 0..MaxAmount /\ source_balance \in [Sources -> Int]
    /\ cumulative \in [Counters -> [rollovers : Nat, remainder : 0..MaxAmount]]
    /\ min_liquidity \in Int /\ proposal_ttl \in Nat
    /\ inits \in Nat /\ paid \in Nat

(* Every key of the treasury holds a value of its Rust type; in particular  *)
(* the total and the remainders of the lifetime counters never leave the    *)
(* non-negative range of an i128.                                           *)
TypeOK ==
    /\ InstanceTypeOK
    /\ depositors \subseteq Depositors /\ signers \subseteq Signers
    /\ signer_count \in Nat /\ threshold \in Nat
    /\ counter \in 0..MaxProposals
    /\ proposal \in [Ids -> Proposal \cup {NoProposal}]
    /\ approvals \in [Ids -> SUBSET Signers]
    /\ approval_count \in [Ids -> Nat]

(* docs/treasury.md, accounting identity: the two sources add up to the     *)
(* total and neither is negative, after any mix of deposits, rounded        *)
(* withdrawals, short settlements and re-initializations.                   *)
BooksBalance ==
    /\ source_balance["ProtocolFee"] + source_balance["SlashedFunds"] = total
    /\ \A s \in Sources : source_balance[s] >= 0

(* A withdrawal charges each source its proportional share, to within less  *)
(* than one unit, whatever the rounding and the settled amount are.         *)
ChargesAreProportional ==
    [][total' < total /\ inits' = inits =>
         \A s \in Sources :
            LET error == (source_balance[s] - source_balance'[s]) * total
                           - source_balance[s] * (total - total')
            IN  -total < error /\ error < total]_vars

(* What the treasury can answer for: its tokens and what they kept back.    *)
Reserve == SumFunction(held) + withheld

(* The books never promise more than the treasury holds and its tokens have *)
(* kept back: rescues take only the excess, also when tokens are sent       *)
(* unasked, the token is exchanged or the contract is initialized again.    *)
Covered == total <= Reserve

(* Step by step: the books promise no more than came in, tokens leave only  *)
(* against what the books give up (settlements, the fees of the token among *)
(* them), and a rescue leaves what is promised, whatever tokens are set or  *)
(* sent in between.                                                         *)
Vault == INSTANCE Escrow WITH pool <- Reserve, claim <- total, drained <- 0, raised <- 0
ImplementsVault == Vault!VaultSpec

(* The three lifetime counters roll over at different moments and still     *)
(* agree, and nothing is in the treasury that was never received.           *)
LifetimesAgree ==
    /\ Lifetime(cumulative["All"]) =
         Lifetime(cumulative["ProtocolFee"]) + Lifetime(cumulative["SlashedFunds"])
    /\ total <= Lifetime(cumulative["All"])

(* No withdrawal, however it settles, takes the total below the liquidity   *)
(* floor in force when it is executed.                                      *)
FloorKept == [][total' < total /\ inits' = inits => total' >= min_liquidity]_vars

fresh == inits <= 1

Executed(id) == proposal[id] # NoProposal /\ proposal[id].executed

(* What the treasury has paid out is the sum of its executed proposals: no  *)
(* proposal is paid twice and none is executed without being paid.          *)
PaidAsProposed ==
    fresh => paid = SumFunction([id \in Ids |->
                      IF Executed(id) THEN proposal[id].amount ELSE 0])

(* A withdrawal is executed only with as many different approvers as the    *)
(* threshold asks for at that moment, whatever happened in between to the   *)
(* signers, the threshold and, after a new initialize, to the proposal ids. *)
QuorumMet ==
    [][\A id \in Ids : paid' # paid /\ ~Executed(id) /\ Executed(id)'
         => Cardinality(approvals[id]) >= threshold]_vars

(* SignerCount "must stay in lockstep with the distinct signer set": the    *)
(* threshold never asks for more signers than there are, so proposals can   *)
(* reach it.                                                                *)
SignersInLockstep ==
    fresh => signer_count = Cardinality(signers) /\ threshold <= signer_count

(* The same for the pause signers, until initialize is called again.        *)
PauseLockstepWhileFresh == fresh => PauseSignersInLockstep

(* No series of additions and removals, repeated or not, of signers of      *)
(* either kind makes a threshold that nobody can reach: withdrawals can be  *)
(* approved and a paused contract can be unpaused.                          *)
ThresholdsReachable == SignersInLockstep /\ PauseLockstepWhileFresh

(* While the contract stays paused no entry point changes books, roles,     *)
(* limits, proposals or the token, and none pays out.                       *)
PausedFreezes ==
    [][paused /\ paused'
         => /\ UNCHANGED <<token, funds, roles, limits, ballots, paid>>
            /\ SumFunction(held') >= SumFunction(held)]_vars

(* Apart from a new initialize, only the admin alone (threshold 0) or a     *)
(* proposal with enough different approvers changes the paused state, and   *)
(* the proposal is used up by it.                                           *)
PauseAuthorised ==
    [][paused' # paused /\ inits' = inits
         => \/ pause_threshold = 0
            \/ \E id \in PauseIds :
                 /\ pause_proposal[id] # NoAction /\ pause_proposal'[id] = NoAction
                 /\ Cardinality(pause_approvals[id]) >= pause_threshold]_vars
=============================================================================
