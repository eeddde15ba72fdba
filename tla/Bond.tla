-------------------------------- MODULE Bond --------------------------------
(***************************************************************************)
(* The single identity bond kept by credence_bond/src/lib.rs: creation,    *)
(* top-up, the three exits, rolling renewal, the two slash entry points,   *)
(* liquidation, fees, the emergency drain, and the tokens that move with   *)
(* them.                                                                   *)
(*                                                                         *)
(* The admin may configure another token under a bond that was paid for in *)
(* the old one, so that the contract's tokens are told apart by kind.  What*)
(* other accounts hold is counted over all kinds: an owner is taken to be  *)
(* able to exchange one kind for another, which only adds behaviours.      *)
(*                                                                         *)
(* One entry point is one action: a Soroban invocation either commits as   *)
(* a whole or, on a panic, leaves no trace, and the host refuses           *)
(* re-entrant calls, so a failing call is a disabled action.  CanX is what *)
(* entry point X checks before its first write; the bond it writes then    *)
(* has to pass assert_self_consistent (Commit).                            *)
(***************************************************************************)
EXTENDS Integers, Sequences, FiniteSets, Functions

CONSTANTS
    Owners,          \* identities that may own the bond
    Admins,          \* addresses that may hold DataKey::Admin
    NoAdmin,         \* the admin before initialize
    NoBond,          \* DataKey::Bond absent
    Tokens,          \* token contracts that may come to be accepted
    NoToken,         \* DataKey::BondToken absent
    NoConfig,        \* DataKey::EarlyExitConfig absent
    NoSalt,          \* the empty idempotency salt
    Salts,           \* non-empty idempotency salts
    Amounts,         \* i128 arguments a caller may pass
    Durations,       \* u64 bond durations and extensions
    Notices,         \* u64 notice periods
    PenaltyRates,    \* early-exit penalties, in basis points
    FeeDeposits,     \* i128 arguments of deposit_fees
    MinBond,         \* MIN_BOND_AMOUNT
    MaxBond,         \* MAX_BOND_AMOUNT
    MaxLeverage,     \* parameters::get_max_leverage
    MaxTimestamp,    \* u64::MAX
    MaxAmount,       \* i128::MAX
    ExitTreasury,    \* account receiving early-exit penalties
    SlashTreasury,   \* account receiving slashed tokens
    EmergencyTreasury,  \* account receiving drained tokens
    Endowment,       \* tokens each owner starts with
    Steps,           \* bound: seconds between one ledger and the next
    MaxTime,         \* bound: last ledger timestamp explored
    MaxSlashes,      \* bound: slash records per identity
    MaxFees,         \* bound: accrued protocol fees
    MaxRaised        \* bound: stake raised by negative amounts

Treasuries == {ExitTreasury, SlashTreasury, EmergencyTreasury}
Accounts == Owners \cup Treasuries
BpsDenominator == 10000
Operations == {"slash_bond", "collect_fees"}

ASSUME SortsAssumption ==
    /\ NoAdmin \notin Admins /\ NoSalt \notin Salts
    /\ ExitTreasury \notin Owners /\ SlashTreasury \notin Owners /\ EmergencyTreasury \notin Owners
    /\ ExitTreasury # SlashTreasury /\ ExitTreasury # EmergencyTreasury
    /\ SlashTreasury # EmergencyTreasury
    /\ IsFiniteSet(Tokens) /\ NoToken \notin Tokens
ASSUME AmountsAssumption == Amounts \subseteq Int /\ FeeDeposits \subseteq Int
ASSUME TimesAssumption ==
    /\ Durations \subseteq Nat /\ Notices \subseteq Nat /\ Steps \subseteq Nat
    /\ MaxTime \in Nat /\ MaxTimestamp \in Nat /\ MaxAmount \in Nat
ASSUME LimitsAssumption ==
    /\ MinBond \in Nat \ {0} /\ MaxBond \in Nat /\ MaxLeverage \in Nat
    /\ Endowment \in Nat /\ MaxSlashes \in Nat /\ MaxFees \in Nat /\ MaxRaised \in Nat
ASSUME RatesAssumption ==
    PenaltyRates \subseteq 0..BpsDenominator /\ NoConfig \notin PenaltyRates

IdentityBond ==
    [identity : Owners, bonded_amount : Int, bond_start : Nat,
     bond_duration : Nat, slashed_amount : Int, active : BOOLEAN,
     is_rolling : BOOLEAN, withdrawal_requested_at : Nat,
     notice_period_duration : Nat]

ASSUME NoBondAssumption == NoBond \notin IdentityBond

VARIABLES
    now,             \* e.ledger().timestamp()
    admin,           \* DataKey::Admin
    bond,            \* DataKey::Bond
    token,           \* DataKey::BondToken
    exit_config,     \* DataKey::EarlyExitConfig, its penalty_bps
    slash_treasury,  \* whether DataKey::SlashTreasury is configured
    liquidated,      \* DataKey::Liquidated
    pool,            \* the contract's balance in each token
    wallet,          \* the tokens of every other account, of all kinds together
    history,         \* slash_history records of each identity
    rewards,         \* claims: ClaimableAmount of each admin
    fees,            \* Symbol "fees"
    keys,            \* DataKey::IdempotencyKey
    backed,          \* history variable: the bond was paid for in tokens
    raised,          \* history variable: stake that negative amounts put on the books
    executions       \* history variable: executions under each key

config == <<admin, token, exit_config, slash_treasury>>
tokens == <<pool, wallet>>
records == <<history, rewards>>
once == <<keys, executions>>
provenance == <<backed, raised>>
vars == <<now, config, bond, liquidated, tokens, records, fees, once, provenance>>

-----------------------------------------------------------------------------
(* Reading a bond.                                                          *)

Lesser(a, b) == IF a <= b THEN a ELSE b

Available(b) == b.bonded_amount - b.slashed_amount
LockEnd(b) == b.bond_start + b.bond_duration
OwnedBy(o) == bond # NoBond /\ bond.identity = o
IsAdmin(a) == admin # NoAdmin /\ a = admin

ValidAmount(amt) ==
    /\ MinBond <= amt /\ amt <= MaxBond
    /\ amt \div MinBond <= MaxLeverage

NoticeServed(b) ==
    /\ b.withdrawal_requested_at # 0
    /\ b.withdrawal_requested_at + b.notice_period_duration <= MaxTimestamp
    /\ now >= b.withdrawal_requested_at + b.notice_period_duration

(* checked_mul(..).unwrap_or(0): a product that does not fit is dropped.    *)
Product(a, b) == IF a * b <= MaxAmount THEN a * b ELSE 0

(* Two floors: first the charge, then its decay over the remaining time.    *)
Fault_Penalty(amt, remaining, duration, bps) ==
    IF duration = 0 THEN 0
    ELSE Product(Product(amt, bps) \div BpsDenominator, duration - remaining) \div duration

Penalty(amt, remaining, duration, bps) ==
    IF duration = 0 THEN 0
    ELSE Product(Product(amt, bps) \div BpsDenominator, remaining) \div duration

-----------------------------------------------------------------------------
(* Writing a bond, and moving tokens.                                       *)

Consistent(b) ==
    /\ 0 <= b.slashed_amount
    /\ b.slashed_amount <= b.bonded_amount

Commit(b) == Consistent(b) /\ bond' = b

(* What the contract can pay with: its balance in the configured token.     *)
Payable == IF token = NoToken THEN 0 ELSE pool[token]

Credit(account, amt) == wallet' = [wallet EXCEPT ![account] = @ + amt]

(* safe_transfer and transfer_from_contract: nothing to do for zero.        *)
Draw(amt) == pool' = IF amt = 0 THEN pool ELSE [pool EXCEPT ![token] = @ - amt]

(* transfer_into_contract, called only when a token is configured.          *)
CanPull(o, amt) == token # NoToken => 0 <= amt /\ amt <= wallet[o]

Fault_Pull(o, amt) == UNCHANGED tokens
Pull(o, amt) ==
    IF token = NoToken THEN UNCHANGED tokens
    ELSE /\ pool' = [pool EXCEPT ![token] = @ + amt]
         /\ Credit(o, -amt)

(* The part of the stake that a negative argument has added.                *)
Raise(amt) ==
    /\ raised' = raised + IF amt > 0 THEN amt ELSE 0
    /\ raised' <= MaxRaised

Fault_RecordKey(a, op, salt) ==
    IF salt = NoSalt THEN UNCHANGED once
    ELSE /\ keys' = keys \cup {<<a, op, salt>>}
         /\ executions' = [executions EXCEPT ![<<a, op, salt>>] = @ + 1]

(* idempotency::check_and_record: the scope of a salt is one admin and one  *)
(* operation; an empty salt opts out.                                       *)
RecordKey(a, op, salt) ==
    IF salt = NoSalt THEN UNCHANGED once
    ELSE /\ <<a, op, salt>> \notin keys
         /\ keys' = keys \cup {<<a, op, salt>>}
         /\ executions' = [executions EXCEPT ![<<a, op, salt>>] = @ + 1]

-----------------------------------------------------------------------------
Init ==
    /\ now = 1
    /\ admin = NoAdmin /\ token = NoToken
    /\ exit_config = NoConfig /\ slash_treasury = FALSE
    /\ bond = NoBond /\ liquidated = {}
    /\ pool = [t \in Tokens |-> 0]
    /\ wallet = [h \in Accounts |-> IF h \in Owners THEN Endowment ELSE 0]
    /\ history = [o \in Owners |-> <<>>]
    /\ rewards = [a \in Admins |-> 0]
    /\ fees = 0 /\ keys = {}
    /\ backed = FALSE /\ raised = 0
    /\ executions = [k \in Admins \X Operations \X Salts |-> 0]

-----------------------------------------------------------------------------
(* Configuration.                                                           *)

(* No check that the contract is still uninitialized.                       *)
Initialize(a) ==
    /\ admin' = a
    /\ UNCHANGED <<now, token, exit_config, slash_treasury, bond, liquidated,
                   tokens, records, fees, once, provenance>>

TransferAdmin(a, b) ==
    /\ IsAdmin(a) /\ a # b
    /\ admin' = b
    /\ UNCHANGED <<now, token, exit_config, slash_treasury, bond, liquidated,
                   tokens, records, fees, once, provenance>>

(* Also under a bond: what is in the pool then stays there in the old kind. *)
SetToken(a, t) ==
    /\ IsAdmin(a)
    /\ token' = t
    /\ UNCHANGED <<now, admin, exit_config, slash_treasury, bond, liquidated,
                   tokens, records, fees, once, provenance>>

SetEarlyExitConfig(a, bps) ==
    /\ IsAdmin(a)
    /\ exit_config' = bps
    /\ UNCHANGED <<now, admin, token, slash_treasury, bond, liquidated,
                   tokens, records, fees, once, provenance>>

SetSlashTreasury(a) ==
    /\ IsAdmin(a)
    /\ slash_treasury' = TRUE
    /\ UNCHANGED <<now, admin, token, exit_config, bond, liquidated,
                   tokens, records, fees, once, provenance>>

-----------------------------------------------------------------------------
(* Staking.                                                                 *)

(* The slot is overwritten whoever owns the bond in it.                     *)
CreateBond(o, amt, duration, rolling, notice) ==
    /\ CanPull(o, amt) /\ ValidAmount(amt)
    /\ now + duration <= MaxTimestamp
    /\ Commit([identity |-> o, bonded_amount |-> amt, bond_start |-> now,
               bond_duration |-> duration, slashed_amount |-> 0, active |-> TRUE,
               is_rolling |-> rolling, withdrawal_requested_at |-> 0,
               notice_period_duration |-> notice])
    /\ Pull(o, amt)
    /\ backed' = (token # NoToken)
    /\ UNCHANGED <<now, config, liquidated, records, fees, once, raised>>

CanTopUp(o, amt) ==
    /\ OwnedBy(o) /\ CanPull(o, amt)
    /\ ValidAmount(bond.bonded_amount + amt)

ToppedUp(amt) == [bond EXCEPT !.bonded_amount = @ + amt]

TopUp(o, amt) ==
    /\ CanTopUp(o, amt)
    /\ Commit(ToppedUp(amt))
    /\ Pull(o, amt)
    /\ UNCHANGED <<now, config, liquidated, records, fees, once, provenance>>

ExtendDuration(o, extra) ==
    /\ OwnedBy(o)
    /\ bond.bond_duration + extra <= MaxTimestamp
    /\ bond.bond_start + bond.bond_duration + extra <= MaxTimestamp
    /\ Commit([bond EXCEPT !.bond_duration = @ + extra])
    /\ UNCHANGED <<now, config, liquidated, tokens, records, fees, once, provenance>>

RequestWithdrawal(o) ==
    /\ OwnedBy(o) /\ bond.is_rolling
    /\ bond.withdrawal_requested_at = 0
    /\ Commit([bond EXCEPT !.withdrawal_requested_at = now])
    /\ UNCHANGED <<now, config, liquidated, tokens, records, fees, once, provenance>>

(* Outside this guard the entry point returns the bond unchanged.           *)
RenewIfRolling(o) ==
    /\ OwnedBy(o) /\ bond.is_rolling
    /\ bond.withdrawal_requested_at = 0
    /\ LockEnd(bond) <= MaxTimestamp /\ now >= LockEnd(bond)
    /\ Commit([bond EXCEPT !.bond_start = now, !.withdrawal_requested_at = 0])
    /\ UNCHANGED <<now, config, liquidated, tokens, records, fees, once, provenance>>

-----------------------------------------------------------------------------
(* Exits.                                                                   *)

Fault_CanWithdraw(o, amt) ==
    /\ OwnedBy(o)
    /\ LockEnd(bond) <= MaxTimestamp /\ now >= LockEnd(bond)
    /\ bond.is_rolling => NoticeServed(bond)
    /\ amt <= bond.bonded_amount

Fault_CanWithdrawLate(o, amt) ==
    /\ OwnedBy(o)
    /\ LockEnd(bond) <= MaxTimestamp /\ now > LockEnd(bond)
    /\ bond.is_rolling => NoticeServed(bond)
    /\ amt <= Available(bond)

CanWithdraw(o, amt) ==
    /\ OwnedBy(o)
    /\ LockEnd(bond) <= MaxTimestamp /\ now >= LockEnd(bond)
    /\ bond.is_rolling => NoticeServed(bond)
    /\ amt <= Available(bond)
    /\ bond.bonded_amount - amt <= MaxAmount

Fault_Reduced(amt) == bond
Reduced(amt) == [bond EXCEPT !.bonded_amount = @ - amt]

(* No token moves, the request stays stored, `active` is not looked at.  A  *)
(* negative amount passes every check, and adds to the stake.               *)
Withdraw(o, amt) ==
    /\ CanWithdraw(o, amt)
    /\ Commit(Reduced(amt))
    /\ Raise(-amt)
    /\ UNCHANGED <<now, config, liquidated, tokens, records, fees, once, backed>>

PenaltyNow(amt) ==
    Penalty(amt, Lesser(LockEnd(bond), MaxTimestamp) - now, bond.bond_duration, exit_config)

CanWithdrawEarly(o, amt) ==
    /\ OwnedBy(o)
    /\ amt <= Available(bond)
    /\ now < Lesser(LockEnd(bond), MaxTimestamp)
    /\ exit_config # NoConfig
    /\ 0 <= PenaltyNow(amt) /\ PenaltyNow(amt) <= amt
    /\ amt > 0 => amt <= Payable

Fault_PayEarly(o, amt) ==
    /\ Draw(amt + PenaltyNow(amt))
    /\ wallet' = [wallet EXCEPT ![ExitTreasury] = @ + PenaltyNow(amt), ![o] = @ + amt]

PayEarly(o, amt) ==
    /\ Draw(amt)
    /\ wallet' = [wallet EXCEPT ![ExitTreasury] = @ + PenaltyNow(amt),
                                ![o] = @ + (amt - PenaltyNow(amt))]

WithdrawEarly(o, amt) ==
    /\ CanWithdrawEarly(o, amt)
    /\ Commit(Reduced(amt))
    /\ PayEarly(o, amt)
    /\ UNCHANGED <<now, config, liquidated, records, fees, once, provenance>>

(* The lock-up of a fixed bond is not looked at, and no token moves.        *)
WithdrawBond(o) ==
    /\ OwnedBy(o) /\ bond.active
    /\ bond.is_rolling => NoticeServed(bond)
    /\ Commit([bond EXCEPT !.bonded_amount = 0, !.active = FALSE])
    /\ UNCHANGED <<now, config, liquidated, tokens, records, fees, once, provenance>>

-----------------------------------------------------------------------------
(* Slashing, liquidation and fees.                                          *)

Taken(amt) == Lesser(amt, Available(bond))

Fault_SlashedTotal(amt) == Taken(amt)

(* A residue of one unit or less is slashed as well (DUST_THRESHOLD).       *)
SlashedTotal(amt) ==
    LET raw == bond.slashed_amount + Taken(amt)
    IN  IF bond.bonded_amount - raw <= 1 THEN bond.bonded_amount ELSE raw

CanSlash(a, amt) ==
    /\ 0 <= amt /\ IsAdmin(a) /\ bond # NoBond
    /\ Taken(amt) > 0 => slash_treasury /\ Taken(amt) <= Payable

Slashed(amt) == [bond EXCEPT !.slashed_amount = SlashedTotal(amt)]

Fault_Reward(amt) == amt \div 10
Reward(amt) == Taken(amt) \div 10

Fault_Seize(amt) ==
    /\ Draw(SlashedTotal(amt) - bond.slashed_amount)
    /\ Credit(SlashTreasury, SlashedTotal(amt) - bond.slashed_amount)
Seize(amt) == Draw(Taken(amt)) /\ Credit(SlashTreasury, Taken(amt))

(* slashing::slash_bond.  The record and the transfer carry the amount      *)
(* before the dust clamp.  `active` is not looked at.                       *)
Slash(a, amt) ==
    /\ CanSlash(a, amt)
    /\ Len(history[bond.identity]) < MaxSlashes
    /\ Commit(Slashed(amt))
    /\ history' = [history EXCEPT ![bond.identity] =
                     Append(@, [slash_amount |-> Taken(amt),
                                total_slashed_after |-> SlashedTotal(amt)])]
    /\ rewards' = [rewards EXCEPT ![a] = @ + Reward(amt)]
    /\ Seize(amt)
    /\ UNCHANGED <<now, config, liquidated, fees, once, provenance>>

CanSlashBond(a, amt) ==
    /\ IsAdmin(a) /\ bond # NoBond /\ bond.active
    /\ bond.slashed_amount + amt <= bond.bonded_amount

SlashAdded(amt) == [bond EXCEPT !.slashed_amount = @ + amt]

(* The guarded entry point: no cap, no record, no transfer, any sign.       *)
SlashBond(a, amt, salt) ==
    /\ CanSlashBond(a, amt)
    /\ RecordKey(a, "slash_bond", salt)
    /\ Commit(SlashAdded(amt))
    /\ Raise(-amt)
    /\ UNCHANGED <<now, config, liquidated, tokens, records, fees, backed>>

FullySlashed(b) == b.slashed_amount >= b.bonded_amount

CanLiquidate(a) ==
    /\ IsAdmin(a) /\ bond # NoBond /\ bond.active
    /\ \/ FullySlashed(bond)
       \/ ~bond.is_rolling /\ now >= Lesser(LockEnd(bond), MaxTimestamp)

(* The residual is only announced in the event.                             *)
Liquidate(a) ==
    /\ CanLiquidate(a)
    /\ Commit([bond EXCEPT !.active = FALSE])
    /\ liquidated' = liquidated \cup {bond.identity}
    /\ UNCHANGED <<now, config, tokens, records, fees, once, provenance>>

DepositFees(amt) ==
    /\ fees + amt \in -MaxFees..MaxFees
    /\ fees' = fees + amt
    /\ UNCHANGED <<now, config, bond, liquidated, tokens, records, once, provenance>>

CollectFees(a, salt) ==
    /\ IsAdmin(a)
    /\ RecordKey(a, "collect_fees", salt)
    /\ fees' = 0
    /\ UNCHANGED <<now, config, bond, liquidated, tokens, records, provenance>>

(* Once the gates of module Drain are open: the pause, the delay, the       *)
(* recipient.  The pool is not asked what of it is anybody's stake.         *)
EmergencyDrain(a, amt) ==
    /\ IsAdmin(a) /\ amt > 0 /\ amt <= Payable
    /\ Draw(amt)
    /\ Credit(EmergencyTreasury, amt)
    /\ UNCHANGED <<now, config, bond, liquidated, records, fees, once, provenance>>

-----------------------------------------------------------------------------
(* Ledgers close.                                                           *)
Tick(step) ==
    /\ now + step <= MaxTime
    /\ now' = now + step
    /\ UNCHANGED <<config, bond, liquidated, tokens, records, fees, once, provenance>>

OwnerNext(o) ==
    \/ \E amt \in Amounts, d \in Durations, r \in BOOLEAN, n \in Notices :
          CreateBond(o, amt, d, r, n)
    \/ \E amt \in Amounts : TopUp(o, amt) \/ Withdraw(o, amt) \/ WithdrawEarly(o, amt)
    \/ \E d \in Durations : ExtendDuration(o, d)
    \/ RequestWithdrawal(o) \/ RenewIfRolling(o) \/ WithdrawBond(o)

AdminNext(a) ==
    \/ Initialize(a) \/ SetSlashTreasury(a) \/ Liquidate(a)
    \/ \E t \in Tokens : SetToken(a, t)
    \/ \E b \in Admins : TransferAdmin(a, b)
    \/ \E bps \in PenaltyRates : SetEarlyExitConfig(a, bps)
    \/ \E amt \in Amounts : Slash(a, amt) \/ EmergencyDrain(a, amt)
    \/ \E amt \in Amounts, salt \in Salts \cup {NoSalt} : SlashBond(a, amt, salt)
    \/ \E salt \in Salts \cup {NoSalt} : CollectFees(a, salt)

Next ==
    \/ \E o \in Owners : OwnerNext(o)
    \/ \E a \in Admins : AdminNext(a)
    \/ \E amt \in FeeDeposits : DepositFees(amt)
    \/ \E step \in Steps : Tick(step)

Spec == Init /\ [][Next]_vars

-----------------------------------------------------------------------------
(* Properties.                                                              *)

(* Every storage slot holds a value the code could have written there:      *)
(* amounts are integers, times are naturals, the bond is absent or a        *)
(* complete IdentityBond record.                                            *)
TypeOK ==
    /\ now \in Nat /\ admin \in Admins \cup {NoAdmin}
    /\ bond \in IdentityBond \cup {NoBond}
    /\ token \in Tokens \cup {NoToken} /\ slash_treasury \in BOOLEAN
    /\ backed \in BOOLEAN /\ raised \in Nat
    /\ exit_config \in PenaltyRates \cup {NoConfig}
    /\ liquidated \subseteq Owners
    /\ pool \in [Tokens -> Nat] /\ wallet \in [Accounts -> Nat]
    /\ history \in [Owners -> Seq([slash_amount : Nat, total_slashed_after : Nat])]
    /\ rewards \in [Admins -> Nat]
    /\ fees \in Int
    /\ keys \subseteq Admins \X Operations \X Salts
    /\ executions \in [Admins \X Operations \X Salts -> Nat]

(* I2 to I5 of docs/bond-invariants.md: after any sequence of entry points, *)
(* whatever amounts of either sign their callers pass, 0 <= slashed <=      *)
(* bonded, and only a rolling bond carries a withdrawal request.            *)
SelfConsistent ==
    bond # NoBond =>
        /\ 0 <= bond.slashed_amount /\ bond.slashed_amount <= bond.bonded_amount
        /\ bond.withdrawal_requested_at # 0 => bond.is_rolling

(* assert_self_consistent is defence in depth: for a non-negative amount    *)
(* that an entry point has accepted, the bond it is about to write is       *)
(* already consistent, so InvariantViolation is never what stops it.        *)
(* withdraw_bond is the exception, see FullySlashedCanExit.                 *)
DriftCheckIdle ==
    bond # NoBond =>
        \A amt \in Amounts : amt >= 0 =>
            /\ CanTopUp(bond.identity, amt) => Consistent(ToppedUp(amt))
            /\ CanWithdraw(bond.identity, amt) => Consistent(Reduced(amt))
            /\ CanWithdrawEarly(bond.identity, amt) => Consistent(Reduced(amt))
            /\ CanSlash(admin, amt) => Consistent(Slashed(amt))
            /\ CanSlashBond(admin, amt) => Consistent(SlashAdded(amt))

Holding == SumFunction(pool)
Stranded == Holding - Payable      \* in tokens that have been replaced
Drained == wallet[EmergencyTreasury]

(* A bond paid for in tokens is covered by the tokens the contract holds,   *)
(* through top-ups, partial exits, both slash paths, liquidation, changes   *)
(* of the token and the replacement of one bond by another: what is missing *)
(* has been drained, or is stake that a negative argument of withdraw or    *)
(* slash_bond has put on the books.                                         *)
Custody == bond # NoBond /\ backed => Available(bond) <= Holding + Drained + raised

(* Staking makes no identity richer than it started, by more than negative  *)
(* amounts have put on the books, although early exits are paid out of one  *)
(* pool that other identities have paid into.                               *)
NobodyProfits == \A o \in Owners : wallet[o] <= Endowment + raised

Recorded(o) == SumFunction([i \in DOMAIN history[o] |-> history[o][i].slash_amount])

(* What the slash treasury received is exactly what the slash records of    *)
(* all identities add up to: no seizure is unrecorded and no record is      *)
(* unpaid, although the dust clamp slashes more than is seized, slash_bond  *)
(* slashes and un-slashes beside the records, bonds are replaced, and the   *)
(* token and the pool are changed by the admin.                             *)
SeizuresRecorded == wallet[SlashTreasury] = SumFunction([o \in Owners |-> Recorded(o)])

(* Slashing rewards are a tenth of what was really seized, however much     *)
(* more the admin asked for and whoever held the admin role at the time.    *)
RewardsBounded ==
    10 * SumFunction(rewards) <= wallet[SlashTreasury]

(* At every moment the whole stake of a paid-for fixed bond passes the      *)
(* checks of exactly one of withdraw and withdraw_early, once the exit      *)
(* treasury is configured: both never do, at the end of the lock-up or by   *)
(* any extension, slash or renewal, and neither does only while the         *)
(* configured token is short, by no more than lies in replaced tokens, was  *)
(* drained, or was raised.  (What withdraw then pays: see WithdrawPays.)    *)
FixedStakeHasOneExit ==
    bond # NoBond /\ ~bond.is_rolling /\ backed /\ exit_config # NoConfig
        => LET all == Available(bond)
               short == all - Payable
           IN  \/ CanWithdraw(bond.identity, all) # CanWithdrawEarly(bond.identity, all)
               \/ /\ ~CanWithdraw(bond.identity, all) /\ ~CanWithdrawEarly(bond.identity, all)
                  /\ 0 < short /\ short <= Stranded + Drained + raised

(* A webhook retry that repeats a salt is executed at most once, however    *)
(* the other operation, other salts and admin changes interleave with it.   *)
AtMostOncePerKey == \A k \in Admins \X Operations \X Salts : executions[k] <= 1

Restaked ==
    \E o \in Owners, amt \in Amounts :
        \/ TopUp(o, amt)
        \/ \E d \in Durations, r \in BOOLEAN, n \in Notices : CreateBond(o, amt, d, r, n)

(* No step pays the owner of a fully slashed bond, and none but a new stake *)
(* or a negative amount makes anything recoverable again: further slashes,  *)
(* the dust clamp, renewal and liquidation never hand slashed stake back.   *)
FullySlashedUnpaid ==
    [][bond # NoBond /\ Available(bond) = 0
         => /\ wallet'[bond.identity] <= wallet[bond.identity]
            /\ Available(bond') > 0 => Restaked \/ raised' > raised]_vars

(* The charge of docs/early-exit.md, for any amount, without overflow.      *)
Formula(amt) ==
    IF bond.bond_duration = 0 THEN 0
    ELSE (((amt * exit_config) \div BpsDenominator) * (LockEnd(bond) - now)) \div bond.bond_duration

(* One of its two products does not fit, so that nothing is charged.        *)
Overflows(amt) ==
    \/ amt * exit_config > MaxAmount
    \/ ((amt * exit_config) \div BpsDenominator) * (LockEnd(bond) - now) > MaxAmount

(* Waiting never costs more than leaving now, except for an amount whose    *)
(* product overflows now and is charged nothing: it will fit later, and     *)
(* waiting does cost more then, by no more than the formula asks for now.   *)
WaitingNeverCostsMore ==
    [][bond # NoBond /\ bond' = bond /\ exit_config' = exit_config
         /\ exit_config # NoConfig /\ now' < LockEnd(bond)
         => \A amt \in Amounts : amt >= 0 =>
               PenaltyNow(amt)' <= IF Overflows(amt) THEN Formula(amt) ELSE PenaltyNow(amt)]_vars

(* The bond contract is an escrow with an emergency: the owner's            *)
(* recoverable claim grows only with tokens received or by what negative    *)
(* amounts raise, and tokens leave only against claim given up, but for     *)
(* those the emergency treasury receives.                                   *)
Claim == IF bond = NoBond THEN 0 ELSE Lesser(Available(bond), Holding)
E == INSTANCE Escrow WITH pool <- Holding, claim <- Claim, drained <- Drained, raised <- raised
ImplementsEscrow == E!EmergencySpec

-----------------------------------------------------------------------------
(* What the documentation says and the code does not do.                    *)

(* docs/withdrawal.md: "On successful withdrawal, USDC is transferred from  *)
(* the contract to the identity owner."                                     *)
WithdrawPays ==
    [][\A o \in Owners, amt \in Amounts :
         Withdraw(o, amt) => wallet'[o] = wallet[o] + amt]_vars

(* docs/bond-state-transitions.md: a fully slashed fixed bond may be closed *)
(* with withdraw_bond ("FixedFullySlashed --> Withdrawn").                  *)
FullySlashedCanExit ==
    bond # NoBond /\ bond.active /\ ~bond.is_rolling /\ FullySlashed(bond)
        => ENABLED WithdrawBond(bond.identity)

(* is_liquidated "returns `false` for identities whose bond was never       *)
(* created or whose bond is still active" (its doc comment).                *)
LiquidatedFlagCurrent ==
    bond # NoBond /\ bond.active => bond.identity \notin liquidated

(* initialize "Errors: ContractError::AlreadyInitialized if called more     *)
(* than once" (its doc comment).                                            *)
InitializedOnce == admin # NoAdmin => \A a \in Admins : ~ENABLED Initialize(a)

(* docs/early-exit.md: an arithmetic overflow is rejected, so an accepted   *)
(* exit always pays the penalty of the formula.                             *)
PenaltyNeverDropped ==
    bond # NoBond => \A amt \in Amounts :
        CanWithdrawEarly(bond.identity, amt) => PenaltyNow(amt) = Formula(amt)
=============================================================================
