----------------------------- MODULE BondProofs -----------------------------
(***************************************************************************)
(* Proofs about Bond, for every value of its constants, arguments of       *)
(* either sign included.                                                   *)
(*                                                                         *)
(* IInv, the storage types together with I2-I5, is inductive: balances     *)
(* stay non-negative only because the bond is consistent, so the two are   *)
(* proved together.  StepEffects then sorts every step by what it does to  *)
(* the stake and to the tokens; on it rest, in this order, custody and the *)
(* refinement of Escrow, the two exits of a fixed bond, and who can get    *)
(* what out.                                                               *)
(***************************************************************************)
EXTENDS Bond, Lemmas

IInv == TypeOK /\ SelfConsistent

(* A division by a positive number is an integer.                           *)
LEMMA QuotientType == \A x \in Int, d \in Nat \ {0} : x \div d \in Int
  OBVIOUS

USE SortsAssumption, AmountsAssumption, TimesAssumption, LimitsAssumption,
    RatesAssumption, NoBondAssumption

-----------------------------------------------------------------------------
(* Lemmas about the operators.                                              *)

(* A bond of the right shape is not the marker of an absent bond.           *)
LEMMA BondIsNotNoBond == \A b \in IdentityBond : b # NoBond
  OBVIOUS

(* The charge is an integer: every division has a positive divisor.         *)
LEMMA PenaltyType ==
  ASSUME NEW amt \in Int, NEW remaining \in Int, NEW duration \in Nat, NEW bps \in Nat
  PROVE  Penalty(amt, remaining, duration, bps) \in Int
<1>1. \A a, b \in Int : Product(a, b) \in Int
  BY DEF Product
<1>2. Product(amt, bps) \div BpsDenominator \in Int
  <2>1. Product(amt, bps) \in Int
    BY <1>1
  <2>2. BpsDenominator \in Nat \ {0}
    BY DEF BpsDenominator
  <2> QED
    BY <2>1, <2>2, QuotientType
<1>3. Product(Product(amt, bps) \div BpsDenominator, remaining) \in Int
  BY <1>1, <1>2
<1> QED
  BY <1>3 DEF Penalty

(* The contract holds a number of tokens, no fewer than of one kind.        *)
LEMMA HoldingType ==
  ASSUME pool \in [Tokens -> Nat]
  PROVE  Holding \in Nat /\ \A t \in Tokens : pool[t] <= Holding
  BY SumNat, SumCovers DEF Holding

(* The contract's balance in one token changes by x.                        *)
LEMMA PoolUpdate ==
  ASSUME pool \in [Tokens -> Nat], NEW t \in Tokens, NEW x \in Int, pool[t] + x \in Nat,
         pool' = [pool EXCEPT ![t] = pool[t] + x]
  PROVE  pool' \in [Tokens -> Nat] /\ Holding' = Holding + x
<1>1. /\ pool' \in [Tokens -> Nat] /\ pool'[t] = pool[t] + x
      /\ \A s \in Tokens \ {t} : pool'[s] = pool[s]
  OBVIOUS
<1>2. PICK w, v : w = pool /\ v = pool'
  OBVIOUS
<1>3. w \in [Tokens -> Int] /\ v \in [Tokens -> Int] /\ \A s \in Tokens \ {t} : v[s] = w[s]
  BY <1>1, <1>2
<1>4. SumFunction(v) = SumFunction(w) + v[t] - w[t] /\ SumFunction(w) \in Int
  BY ONLY <1>3, t \in Tokens, SortsAssumption, SumUpdate, SumInt
<1>5. w[t] \in Int /\ v[t] = w[t] + x
  BY <1>1, <1>2
<1>6. SumFunction(v) = SumFunction(w) + x
  BY ONLY <1>4, <1>5, x \in Int
<1> QED
  BY <1>1, <1>2, <1>6 DEF Holding

(* An account other than the contract is credited.                          *)
LEMMA CreditMoves ==
  ASSUME wallet \in [Accounts -> Nat], NEW h \in Accounts, NEW x \in Int,
         wallet[h] + x \in Nat, Credit(h, x)
  PROVE  /\ wallet' \in [Accounts -> Nat] /\ wallet'[h] = wallet[h] + x
         /\ \A k \in Accounts \ {h} : wallet'[k] = wallet[k]
  BY DEF Credit

LEMMA AccountsDiffer ==
  /\ Owners \subseteq Accounts /\ ExitTreasury \in Accounts
  /\ SlashTreasury \in Accounts /\ EmergencyTreasury \in Accounts
  /\ \A o \in Owners : o # ExitTreasury /\ o # SlashTreasury /\ o # EmergencyTreasury
  BY DEF Accounts, Treasuries

(* A pull moves nothing, or moves a non-negative amount the owner has.      *)
LEMMA PullMoves ==
  ASSUME TypeOK, NEW o \in Owners, NEW amt \in Int, CanPull(o, amt), Pull(o, amt)
  PROVE  /\ pool' \in [Tokens -> Nat] /\ wallet' \in [Accounts -> Nat]
         /\ \A h \in Accounts \ {o} : wallet'[h] = wallet[h]
         /\ \E x \in Nat : /\ x = IF token = NoToken THEN 0 ELSE amt
                           /\ Holding' = Holding + x
                           /\ wallet'[o] = wallet[o] - x
<1>0. /\ pool \in [Tokens -> Nat] /\ wallet \in [Accounts -> Nat]
      /\ o \in Accounts /\ token \in Tokens \cup {NoToken} /\ Holding \in Nat
  BY AccountsDiffer, HoldingType DEF TypeOK
<1>1. CASE token = NoToken
  <2>1. UNCHANGED <<pool, wallet>>
    BY <1>1 DEF Pull, tokens
  <2>2. Holding' = Holding + 0 /\ wallet'[o] = wallet[o] - 0
    BY <1>0, <2>1 DEF Holding
  <2> QED
    BY <1>0, <1>1, <2>1, <2>2
<1>2. CASE token # NoToken
  <2>1. amt \in Nat /\ amt <= wallet[o] /\ token \in Tokens
    BY <1>0, <1>2 DEF CanPull
  <2>2. pool' = [pool EXCEPT ![token] = pool[token] + amt] /\ Credit(o, -amt)
    BY <1>2 DEF Pull
  <2>3. pool[token] + amt \in Nat /\ wallet[o] + (-amt) \in Nat /\ wallet[o] + (-amt) = wallet[o] - amt
    BY <1>0, <2>1
  <2>4. pool' \in [Tokens -> Nat] /\ Holding' = Holding + amt
    BY <1>0, <2>1, <2>2, <2>3, PoolUpdate
  <2>5. /\ wallet' \in [Accounts -> Nat] /\ wallet'[o] = wallet[o] + (-amt)
        /\ \A k \in Accounts \ {o} : wallet'[k] = wallet[k]
    BY <1>0, <2>1, <2>2, <2>3, CreditMoves
  <2> QED
    BY <1>2, <2>1, <2>3, <2>4, <2>5
<1> QED
  BY <1>1, <1>2

(* The contract pays out what it has in the configured token.               *)
LEMMA DrawMoves ==
  ASSUME TypeOK, NEW amt \in Nat, amt > 0 => amt <= Payable, Draw(amt)
  PROVE  pool' \in [Tokens -> Nat] /\ Holding' = Holding - amt
<1>0. pool \in [Tokens -> Nat] /\ token \in Tokens \cup {NoToken} /\ Holding \in Nat
  BY HoldingType DEF TypeOK
<1>1. CASE amt = 0
  <2>1. pool' = pool
    BY <1>1 DEF Draw
  <2> QED
    BY <1>0, <1>1, <2>1 DEF Holding
<1>2. CASE amt # 0
  <2>1. token \in Tokens /\ amt <= pool[token]
    BY <1>0, <1>2 DEF Payable
  <2>2. pool[token] - amt = pool[token] + (-amt) /\ pool[token] + (-amt) \in Nat /\ -amt \in Int
    BY <1>0, <2>1
  <2>3. pool' = [pool EXCEPT ![token] = pool[token] + (-amt)]
    BY <1>2, <2>2 DEF Draw
  <2>4. pool' \in [Tokens -> Nat] /\ Holding' = Holding + (-amt)
    BY <1>0, <2>1, <2>2, <2>3, PoolUpdate
  <2> QED
    BY <1>0, <2>4
<1> QED
  BY <1>1, <1>2

(* An early exit the contract can pay for moves the net amount and the      *)
(* penalty out of it and nothing else: a non-positive amount that passes    *)
(* the guard is zero, and moves nothing.                                    *)
LEMMA PayEarlyMoves ==
  ASSUME TypeOK, NEW o \in Owners, NEW amt \in Int, CanWithdrawEarly(o, amt), PayEarly(o, amt)
  PROVE  /\ amt \in Nat /\ amt <= Available(bond)
         /\ pool' \in [Tokens -> Nat] /\ wallet' \in [Accounts -> Nat]
         /\ Holding' = Holding - amt
         /\ \E net \in 0 .. amt : wallet'[o] = wallet[o] + net
         /\ \A h \in Accounts \ {ExitTreasury, o} : wallet'[h] = wallet[h]
<1>1. bond \in IdentityBond /\ exit_config \in Nat
  <2>1. bond \in IdentityBond
    BY DEF TypeOK, CanWithdrawEarly, OwnedBy
  <2>2. exit_config \in PenaltyRates
    BY DEF TypeOK, CanWithdrawEarly
  <2> QED
    BY <2>1, <2>2 DEF BpsDenominator
<1>2. Lesser(LockEnd(bond), MaxTimestamp) - now \in Int /\ bond.bond_duration \in Nat
  BY <1>1 DEF TypeOK, IdentityBond, Lesser, LockEnd
<1>3. PenaltyNow(amt) \in Int
  BY <1>1, <1>2, PenaltyType DEF PenaltyNow
<1>4. PenaltyNow(amt) \in Nat /\ PenaltyNow(amt) <= amt /\ amt \in Nat
  BY <1>3 DEF CanWithdrawEarly
<1>5. amt <= Available(bond) /\ (amt > 0 => amt <= Payable)
  BY DEF CanWithdrawEarly
<1>6. pool' \in [Tokens -> Nat] /\ Holding' = Holding - amt
  BY <1>4, <1>5, DrawMoves DEF PayEarly
<1> DEFINE P == PenaltyNow(amt)
<1>7. /\ P \in Nat /\ amt - P \in 0 .. amt
      /\ wallet' = [wallet EXCEPT ![ExitTreasury] = @ + P, ![o] = @ + (amt - P)]
  BY <1>4 DEF PayEarly
<1> HIDE DEF P
<1>8. wallet \in [Accounts -> Nat] /\ o \in Accounts /\ ExitTreasury \in Accounts /\ o # ExitTreasury
  BY AccountsDiffer DEF TypeOK
<1>9. /\ wallet' \in [Accounts -> Nat] /\ wallet'[o] = wallet[o] + (amt - P)
      /\ \A h \in Accounts \ {ExitTreasury, o} : wallet'[h] = wallet[h]
  BY <1>7, <1>8
<1> QED
  BY <1>4, <1>5, <1>6, <1>7, <1>9

(* What a slash takes is a natural number the contract holds, and the total *)
(* it records stays within the bond; the dust clamp only rounds it up.      *)
LEMMA SlashType ==
  ASSUME IInv, NEW a \in Admins, NEW amt \in Int, CanSlash(a, amt)
  PROVE  /\ Taken(amt) \in Nat /\ (Taken(amt) > 0 => Taken(amt) <= Payable)
         /\ SlashedTotal(amt) \in Nat
         /\ bond.slashed_amount + Taken(amt) <= SlashedTotal(amt)
         /\ SlashedTotal(amt) <= bond.bonded_amount
         /\ Slashed(amt) \in IdentityBond
<1>1. /\ bond \in IdentityBond /\ amt >= 0 /\ bond # NoBond
      /\ bond.bonded_amount \in Int /\ bond.slashed_amount \in Nat
      /\ bond.slashed_amount <= bond.bonded_amount
  BY DEF IInv, TypeOK, SelfConsistent, CanSlash, IdentityBond
<1>2. Taken(amt) \in Nat /\ Taken(amt) <= Available(bond)
  BY <1>1 DEF Taken, Lesser, Available
<1>3. Taken(amt) > 0 => Taken(amt) <= Payable
  BY DEF CanSlash
<1>4. /\ SlashedTotal(amt) \in Nat /\ SlashedTotal(amt) <= bond.bonded_amount
      /\ bond.slashed_amount + Taken(amt) <= SlashedTotal(amt)
  BY <1>1, <1>2 DEF SlashedTotal, Available
<1>5. Slashed(amt) \in IdentityBond
  BY <1>1, <1>4 DEF Slashed, IdentityBond
<1> QED
  BY <1>2, <1>3, <1>4, <1>5

LEMMA SeizeMoves ==
  ASSUME IInv, NEW a \in Admins, NEW amt \in Int, CanSlash(a, amt), Seize(amt)
  PROVE  /\ pool' \in [Tokens -> Nat] /\ wallet' \in [Accounts -> Nat]
         /\ Holding' = Holding - Taken(amt)
         /\ wallet'[SlashTreasury] = wallet[SlashTreasury] + Taken(amt)
         /\ \A h \in Accounts \ {SlashTreasury} : wallet'[h] = wallet[h]
<1>1. Taken(amt) \in Nat /\ (Taken(amt) > 0 => Taken(amt) <= Payable)
  BY SlashType
<1>2. TypeOK /\ wallet \in [Accounts -> Nat] /\ SlashTreasury \in Accounts
  BY AccountsDiffer DEF IInv, TypeOK
<1>3. wallet[SlashTreasury] + Taken(amt) \in Nat
  BY <1>1, <1>2
<1>4. Draw(Taken(amt)) /\ Credit(SlashTreasury, Taken(amt))
  BY DEF Seize
<1>5. pool' \in [Tokens -> Nat] /\ Holding' = Holding - Taken(amt)
  BY <1>1, <1>2, <1>4, DrawMoves
<1> QED
  BY <1>1, <1>2, <1>3, <1>4, <1>5, CreditMoves

LEMMA DrainMoves ==
  ASSUME TypeOK, NEW a \in Admins, NEW amt \in Int, EmergencyDrain(a, amt)
  PROVE  /\ amt \in Nat \ {0}
         /\ pool' \in [Tokens -> Nat] /\ wallet' \in [Accounts -> Nat]
         /\ Holding' = Holding - amt /\ Drained' = Drained + amt
         /\ \A h \in Accounts \ {EmergencyTreasury} : wallet'[h] = wallet[h]
<1>1. /\ amt \in Nat \ {0} /\ amt <= Payable
      /\ Draw(amt) /\ Credit(EmergencyTreasury, amt)
  BY DEF EmergencyDrain
<1>2. wallet \in [Accounts -> Nat] /\ EmergencyTreasury \in Accounts
  BY AccountsDiffer DEF TypeOK
<1>3. wallet[EmergencyTreasury] + amt \in Nat
  BY <1>1, <1>2
<1>4. pool' \in [Tokens -> Nat] /\ Holding' = Holding - amt
  BY <1>1, DrawMoves
<1> QED
  BY <1>1, <1>2, <1>3, <1>4, CreditMoves DEF Drained

(* A negative argument raises the stake, by no more than it says.           *)
LEMMA RaiseType ==
  ASSUME raised \in Nat, NEW amt \in Int, Raise(-amt)
  PROVE  /\ raised' \in Nat
         /\ amt >= 0 => raised' = raised
         /\ amt < 0 => raised' = raised - amt
  BY DEF Raise

(* An entry point that writes only the bond and commits it keeps IInv, if   *)
(* what it writes has the right shape and I3.                               *)
LEMMA CommitKeepsIInv ==
  ASSUME IInv, NEW b \in IdentityBond, Commit(b),
         b.withdrawal_requested_at # 0 => b.is_rolling,
         now' = now, UNCHANGED config, liquidated' \subseteq Owners,
         pool' \in [Tokens -> Nat], wallet' \in [Accounts -> Nat],
         backed' \in BOOLEAN, raised' \in Nat,
         history' \in [Owners -> Seq([slash_amount : Nat, total_slashed_after : Nat])],
         rewards' \in [Admins -> Nat], fees' = fees,
         keys' \subseteq Admins \X Operations \X Salts,
         executions' \in [Admins \X Operations \X Salts -> Nat]
  PROVE  IInv'
<1>1. TypeOK'
  BY DEF IInv, TypeOK, Commit, config
<1>2. SelfConsistent'
  BY DEF SelfConsistent, Commit, Consistent
<1> QED
  BY <1>1, <1>2 DEF IInv

(* The record of a key keeps the types of the idempotency store.            *)
LEMMA RecordKeyType ==
  ASSUME TypeOK, NEW a \in Admins, NEW op \in Operations, NEW salt \in Salts \cup {NoSalt},
         RecordKey(a, op, salt)
  PROVE  /\ keys' \subseteq Admins \X Operations \X Salts
         /\ executions' \in [Admins \X Operations \X Salts -> Nat]
<1>1. CASE salt = NoSalt
  BY <1>1 DEF RecordKey, once, TypeOK
<1>2. CASE salt # NoSalt
  <2>1. <<a, op, salt>> \in Admins \X Operations \X Salts
    BY <1>2
  <2> DEFINE k == <<a, op, salt>>
  <2>2. keys' = keys \cup {k} /\ executions' = [executions EXCEPT ![k] = @ + 1]
    BY <1>2 DEF RecordKey
  <2> HIDE DEF k
  <2>3. k \in Admins \X Operations \X Salts
    BY <2>1 DEF k
  <2> QED
    BY <2>2, <2>3 DEF TypeOK
<1> QED
  BY <1>1, <1>2

LEMMA InitIInv == Init => IInv
<1> SUFFICES ASSUME Init PROVE IInv
  OBVIOUS
<1>1. pool \in [Tokens -> Nat] /\ wallet \in [Accounts -> Nat]
  BY DEF Init
<1>2. history \in [Owners -> Seq([slash_amount : Nat, total_slashed_after : Nat])]
  BY DEF Init
<1>3. executions \in [Admins \X Operations \X Salts -> Nat]
  BY DEF Init
<1>4. rewards \in [Admins -> Nat] /\ fees \in Int /\ keys = {} /\ liquidated = {}
  BY DEF Init
<1>5. TypeOK
  BY <1>1, <1>2, <1>3, <1>4 DEF Init, TypeOK
<1>6. SelfConsistent
  BY DEF Init, SelfConsistent
<1> QED
  BY <1>5, <1>6 DEF IInv

(* The owner's entry points.                                                *)
LEMMA OwnerNextIInv ==
  ASSUME IInv, NEW o \in Owners, OwnerNext(o)
  PROVE  IInv'
<1> USE DEF IInv
<1>0. /\ bond # NoBond => bond \in IdentityBond
      /\ pool \in [Tokens -> Nat] /\ wallet \in [Accounts -> Nat]
      /\ backed \in BOOLEAN /\ (token # NoToken) \in BOOLEAN
      /\ raised \in Nat /\ liquidated \subseteq Owners
      /\ history \in [Owners -> Seq([slash_amount : Nat, total_slashed_after : Nat])]
      /\ rewards \in [Admins -> Nat] /\ now \in Nat
      /\ keys \subseteq Admins \X Operations \X Salts
      /\ executions \in [Admins \X Operations \X Salts -> Nat]
  BY DEF TypeOK
<1>1. ASSUME NEW amt \in Amounts, NEW d \in Durations, NEW r \in BOOLEAN,
             NEW n \in Notices, CreateBond(o, amt, d, r, n)
      PROVE  IInv'
  <2> DEFINE b == [identity |-> o, bonded_amount |-> amt, bond_start |-> now,
                   bond_duration |-> d, slashed_amount |-> 0, active |-> TRUE,
                   is_rolling |-> r, withdrawal_requested_at |-> 0,
                   notice_period_duration |-> n]
  <2>1. b \in IdentityBond /\ amt \in Int
    BY <1>0 DEF IdentityBond
  <2>2. pool' \in [Tokens -> Nat] /\ wallet' \in [Accounts -> Nat]
    BY <1>1, <2>1, PullMoves DEF CreateBond
  <2>3. backed' \in BOOLEAN /\ raised' = raised
    BY <1>1 DEF CreateBond
  <2> QED
    BY <1>0, <1>1, <2>1, <2>2, <2>3, CommitKeepsIInv DEF CreateBond, records, once
<1>2. ASSUME NEW amt \in Amounts, TopUp(o, amt)
      PROVE  IInv'
  <2>1. bond # NoBond /\ bond \in IdentityBond /\ amt \in Int
    BY <1>0, <1>2 DEF TopUp, CanTopUp, OwnedBy
  <2>2. ToppedUp(amt) \in IdentityBond
        /\ (ToppedUp(amt).withdrawal_requested_at # 0 => ToppedUp(amt).is_rolling)
    BY <2>1 DEF ToppedUp, IdentityBond, SelfConsistent
  <2>3. pool' \in [Tokens -> Nat] /\ wallet' \in [Accounts -> Nat]
    BY <1>2, <2>1, PullMoves DEF TopUp, CanTopUp
  <2> QED
    BY <1>0, <1>2, <2>2, <2>3, CommitKeepsIInv DEF TopUp, records, once, provenance
<1>3. ASSUME NEW amt \in Amounts, OwnedBy(o), Commit(Reduced(amt)),
             pool' \in [Tokens -> Nat], wallet' \in [Accounts -> Nat], raised' \in Nat,
             UNCHANGED <<now, config, liquidated, records, fees, once, backed>>
      PROVE  IInv'
  <2>1. bond # NoBond /\ bond \in IdentityBond /\ amt \in Int
    BY <1>0, <1>3 DEF OwnedBy
  <2>2. Reduced(amt) \in IdentityBond
        /\ (Reduced(amt).withdrawal_requested_at # 0 => Reduced(amt).is_rolling)
    BY <2>1 DEF Reduced, IdentityBond, SelfConsistent
  <2> QED
    BY <1>0, <1>3, <2>2, CommitKeepsIInv DEF records, once
<1>4. ASSUME NEW amt \in Amounts, Withdraw(o, amt)
      PROVE  IInv'
  <2>1. raised' \in Nat
    BY <1>0, <1>4, RaiseType DEF Withdraw
  <2> QED
    BY <1>0, <1>3, <1>4, <2>1 DEF Withdraw, CanWithdraw, tokens
<1>5. ASSUME NEW amt \in Amounts, WithdrawEarly(o, amt)
      PROVE  IInv'
  <2>1. pool' \in [Tokens -> Nat] /\ wallet' \in [Accounts -> Nat]
    BY <1>5, PayEarlyMoves DEF WithdrawEarly
  <2> QED
    BY <1>0, <1>3, <1>5, <2>1 DEF WithdrawEarly, CanWithdrawEarly, provenance
<1>6. ASSUME NEW b \in IdentityBond, OwnedBy(o), Commit(b),
             b.withdrawal_requested_at # 0 => b.is_rolling,
             UNCHANGED <<now, config, liquidated, tokens, records, fees, once, provenance>>
      PROVE  IInv'
  BY <1>0, <1>6, CommitKeepsIInv DEF records, once, tokens, provenance
<1>7. ASSUME NEW d \in Durations, ExtendDuration(o, d)
      PROVE  IInv'
  <2> DEFINE b == [bond EXCEPT !.bond_duration = @ + d]
  <2>1. bond # NoBond /\ bond \in IdentityBond /\ OwnedBy(o) /\ d \in Nat
    BY <1>0, <1>7 DEF ExtendDuration, OwnedBy
  <2>2. b \in IdentityBond
    BY <2>1 DEF IdentityBond
  <2>3. b.withdrawal_requested_at # 0 => b.is_rolling
    BY <2>1 DEF IdentityBond, SelfConsistent
  <2> QED
    BY <1>6, <1>7, <2>1, <2>2, <2>3 DEF ExtendDuration
<1>8. ASSUME RequestWithdrawal(o)
      PROVE  IInv'
  <2> DEFINE b == [bond EXCEPT !.withdrawal_requested_at = now]
  <2>1. b \in IdentityBond /\ (b.withdrawal_requested_at # 0 => b.is_rolling)
    BY <1>0, <1>8 DEF RequestWithdrawal, OwnedBy, IdentityBond
  <2> QED
    BY <1>6, <1>8, <2>1 DEF RequestWithdrawal
<1>9. ASSUME RenewIfRolling(o)
      PROVE  IInv'
  <2> DEFINE b == [bond EXCEPT !.bond_start = now, !.withdrawal_requested_at = 0]
  <2>1. b \in IdentityBond /\ (b.withdrawal_requested_at # 0 => b.is_rolling)
    BY <1>0, <1>9 DEF RenewIfRolling, OwnedBy, IdentityBond
  <2> QED
    BY <1>6, <1>9, <2>1 DEF RenewIfRolling
<1>10. ASSUME WithdrawBond(o)
       PROVE  IInv'
  <2> DEFINE b == [bond EXCEPT !.bonded_amount = 0, !.active = FALSE]
  <2>1. bond # NoBond /\ bond \in IdentityBond /\ OwnedBy(o)
    BY <1>0, <1>10 DEF WithdrawBond, OwnedBy
  <2>2. b \in IdentityBond
    <3> DEFINE c == [bond EXCEPT !.bonded_amount = 0]
    <3>1. c \in IdentityBond
      BY <2>1 DEF IdentityBond
    <3>2. b = [c EXCEPT !.active = FALSE]
      BY <2>1 DEF IdentityBond
    <3> HIDE DEF b, c
    <3> QED
      BY <3>1, <3>2 DEF IdentityBond
  <2>3. b.withdrawal_requested_at # 0 => b.is_rolling
    BY <2>1 DEF IdentityBond, SelfConsistent
  <2> QED
    BY <1>6, <1>10, <2>1, <2>2, <2>3 DEF WithdrawBond
<1> QED
  BY <1>1, <1>2, <1>4, <1>5, <1>7, <1>8, <1>9, <1>10 DEF OwnerNext

(* The admin's entry points.                                                *)
LEMMA AdminNextIInv ==
  ASSUME IInv, NEW a \in Admins, AdminNext(a)
  PROVE  IInv'
<1> USE DEF IInv
<1>0. /\ bond # NoBond => bond \in IdentityBond
      /\ pool \in [Tokens -> Nat] /\ wallet \in [Accounts -> Nat]
      /\ backed \in BOOLEAN /\ raised \in Nat
      /\ liquidated \subseteq Owners
      /\ history \in [Owners -> Seq([slash_amount : Nat, total_slashed_after : Nat])]
      /\ rewards \in [Admins -> Nat]
      /\ keys \subseteq Admins \X Operations \X Salts
      /\ executions \in [Admins \X Operations \X Salts -> Nat]
  BY DEF TypeOK
<1>1. ASSUME Initialize(a) \/ \E b \in Admins : TransferAdmin(a, b)
      PROVE  IInv'
  <2>1. admin' \in Admins
    BY <1>1 DEF Initialize, TransferAdmin
  <2>2. UNCHANGED <<now, token, exit_config, slash_treasury, bond, liquidated,
                    tokens, records, fees, once, provenance>>
    BY <1>1 DEF Initialize, TransferAdmin
  <2> QED
    BY <2>1, <2>2 DEF TypeOK, SelfConsistent, records, once, tokens, provenance
<1>2. ASSUME SetSlashTreasury(a) \/ \E t \in Tokens : SetToken(a, t)
      PROVE  IInv'
  BY <1>2 DEF SetToken, SetSlashTreasury, TypeOK, SelfConsistent, records, once, tokens, provenance
<1>3. ASSUME NEW bps \in PenaltyRates, SetEarlyExitConfig(a, bps)
      PROVE  IInv'
  BY <1>3 DEF SetEarlyExitConfig, TypeOK, SelfConsistent, records, once, tokens, provenance
<1>4. ASSUME Liquidate(a)
      PROVE  IInv'
  <2> DEFINE b == [bond EXCEPT !.active = FALSE]
  <2>1. bond # NoBond /\ bond \in IdentityBond
    BY <1>0, <1>4 DEF Liquidate, CanLiquidate
  <2>2. b \in IdentityBond /\ bond.identity \in Owners
    BY <2>1 DEF IdentityBond
  <2>3. b.withdrawal_requested_at # 0 => b.is_rolling
    BY <2>1 DEF IdentityBond, SelfConsistent
  <2> QED
    BY <1>0, <1>4, <2>2, <2>3, CommitKeepsIInv DEF Liquidate, records, once, tokens, provenance
<1>5. ASSUME NEW amt \in Amounts, Slash(a, amt)
      PROVE  IInv'
  <2>1. CanSlash(a, amt) /\ bond # NoBond /\ bond \in IdentityBond /\ amt \in Int
    BY <1>0, <1>5 DEF Slash, CanSlash
  <2>2. /\ Taken(amt) \in Nat /\ SlashedTotal(amt) \in Nat
        /\ Slashed(amt) \in IdentityBond
        /\ pool' \in [Tokens -> Nat] /\ wallet' \in [Accounts -> Nat]
    BY <1>5, <2>1, SlashType, SeizeMoves DEF Slash
  <2>3. Slashed(amt).withdrawal_requested_at # 0 => Slashed(amt).is_rolling
    BY <2>1 DEF Slashed, IdentityBond, SelfConsistent
  <2>4. history' \in [Owners -> Seq([slash_amount : Nat, total_slashed_after : Nat])]
    <3>1. bond.identity \in Owners
      BY <2>1 DEF IdentityBond
    <3>2. [slash_amount |-> Taken(amt), total_slashed_after |-> SlashedTotal(amt)]
            \in [slash_amount : Nat, total_slashed_after : Nat]
      BY <2>2
    <3> DEFINE s == Append(history[bond.identity],
                           [slash_amount |-> Taken(amt), total_slashed_after |-> SlashedTotal(amt)])
    <3>3. s \in Seq([slash_amount : Nat, total_slashed_after : Nat])
      BY <1>0, <3>1, <3>2
    <3>4. history' = [history EXCEPT ![bond.identity] = s]
      BY <1>5 DEF Slash
    <3> HIDE DEF s
    <3> QED
      BY <1>0, <3>3, <3>4
  <2>5. rewards' \in [Admins -> Nat]
    <3>1. Reward(amt) \in Nat
      BY <2>2 DEF Reward
    <3> QED
      BY <1>0, <1>5, <3>1 DEF Slash
  <2> QED
    BY <1>0, <1>5, <2>2, <2>3, <2>4, <2>5, CommitKeepsIInv DEF Slash, once, provenance
<1>6. ASSUME NEW amt \in Amounts, NEW salt \in Salts \cup {NoSalt}, SlashBond(a, amt, salt)
      PROVE  IInv'
  <2>1. bond # NoBond /\ bond \in IdentityBond /\ amt \in Int
    BY <1>0, <1>6 DEF SlashBond, CanSlashBond
  <2>2. SlashAdded(amt) \in IdentityBond
    BY <2>1 DEF SlashAdded, IdentityBond
  <2>3. SlashAdded(amt).withdrawal_requested_at # 0 => SlashAdded(amt).is_rolling
    BY <2>1 DEF SlashAdded, IdentityBond, SelfConsistent
  <2>4. /\ keys' \subseteq Admins \X Operations \X Salts
        /\ executions' \in [Admins \X Operations \X Salts -> Nat]
    BY <1>6, RecordKeyType DEF SlashBond, Operations
  <2>5. raised' \in Nat
    BY <1>0, <1>6, <2>1, RaiseType DEF SlashBond
  <2> QED
    BY <1>0, <1>6, <2>2, <2>3, <2>4, <2>5, CommitKeepsIInv DEF SlashBond, records, tokens
<1>7. ASSUME NEW salt \in Salts \cup {NoSalt}, CollectFees(a, salt)
      PROVE  IInv'
  <2>1. /\ keys' \subseteq Admins \X Operations \X Salts
        /\ executions' \in [Admins \X Operations \X Salts -> Nat]
    BY <1>7, RecordKeyType DEF CollectFees, Operations
  <2> QED
    BY <1>7, <2>1 DEF CollectFees, TypeOK, SelfConsistent, config, records, tokens, provenance
<1>8. ASSUME NEW amt \in Amounts, EmergencyDrain(a, amt)
      PROVE  IInv'
  <2>1. pool' \in [Tokens -> Nat] /\ wallet' \in [Accounts -> Nat]
    BY <1>8, DrainMoves
  <2> QED
    BY <1>8, <2>1 DEF EmergencyDrain, TypeOK, SelfConsistent, config, records, once, provenance
<1> QED
  BY <1>1, <1>2, <1>3, <1>4, <1>5, <1>6, <1>7, <1>8 DEF AdminNext

(* IInv is inductive.                                                       *)
LEMMA NextIInv == IInv /\ [Next]_vars => IInv'
<1> SUFFICES ASSUME IInv, [Next]_vars PROVE IInv'
  OBVIOUS
<1>1. CASE \E o \in Owners : OwnerNext(o)
  BY <1>1, OwnerNextIInv
<1>2. CASE \E a \in Admins : AdminNext(a)
  BY <1>2, AdminNextIInv
<1>3. CASE \E amt \in FeeDeposits : DepositFees(amt)
  BY <1>3 DEF DepositFees, IInv, TypeOK, SelfConsistent, config, records, once, tokens, provenance
<1>4. ASSUME NEW step \in Steps, Tick(step)
      PROVE  IInv'
  BY <1>4 DEF Tick, IInv, TypeOK, SelfConsistent, config, records, once, tokens, provenance
<1>5. CASE UNCHANGED vars
  BY <1>5 DEF vars, IInv, TypeOK, SelfConsistent, config, records, once, tokens, provenance
<1> QED
  BY <1>1, <1>2, <1>3, <1>4, <1>5 DEF Next

-----------------------------------------------------------------------------
(* Every storage slot keeps its type: no balance, reward, record or time of *)
(* credence_bond ever leaves its range.                                     *)
THEOREM TypeCorrect == Spec => []TypeOK
<1>1. IInv => TypeOK
  BY DEF IInv
<1> QED
  BY InitIInv, NextIInv, <1>1, PTL DEF Spec

(* I2 to I5: whatever callers pass, 0 <= slashed <= bonded after every      *)
(* entry point, and only rolling bonds carry a withdrawal request.          *)
THEOREM Consistency == Spec => []SelfConsistent
<1>1. IInv => SelfConsistent
  BY DEF IInv
<1> QED
  BY InitIInv, NextIInv, <1>1, PTL DEF Spec

-----------------------------------------------------------------------------
(* What a step does to the stake and to the tokens.                         *)

(* A new bond, or more of an old one: tokens come in as far as a token is   *)
(* configured, all of them the owner's.                                     *)
Stakes ==
  \E o \in Owners, amt \in Int, x \in Nat :
    /\ Restaked /\ bond' # NoBond /\ bond'.identity = o
    /\ x = IF token = NoToken THEN 0 ELSE amt
    /\ Holding' = Holding + x
    /\ wallet'[o] = wallet[o] - x
    /\ \A h \in Accounts \ {o} : wallet'[h] = wallet[h]
    /\ UNCHANGED <<token, raised>>
    /\ \/ Available(bond') = amt /\ backed' = (token # NoToken)
       \/ /\ bond # NoBond /\ bond.identity = o /\ backed' = backed
          /\ Available(bond') = Available(bond) + amt

(* The same bond with at most as much available as before, less what leaves *)
(* the pool; the owner gets no more than that.                              *)
Releases ==
  \E x \in Nat : \E net \in 0 .. x :
    /\ bond # NoBond /\ bond' # NoBond /\ bond'.identity = bond.identity
    /\ Available(bond') <= Available(bond) - x
    /\ Holding' = Holding - x
    /\ wallet'[bond.identity] = wallet[bond.identity] + net
    /\ \A h \in (Owners \cup {EmergencyTreasury}) \ {bond.identity} : wallet'[h] = wallet[h]
    /\ UNCHANGED <<token, backed, raised>>

(* The same bond with more available, by a negative argument.               *)
Raises ==
  \E x \in Nat \ {0} :
    /\ bond # NoBond /\ bond' # NoBond /\ bond'.identity = bond.identity
    /\ Available(bond') <= Available(bond) + x /\ Available(bond) <= Available(bond')
    /\ raised' = raised + x
    /\ UNCHANGED <<token, backed, tokens>>

(* Tokens leave the pool for the emergency treasury.                        *)
Drains ==
  \E x \in Nat \ {0} :
    /\ Holding' = Holding - x /\ Drained' = Drained + x
    /\ \A o \in Owners : wallet'[o] = wallet[o]
    /\ UNCHANGED <<bond, token, backed, raised>>

(* Neither changes; a token that is configured may be replaced.             *)
Idles == UNCHANGED <<bond, tokens, provenance>> /\ (token' = NoToken => token = NoToken)

StepEffect == Stakes \/ Releases \/ Raises \/ Drains \/ Idles

LEMMA BondType ==
  ASSUME IInv, bond # NoBond
  PROVE  /\ bond \in IdentityBond /\ bond.identity \in Owners
         /\ bond.bonded_amount \in Nat /\ bond.slashed_amount \in Nat
         /\ bond.slashed_amount <= bond.bonded_amount
         /\ Available(bond) \in Nat
  BY DEF IInv, TypeOK, SelfConsistent, IdentityBond, Available

LEMMA PoolType ==
  ASSUME IInv
  PROVE  /\ Holding \in Nat /\ Drained \in Nat /\ raised \in Nat
         /\ \A h \in Accounts : wallet[h] \in Nat
         /\ token \in Tokens \cup {NoToken} /\ backed \in BOOLEAN
         /\ Owners \subseteq Accounts /\ EmergencyTreasury \in Accounts
         /\ EmergencyTreasury \notin Owners
  BY HoldingType, AccountsDiffer DEF IInv, TypeOK, Drained

(* The same bond, with the stake between the old one and x more; no token   *)
(* moves.                                                                   *)
LEMMA QuietStep ==
  ASSUME IInv, bond # NoBond, NEW b \in IdentityBond, bond' = b,
         b.identity = bond.identity, Available(b) <= Available(bond),
         UNCHANGED <<token, tokens, provenance>>
  PROVE  StepEffect
<1>1. bond' # NoBond /\ bond'.identity = bond.identity
  BY BondIsNotNoBond
<1>2. /\ Available(bond) \in Nat /\ Holding \in Nat /\ bond.identity \in Owners
      /\ wallet[bond.identity] \in Nat
  BY BondType, PoolType
<1>3. Available(b) \in Int
  BY DEF IdentityBond, Available
<1>4. Available(bond') <= Available(bond) - 0
  BY <1>2, <1>3
<1>5. Holding' = Holding - 0 /\ wallet'[bond.identity] = wallet[bond.identity] + 0
  BY <1>2 DEF tokens, Holding
<1>6. /\ \A h \in (Owners \cup {EmergencyTreasury}) \ {bond.identity} : wallet'[h] = wallet[h]
      /\ UNCHANGED <<token, backed, raised>>
  BY DEF tokens, provenance
<1>7. 0 \in Nat /\ 0 \in 0 .. 0
  OBVIOUS
<1>8. Releases
  BY <1>1, <1>4, <1>5, <1>6, <1>7 DEF Releases
<1> QED
  BY <1>8 DEF StepEffect

(* withdraw and slash_bond: an argument of either sign is taken off what is *)
(* available.                                                               *)
LEMMA SignedStep ==
  ASSUME IInv, bond # NoBond, NEW b \in IdentityBond, bond' = b, NEW amt \in Int,
         b.identity = bond.identity, Available(b) = Available(bond) - amt,
         Raise(-amt), UNCHANGED <<token, tokens, backed>>
  PROVE  StepEffect
<1>0. Available(bond) \in Nat /\ raised \in Nat
  BY BondType, PoolType
<1>1. CASE amt >= 0
  <2>1. raised' = raised
    BY <1>0, <1>1, RaiseType
  <2>2. Available(b) <= Available(bond)
    BY <1>0, <1>1
  <2> QED
    BY <2>1, <2>2, QuietStep DEF provenance
<1>2. CASE amt < 0
  <2>1. raised' = raised + (-amt) /\ -amt \in Nat \ {0}
    BY <1>0, <1>2, RaiseType
  <2>2. /\ Available(bond') <= Available(bond) + (-amt)
        /\ Available(bond) <= Available(bond')
    BY <1>0, <1>2
  <2>3. bond' # NoBond
    BY BondIsNotNoBond
  <2>4. Raises
    BY <2>1, <2>2, <2>3 DEF Raises
  <2> QED
    BY <2>4 DEF StepEffect
<1> QED
  BY <1>1, <1>2

LEMMA CreateBondEffect ==
  ASSUME IInv, NEW o \in Owners, NEW amt \in Amounts, NEW d \in Durations,
         NEW r \in BOOLEAN, NEW n \in Notices, CreateBond(o, amt, d, r, n)
  PROVE  StepEffect
<1> DEFINE b == [identity |-> o, bonded_amount |-> amt, bond_start |-> now,
                 bond_duration |-> d, slashed_amount |-> 0, active |-> TRUE,
                 is_rolling |-> r, withdrawal_requested_at |-> 0,
                 notice_period_duration |-> n]
<1>1. b \in IdentityBond /\ amt \in Int
  BY DEF IInv, TypeOK, IdentityBond
<1>2. bond' = b /\ UNCHANGED <<token, raised>> /\ backed' = (token # NoToken)
  BY DEF CreateBond, Commit, config
<1>3. b.identity = o /\ Available(b) = amt
  BY <1>1 DEF Available
<1> HIDE DEF b
<1>4. bond' # NoBond /\ bond'.identity = o /\ Available(bond') = amt
  BY <1>1, <1>2, <1>3, BondIsNotNoBond
<1>5. Restaked
  BY DEF Restaked
<1>6. CanPull(o, amt) /\ Pull(o, amt)
  BY DEF CreateBond
<1>7. PICK x \in Nat : /\ x = IF token = NoToken THEN 0 ELSE amt
                       /\ Holding' = Holding + x
                       /\ wallet'[o] = wallet[o] - x
  BY <1>1, <1>6, PullMoves DEF IInv
<1>8. \A h \in Accounts \ {o} : wallet'[h] = wallet[h]
  BY <1>1, <1>6, PullMoves DEF IInv
<1>9. Stakes
  BY <1>1, <1>2, <1>4, <1>5, <1>7, <1>8 DEF Stakes
<1> QED
  BY <1>9 DEF StepEffect

LEMMA TopUpEffect ==
  ASSUME IInv, NEW o \in Owners, NEW amt \in Amounts, TopUp(o, amt)
  PROVE  StepEffect
<1>1. /\ bond # NoBond /\ bond \in IdentityBond /\ bond.identity = o
      /\ amt \in Int /\ bond' = ToppedUp(amt) /\ UNCHANGED <<token, backed, raised>>
  BY BondType DEF TopUp, CanTopUp, OwnedBy, Commit, config, provenance
<1>2. /\ ToppedUp(amt) \in IdentityBond /\ ToppedUp(amt).identity = o
      /\ Available(ToppedUp(amt)) = Available(bond) + amt
  BY <1>1 DEF ToppedUp, IdentityBond, Available
<1>3. /\ bond' # NoBond /\ bond'.identity = o
      /\ Available(bond') = Available(bond) + amt
  BY <1>1, <1>2, BondIsNotNoBond
<1>4. Restaked
  BY DEF Restaked
<1>5. CanPull(o, amt) /\ Pull(o, amt)
  BY DEF TopUp, CanTopUp
<1>6. PICK x \in Nat : /\ x = IF token = NoToken THEN 0 ELSE amt
                       /\ Holding' = Holding + x
                       /\ wallet'[o] = wallet[o] - x
  BY <1>1, <1>5, PullMoves DEF IInv
<1>7. \A h \in Accounts \ {o} : wallet'[h] = wallet[h]
  BY <1>1, <1>5, PullMoves DEF IInv
<1>8. Stakes
  BY <1>1, <1>3, <1>4, <1>6, <1>7 DEF Stakes
<1> QED
  BY <1>8 DEF StepEffect

LEMMA WithdrawEarlyEffect ==
  ASSUME IInv, NEW o \in Owners, NEW amt \in Amounts, WithdrawEarly(o, amt)
  PROVE  StepEffect
<1>1. /\ bond # NoBond /\ bond \in IdentityBond /\ bond.identity = o
      /\ amt \in Int /\ bond' = Reduced(amt) /\ UNCHANGED <<token, backed, raised>>
      /\ CanWithdrawEarly(o, amt) /\ PayEarly(o, amt) /\ TypeOK
  BY BondType DEF WithdrawEarly, CanWithdrawEarly, OwnedBy, Commit, config, provenance, IInv
<1>2. /\ amt \in Nat /\ Holding' = Holding - amt
      /\ \A h \in Accounts \ {ExitTreasury, o} : wallet'[h] = wallet[h]
  BY <1>1, PayEarlyMoves
<1>3. PICK net \in 0 .. amt : wallet'[o] = wallet[o] + net
  BY <1>1, PayEarlyMoves
<1>4. /\ Reduced(amt) \in IdentityBond /\ Reduced(amt).identity = o
      /\ Available(Reduced(amt)) = Available(bond) - amt
  BY <1>1 DEF Reduced, IdentityBond, Available
<1>5. /\ bond' # NoBond /\ bond'.identity = bond.identity
      /\ Available(bond') <= Available(bond) - amt
  <2>1. Available(bond) - amt \in Int
    BY <1>1, BondType
  <2> QED
    BY <1>1, <1>4, <2>1, BondIsNotNoBond
<1>6. \A h \in (Owners \cup {EmergencyTreasury}) \ {bond.identity} : wallet'[h] = wallet[h]
  BY <1>1, <1>2, AccountsDiffer
<1>7. Releases
  BY <1>1, <1>2, <1>3, <1>5, <1>6 DEF Releases
<1> QED
  BY <1>7 DEF StepEffect

LEMMA SlashEffect ==
  ASSUME IInv, NEW a \in Admins, NEW amt \in Amounts, Slash(a, amt)
  PROVE  StepEffect
<1>1. /\ bond # NoBond /\ amt \in Int /\ CanSlash(a, amt) /\ Seize(amt)
      /\ bond' = Slashed(amt) /\ UNCHANGED <<token, backed, raised>>
  BY DEF Slash, CanSlash, Commit, config, provenance
<1>2. /\ Taken(amt) \in Nat /\ SlashedTotal(amt) \in Nat
      /\ bond.slashed_amount + Taken(amt) <= SlashedTotal(amt)
      /\ Slashed(amt) \in IdentityBond
  BY <1>1, SlashType
<1>3. /\ Holding' = Holding - Taken(amt)
      /\ \A h \in Accounts \ {SlashTreasury} : wallet'[h] = wallet[h]
  BY <1>1, SeizeMoves
<1>4. /\ bond.identity \in Owners /\ bond \in IdentityBond
      /\ bond.bonded_amount \in Nat /\ bond.slashed_amount \in Nat
  BY <1>1, BondType
<1>5. /\ Slashed(amt).identity = bond.identity
      /\ Slashed(amt).bonded_amount = bond.bonded_amount
      /\ Slashed(amt).slashed_amount = SlashedTotal(amt)
  BY <1>4 DEF Slashed, IdentityBond
<1>6. /\ bond' # NoBond /\ bond'.identity = bond.identity
      /\ Available(bond') <= Available(bond) - Taken(amt)
  BY <1>1, <1>2, <1>4, <1>5, BondIsNotNoBond DEF Available
<1>7. /\ \A h \in (Owners \cup {EmergencyTreasury}) \ {bond.identity} : wallet'[h] = wallet[h]
      /\ wallet'[bond.identity] = wallet[bond.identity] + 0
  <2>1. /\ wallet[bond.identity] \in Nat /\ EmergencyTreasury \in Accounts
        /\ Owners \subseteq Accounts
    BY <1>4, PoolType
  <2> QED
    BY <1>3, <1>4, <2>1, AccountsDiffer
<1>8. 0 \in 0 .. Taken(amt)
  BY <1>2
<1>9. Releases
  BY <1>1, <1>2, <1>3, <1>6, <1>7, <1>8 DEF Releases
<1> QED
  BY <1>9 DEF StepEffect

(* The owner's other entry points.                                          *)
LEMMA OwnerEffect ==
  ASSUME IInv, NEW o \in Owners, OwnerNext(o)
  PROVE  StepEffect
<1>0. bond # NoBond => /\ bond \in IdentityBond /\ bond.bonded_amount \in Nat
                       /\ bond.slashed_amount \in Nat /\ now \in Nat
  BY BondType DEF IInv, TypeOK
<1>1. ASSUME NEW amt \in Amounts, Withdraw(o, amt)
      PROVE  StepEffect
  <2>1. /\ amt \in Int /\ bond # NoBond /\ bond' = Reduced(amt)
        /\ Raise(-amt) /\ UNCHANGED <<token, tokens, backed>>
    BY <1>1 DEF Withdraw, CanWithdraw, OwnedBy, Commit, config
  <2>2. /\ Reduced(amt) \in IdentityBond /\ Reduced(amt).identity = bond.identity
        /\ Available(Reduced(amt)) = Available(bond) - amt
    BY <1>0, <2>1 DEF Reduced, IdentityBond, Available
  <2> QED
    BY <2>1, <2>2, SignedStep
<1>2. ASSUME bond # NoBond, NEW b, b \in IdentityBond, Commit(b),
             b.identity = bond.identity, b.slashed_amount = bond.slashed_amount,
             b.bonded_amount <= bond.bonded_amount,
             UNCHANGED <<config, tokens, provenance>>
      PROVE  StepEffect
  <2>1. b.bonded_amount \in Int
    BY <1>2 DEF IdentityBond
  <2>2. Available(b) <= Available(bond)
    BY <1>0, <1>2, <2>1 DEF Available
  <2>3. bond' = b /\ UNCHANGED token
    BY <1>2 DEF Commit, config
  <2> QED
    BY <1>2, <2>2, <2>3, QuietStep
<1>3. ASSUME NEW d \in Durations, ExtendDuration(o, d)
      PROVE  StepEffect
  <2> DEFINE b == [bond EXCEPT !.bond_duration = @ + d]
  <2>1. bond # NoBond /\ Commit(b) /\ UNCHANGED <<config, tokens, provenance>> /\ d \in Nat
    BY <1>3 DEF ExtendDuration, OwnedBy
  <2>2. /\ b \in IdentityBond /\ b.identity = bond.identity
        /\ b.slashed_amount = bond.slashed_amount /\ b.bonded_amount <= bond.bonded_amount
    BY <1>0, <2>1 DEF IdentityBond
  <2> HIDE DEF b
  <2> QED
    BY <1>2, <2>1, <2>2
<1>4. ASSUME RequestWithdrawal(o)
      PROVE  StepEffect
  <2> DEFINE b == [bond EXCEPT !.withdrawal_requested_at = now]
  <2>1. bond # NoBond /\ Commit(b) /\ UNCHANGED <<config, tokens, provenance>>
    BY <1>4 DEF RequestWithdrawal, OwnedBy
  <2>2. /\ b \in IdentityBond /\ b.identity = bond.identity
        /\ b.slashed_amount = bond.slashed_amount /\ b.bonded_amount <= bond.bonded_amount
    BY <1>0, <2>1 DEF IdentityBond
  <2> HIDE DEF b
  <2> QED
    BY <1>2, <2>1, <2>2
<1>5. ASSUME RenewIfRolling(o)
      PROVE  StepEffect
  <2> DEFINE b == [bond EXCEPT !.bond_start = now, !.withdrawal_requested_at = 0]
  <2>1. bond # NoBond /\ Commit(b) /\ UNCHANGED <<config, tokens, provenance>>
    BY <1>5 DEF RenewIfRolling, OwnedBy
  <2>2. /\ b \in IdentityBond /\ b.identity = bond.identity
        /\ b.slashed_amount = bond.slashed_amount /\ b.bonded_amount <= bond.bonded_amount
    <3>1. b \in IdentityBond
      BY <1>0, <2>1 DEF IdentityBond
    <3>2. /\ b.identity = bond.identity /\ b.slashed_amount = bond.slashed_amount
          /\ b.bonded_amount = bond.bonded_amount
      BY <1>0, <2>1 DEF IdentityBond
    <3> HIDE DEF b
    <3> QED
      BY <1>0, <2>1, <3>1, <3>2
  <2> HIDE DEF b
  <2> QED
    BY <1>2, <2>1, <2>2
<1>6. ASSUME WithdrawBond(o)
      PROVE  StepEffect
  <2> DEFINE c == [bond EXCEPT !.bonded_amount = 0]
             b == [bond EXCEPT !.bonded_amount = 0, !.active = FALSE]
  <2>1. bond # NoBond /\ Commit(b) /\ UNCHANGED <<config, tokens, provenance>>
    BY <1>6 DEF WithdrawBond, OwnedBy
  <2>2. /\ c \in IdentityBond /\ b = [c EXCEPT !.active = FALSE]
        /\ c.identity = bond.identity /\ c.slashed_amount = bond.slashed_amount
        /\ c.bonded_amount = 0
    BY <1>0, <2>1 DEF IdentityBond
  <2> HIDE DEF b, c
  <2>3. /\ b \in IdentityBond /\ b.identity = bond.identity
        /\ b.slashed_amount = bond.slashed_amount /\ b.bonded_amount = 0
    BY <2>2 DEF IdentityBond
  <2> QED
    BY <1>0, <1>2, <2>1, <2>3
<1> QED
  BY <1>1, <1>3, <1>4, <1>5, <1>6, CreateBondEffect, TopUpEffect, WithdrawEarlyEffect
     DEF OwnerNext

(* The admin's other entry points.                                          *)
LEMMA AdminEffect ==
  ASSUME IInv, NEW a \in Admins, AdminNext(a)
  PROVE  StepEffect
<1>0. /\ bond # NoBond => /\ bond \in IdentityBond /\ bond.bonded_amount \in Nat
                          /\ bond.slashed_amount \in Nat
      /\ token \in Tokens \cup {NoToken}
  BY BondType, PoolType
<1>1. ASSUME NEW amt \in Amounts, NEW salt \in Salts \cup {NoSalt}, SlashBond(a, amt, salt)
      PROVE  StepEffect
  <2>1. /\ amt \in Int /\ bond # NoBond /\ bond' = SlashAdded(amt)
        /\ Raise(-amt) /\ UNCHANGED <<token, tokens, backed>>
    BY <1>1 DEF SlashBond, CanSlashBond, Commit, config
  <2>2. /\ SlashAdded(amt) \in IdentityBond /\ SlashAdded(amt).identity = bond.identity
        /\ Available(SlashAdded(amt)) = Available(bond) - amt
    BY <1>0, <2>1 DEF SlashAdded, IdentityBond, Available
  <2> QED
    BY <2>1, <2>2, SignedStep
<1>2. ASSUME Liquidate(a)
      PROVE  StepEffect
  <2> DEFINE b == [bond EXCEPT !.active = FALSE]
  <2>1. bond # NoBond /\ bond' = b /\ UNCHANGED <<token, tokens, provenance>>
    BY <1>2 DEF Liquidate, CanLiquidate, Commit, config
  <2>2. /\ b \in IdentityBond /\ b.identity = bond.identity
        /\ b.slashed_amount = bond.slashed_amount /\ b.bonded_amount = bond.bonded_amount
    BY <1>0, <2>1 DEF IdentityBond
  <2> HIDE DEF b
  <2>3. Available(b) <= Available(bond)
    BY <1>0, <2>1, <2>2 DEF Available
  <2> QED
    BY <2>1, <2>2, <2>3, QuietStep
<1>3. ASSUME NEW amt \in Amounts, EmergencyDrain(a, amt)
      PROVE  StepEffect
  <2>1. /\ amt \in Nat \ {0} /\ Holding' = Holding - amt /\ Drained' = Drained + amt
        /\ \A h \in Accounts \ {EmergencyTreasury} : wallet'[h] = wallet[h]
    BY <1>3, DrainMoves DEF IInv
  <2>2. UNCHANGED <<bond, token, backed, raised>>
    BY <1>3 DEF EmergencyDrain, config, provenance
  <2>3. \A o \in Owners : wallet'[o] = wallet[o]
    BY <2>1, AccountsDiffer
  <2>4. Drains
    BY <2>1, <2>2, <2>3 DEF Drains
  <2> QED
    BY <2>4 DEF StepEffect
<1>4. ASSUME \/ Initialize(a) \/ SetSlashTreasury(a)
             \/ \E t \in Tokens : SetToken(a, t)
             \/ \E b \in Admins : TransferAdmin(a, b)
             \/ \E bps \in PenaltyRates : SetEarlyExitConfig(a, bps)
             \/ \E salt \in Salts \cup {NoSalt} : CollectFees(a, salt)
      PROVE  StepEffect
  <2>1. UNCHANGED <<bond, tokens, provenance>> /\ (token' = token \/ token' \in Tokens)
    BY <1>4 DEF Initialize, SetToken, SetSlashTreasury, TransferAdmin,
                SetEarlyExitConfig, CollectFees, config
  <2> QED
    BY <1>0, <2>1 DEF StepEffect, Idles
<1> QED
  BY <1>1, <1>2, <1>3, <1>4, SlashEffect DEF AdminNext

(* No step but these five kinds.                                            *)
LEMMA StepEffects ==
  ASSUME IInv, [Next]_vars
  PROVE  StepEffect
<1>1. ASSUME NEW amt \in FeeDeposits, DepositFees(amt)
      PROVE  Idles
  BY <1>1 DEF DepositFees, Idles, config
<1>2. ASSUME NEW step \in Steps, Tick(step)
      PROVE  Idles
  BY <1>2 DEF Tick, Idles, config
<1>3. CASE UNCHANGED vars
  BY <1>3 DEF vars, config, StepEffect, Idles
<1> QED
  BY <1>1, <1>2, <1>3, OwnerEffect, AdminEffect DEF Next, StepEffect

-----------------------------------------------------------------------------
(* Custody, and Bond as an Escrow.  Tokens can only be in the contract once *)
(* a token is configured, and only then can a bond be backed; a step either *)
(* gives up at least as much claim as it takes out of the pool, or claims   *)
(* no more than it brings in, or writes down what it drains or raises.      *)

CInv ==
    /\ IInv /\ Custody
    /\ token = NoToken => Holding = 0
    /\ backed => token # NoToken

(* The numbers behind the claim, before and after a step.                   *)
LEMMA ClaimType ==
  ASSUME IInv
  PROVE  /\ Holding \in Nat /\ Drained \in Nat /\ raised \in Nat /\ Claim \in Nat
         /\ bond # NoBond => /\ Available(bond) \in Nat
                             /\ Claim = Lesser(Available(bond), Holding)
         /\ bond = NoBond => Claim = 0
  BY PoolType, BondType DEF Claim, Lesser

LEMMA ClaimTypeAfter ==
  ASSUME IInv'
  PROVE  /\ Holding' \in Nat /\ Drained' \in Nat /\ raised' \in Nat /\ Claim' \in Nat
         /\ bond' # NoBond => /\ Available(bond') \in Nat
                              /\ Claim' = Lesser(Available(bond'), Holding')
         /\ bond' = NoBond => Claim' = 0
<1>1. Holding' \in Nat /\ Drained' \in Nat /\ raised' \in Nat
  <2>1. pool' \in [Tokens -> Nat] /\ wallet' \in [Accounts -> Nat] /\ raised' \in Nat
    BY DEF IInv, TypeOK
  <2>2. PICK v : v = pool'
    OBVIOUS
  <2>3. SumFunction(v) \in Nat
    BY <2>1, <2>2, SumNat
  <2> QED
    BY <2>1, <2>2, <2>3, AccountsDiffer DEF Holding, Drained
<1>2. bond' # NoBond => Available(bond') \in Nat
  BY DEF IInv, TypeOK, SelfConsistent, IdentityBond, Available
<1> QED
  BY <1>1, <1>2 DEF Claim, Lesser

LEMMA StakesCInv ==
  ASSUME CInv, IInv', Stakes
  PROVE  CInv' /\ [E!EmergencyNext]_(E!emergencyVars)
<1>1. PICK o \in Owners, amt \in Int, x \in Nat :
        /\ bond' # NoBond
        /\ x = IF token = NoToken THEN 0 ELSE amt
        /\ Holding' = Holding + x
        /\ \A h \in Accounts \ {o} : wallet'[h] = wallet[h]
        /\ UNCHANGED <<token, raised>>
        /\ \/ Available(bond') = amt /\ backed' = (token # NoToken)
           \/ /\ bond # NoBond /\ backed' = backed
              /\ Available(bond') = Available(bond) + amt
  BY DEF Stakes
<1>2. IInv /\ Drained' = Drained
  BY <1>1, AccountsDiffer DEF CInv, Drained
<1>3. /\ Holding \in Nat /\ Claim \in Nat /\ Drained \in Nat /\ raised \in Nat
      /\ bond # NoBond => /\ Available(bond) \in Nat
                          /\ Claim = Lesser(Available(bond), Holding)
  BY <1>2, ClaimType
<1>4. /\ Holding' \in Nat /\ Available(bond') \in Nat
      /\ Claim' = Lesser(Available(bond'), Holding') /\ Claim' \in Nat
  BY <1>1, ClaimTypeAfter
<1>5. /\ bond # NoBond /\ backed => Available(bond) <= Holding + Drained + raised
      /\ token = NoToken => Holding = 0
      /\ backed => token # NoToken
  BY DEF CInv, Custody
<1>6. CInv'
  <2>1. backed' => token' # NoToken
    BY <1>1, <1>5
  <2>2. token' = NoToken => Holding' = 0
    BY <1>1, <1>5
  <2>3. backed' => Available(bond') <= Holding' + Drained' + raised'
    <3>1. SUFFICES ASSUME backed' PROVE Available(bond') <= Holding' + Drained' + raised'
      OBVIOUS
    <3>2. x = amt
      BY <1>1, <2>1, <3>1
    <3>3. CASE Available(bond') = amt
      BY ONLY <1>1, <1>2, <1>3, <3>2, <3>3
    <3>4. CASE /\ bond # NoBond /\ backed' = backed
               /\ Available(bond') = Available(bond) + amt
      BY ONLY <1>1, <1>2, <1>3, <1>5, <3>1, <3>2, <3>4
    <3> QED
      BY <1>1, <3>3, <3>4
  <2> QED
    BY <2>1, <2>2, <2>3 DEF CInv, Custody
<1>7. E!Fund
  <2>1. Holding' >= Holding /\ 0 <= Claim'
    BY <1>1, <1>3, <1>4
  <2>2. Claim' <= Claim + (Holding' - Holding)
    <3>1. CASE token = NoToken
      BY <1>1, <1>3, <1>4, <1>5, <3>1 DEF Lesser
    <3>2. CASE token # NoToken /\ Available(bond') = amt
      BY <1>1, <1>3, <1>4, <3>2 DEF Lesser
    <3>3. CASE /\ token # NoToken /\ bond # NoBond
               /\ Available(bond') = Available(bond) + amt
      BY <1>1, <1>3, <1>4, <3>3 DEF Lesser
    <3> QED
      BY <1>1, <3>1, <3>2, <3>3
  <2> QED
    BY <2>1, <2>2 DEF E!Fund
<1> QED
  BY <1>1, <1>2, <1>6, <1>7 DEF E!EmergencyNext, E!Next

LEMMA ReleasesCInv ==
  ASSUME CInv, IInv', Releases
  PROVE  CInv' /\ [E!EmergencyNext]_(E!emergencyVars)
<1>1. PICK x \in Nat :
        /\ bond # NoBond /\ bond' # NoBond
        /\ Available(bond') <= Available(bond) - x
        /\ Holding' = Holding - x
        /\ \A h \in (Owners \cup {EmergencyTreasury}) \ {bond.identity} : wallet'[h] = wallet[h]
        /\ UNCHANGED <<token, backed, raised>>
  BY DEF Releases
<1>2. IInv /\ Drained' = Drained
  <2>1. IInv /\ bond.identity # EmergencyTreasury
    BY <1>1, BondType DEF CInv
  <2> QED
    BY <1>1, <2>1 DEF Drained
<1>3. /\ Holding \in Nat /\ Drained \in Nat /\ raised \in Nat
      /\ Available(bond) \in Nat /\ Claim = Lesser(Available(bond), Holding)
  BY <1>1, <1>2, ClaimType
<1>4. /\ Holding' \in Nat /\ Available(bond') \in Nat
      /\ Claim' = Lesser(Available(bond'), Holding')
  BY <1>1, ClaimTypeAfter
<1>5. CInv'
  <2>1. /\ backed => Available(bond) <= Holding + Drained + raised
        /\ token = NoToken => Holding = 0
        /\ backed => token # NoToken
    BY <1>1 DEF CInv, Custody
  <2> QED
    BY <1>1, <1>2, <1>3, <1>4, <2>1 DEF CInv, Custody
<1>6. E!Release
  BY <1>1, <1>3, <1>4 DEF E!Release, Lesser
<1> QED
  BY <1>1, <1>2, <1>5, <1>6 DEF E!EmergencyNext, E!Next

LEMMA RaisesCInv ==
  ASSUME CInv, IInv', Raises
  PROVE  CInv' /\ [E!EmergencyNext]_(E!emergencyVars)
<1>1. PICK x \in Nat \ {0} :
        /\ bond # NoBond /\ bond' # NoBond
        /\ Available(bond') <= Available(bond) + x /\ Available(bond) <= Available(bond')
        /\ raised' = raised + x
        /\ UNCHANGED <<token, backed, tokens>>
  BY DEF Raises
<1>2. IInv /\ Holding' = Holding /\ Drained' = Drained
  BY <1>1 DEF CInv, Holding, Drained, tokens
<1>3. /\ Holding \in Nat /\ Drained \in Nat /\ raised \in Nat
      /\ Available(bond) \in Nat /\ Claim = Lesser(Available(bond), Holding)
  BY <1>1, <1>2, ClaimType
<1>4. Available(bond') \in Nat /\ Claim' = Lesser(Available(bond'), Holding')
  BY <1>1, ClaimTypeAfter
<1>5. CInv'
  <2>1. /\ backed => Available(bond) <= Holding + Drained + raised
        /\ token = NoToken => Holding = 0
        /\ backed => token # NoToken
    BY <1>1 DEF CInv, Custody
  <2> QED
    BY <1>1, <1>2, <1>3, <1>4, <2>1 DEF CInv, Custody
<1>6. E!Raise
  BY <1>1, <1>2, <1>3, <1>4 DEF E!Raise, Lesser
<1> QED
  BY <1>5, <1>6 DEF E!EmergencyNext

LEMMA DrainsCInv ==
  ASSUME CInv, IInv', Drains
  PROVE  CInv' /\ [E!EmergencyNext]_(E!emergencyVars)
<1>1. PICK x \in Nat \ {0} :
        /\ Holding' = Holding - x /\ Drained' = Drained + x
        /\ UNCHANGED <<bond, token, backed, raised>>
  BY DEF Drains
<1>2. /\ Holding \in Nat /\ Drained \in Nat /\ raised \in Nat
      /\ bond # NoBond => /\ Available(bond) \in Nat
                          /\ Claim = Lesser(Available(bond), Holding)
      /\ bond = NoBond => Claim = 0
  BY ClaimType DEF CInv
<1>3. /\ Holding' \in Nat
      /\ bond # NoBond => Claim' = Lesser(Available(bond), Holding')
      /\ bond = NoBond => Claim' = 0
  BY <1>1, ClaimTypeAfter
<1>4. CInv'
  <2>1. /\ bond # NoBond /\ backed => Available(bond) <= Holding + Drained + raised
        /\ token = NoToken => Holding = 0
        /\ backed => token # NoToken
    BY DEF CInv, Custody
  <2>2. bond' # NoBond /\ backed' => Available(bond') <= Holding' + Drained' + raised'
    BY <1>1, <1>2, <1>3, <2>1
  <2> QED
    BY <1>1, <1>2, <1>3, <2>1, <2>2 DEF CInv, Custody
<1>5. E!Drain
  <2>1. Drained' > Drained /\ Holding' = Holding - (Drained' - Drained) /\ raised' = raised
    BY <1>1, <1>2, <1>3
  <2>2. Claim' = IF Claim <= Holding' THEN Claim ELSE Holding'
    BY <1>1, <1>2, <1>3 DEF Lesser
  <2> QED
    BY <2>1, <2>2 DEF E!Drain
<1> QED
  BY <1>4, <1>5 DEF E!EmergencyNext

LEMMA IdlesCInv ==
  ASSUME CInv, IInv', Idles
  PROVE  CInv' /\ [E!EmergencyNext]_(E!emergencyVars)
<1>1. /\ UNCHANGED <<bond, backed, raised>> /\ Holding' = Holding /\ Drained' = Drained
      /\ (token' = NoToken => token = NoToken)
  BY DEF Idles, tokens, provenance, Holding, Drained
<1>2. UNCHANGED E!emergencyVars
  BY <1>1 DEF E!emergencyVars, Claim
<1>3. CInv'
  BY <1>1 DEF CInv, Custody
<1> QED
  BY <1>2, <1>3

LEMMA InitCInv == Init => CInv /\ E!EmergencyInit
<1> SUFFICES ASSUME Init PROVE CInv /\ E!EmergencyInit
  OBVIOUS
<1>1. IInv
  BY InitIInv
<1>2. Holding = 0
  <2>1. DOMAIN pool = Tokens /\ \A t \in Tokens : pool[t] = 0
    BY DEF Init
  <2> QED
    BY <2>1, SumZero DEF Holding, SumFunction
<1>3. bond = NoBond /\ backed = FALSE /\ raised = 0
  BY DEF Init
<1>4. Drained = 0
  BY AccountsDiffer DEF Init, Drained
<1> QED
  BY <1>1, <1>2, <1>3, <1>4 DEF CInv, Custody, E!EmergencyInit, E!Init, Claim

LEMMA NextCInv ==
  ASSUME CInv, [Next]_vars
  PROVE  CInv' /\ [E!EmergencyNext]_(E!emergencyVars)
<1>1. IInv'
  BY NextIInv DEF CInv
<1>2. StepEffect
  BY StepEffects DEF CInv
<1> QED
  BY <1>1, <1>2, StakesCInv, ReleasesCInv, RaisesCInv, DrainsCInv, IdlesCInv DEF StepEffect

(* A bond paid for in tokens is always covered by the tokens of the         *)
(* contract, by what was drained and by what negative amounts have raised,  *)
(* whatever mix of top-ups, exits, slashes, drains, changes of the token    *)
(* and replacements ran.                                                    *)
THEOREM CustodyKept == Spec => []Custody
<1>1. Init => CInv
  BY InitCInv
<1>2. CInv /\ [Next]_vars => CInv'
  BY NextCInv
<1>3. CInv => Custody
  BY DEF CInv
<1> QED
  BY <1>1, <1>2, <1>3, PTL DEF Spec

(* credence_bond is an Escrow with an emergency: but for what is drained,   *)
(* tokens leave the contract only against claim given up, and but for what  *)
(* is raised, the claim grows only with tokens received.                    *)
THEOREM BondIsAnEscrow == Spec => ImplementsEscrow
<1>1. Init => CInv /\ E!EmergencyInit
  BY InitCInv
<1>2. CInv /\ [Next]_vars => CInv' /\ [E!EmergencyNext]_(E!emergencyVars)
  BY NextCInv
<1> QED
  BY <1>1, <1>2, PTL DEF Spec, ImplementsEscrow, E!EmergencySpec

(***************************************************************************)
(* Retries.                                                                *)
(***************************************************************************)

(* A key that is not recorded has not been executed under.                  *)
KeysHonest ==
    \A k \in Admins \X Operations \X Salts :
        executions[k] <= 1 /\ (k \notin keys => executions[k] = 0)

LEMMA RecordKeyOnce ==
  ASSUME TypeOK, KeysHonest, NEW a \in Admins, NEW op \in Operations,
         NEW salt \in Salts \cup {NoSalt}, RecordKey(a, op, salt)
  PROVE  KeysHonest'
<1>1. CASE salt = NoSalt
  BY <1>1 DEF RecordKey, once, KeysHonest
<1>2. CASE salt # NoSalt
  <2> DEFINE key == <<a, op, salt>>
  <2>1. key \in Admins \X Operations \X Salts
    BY <1>2
  <2>2. key \notin keys /\ keys' = keys \cup {key} /\ executions' = [executions EXCEPT ![key] = @ + 1]
    BY <1>2 DEF RecordKey
  <2> HIDE DEF key
  <2>3. executions[key] = 0 /\ executions \in [Admins \X Operations \X Salts -> Nat]
    BY <2>1, <2>2 DEF KeysHonest, TypeOK
  <2> SUFFICES ASSUME NEW k \in Admins \X Operations \X Salts
               PROVE  executions'[k] <= 1 /\ (k \notin keys' => executions'[k] = 0)
    BY DEF KeysHonest
  <2>4. CASE k = key
    BY <2>2, <2>3, <2>4
  <2>5. CASE k # key
    BY <2>2, <2>3, <2>5 DEF KeysHonest
  <2> QED
    BY <2>4, <2>5
<1> QED
  BY <1>1, <1>2

LEMMA NextKeys ==
  ASSUME TypeOK, KeysHonest, [Next]_vars
  PROVE  KeysHonest'
<1>1. ASSUME NEW o \in Owners, OwnerNext(o)
      PROVE  UNCHANGED once
  BY <1>1 DEF OwnerNext, CreateBond, TopUp, Withdraw, WithdrawEarly, ExtendDuration,
              RequestWithdrawal, RenewIfRolling, WithdrawBond
<1>2. ASSUME NEW a \in Admins, AdminNext(a)
      PROVE  \/ UNCHANGED once
             \/ \E op \in Operations, salt \in Salts \cup {NoSalt} : RecordKey(a, op, salt)
  BY <1>2 DEF AdminNext, Initialize, SetToken, SetSlashTreasury, Liquidate, TransferAdmin,
              SetEarlyExitConfig, Slash, SlashBond, CollectFees, EmergencyDrain, Operations
<1>3. ASSUME \/ \E amt \in FeeDeposits : DepositFees(amt)
             \/ \E step \in Steps : Tick(step)
             \/ UNCHANGED vars
      PROVE  UNCHANGED once
  BY <1>3 DEF DepositFees, Tick, vars
<1>4. UNCHANGED once => KeysHonest'
  BY DEF once, KeysHonest
<1> QED
  BY <1>1, <1>2, <1>3, <1>4, RecordKeyOnce DEF Next

(* A retry under a recorded salt is refused for any number of salts, admins *)
(* and operations in between.                                               *)
THEOREM OncePerKey == Spec => []AtMostOncePerKey
<1>1. Init => IInv /\ KeysHonest
  BY InitIInv DEF Init, KeysHonest
<1>2. IInv /\ KeysHonest /\ [Next]_vars => (IInv /\ KeysHonest)'
  BY NextIInv, NextKeys DEF IInv
<1>3. IInv /\ KeysHonest => AtMostOncePerKey
  BY DEF KeysHonest, AtMostOncePerKey
<1> QED
  BY <1>1, <1>2, <1>3, PTL DEF Spec

-----------------------------------------------------------------------------
(***************************************************************************)
(* Which exits are open.                                                   *)
(***************************************************************************)

(* A bond has begun, its amount fits in an i128, and the lock-up of a fixed *)
(* bond ends in representable time.  A renewed rolling bond may end later.  *)
TermsInv ==
    bond # NoBond =>
        /\ bond.bond_start <= now
        /\ bond.bonded_amount <= MaxAmount
        /\ ~bond.is_rolling => LockEnd(bond) <= MaxTimestamp

LEMMA OwnerNextTerms ==
  ASSUME MaxBond <= MaxAmount, IInv, TermsInv, NEW o \in Owners, OwnerNext(o)
  PROVE  TermsInv'
<1>0. /\ now \in Nat
      /\ bond # NoBond => /\ bond \in IdentityBond /\ bond.bonded_amount \in Int
                          /\ bond.slashed_amount \in Nat /\ bond.slashed_amount <= bond.bonded_amount
                          /\ bond.bond_start \in Nat /\ bond.bond_duration \in Nat
  BY DEF IInv, TypeOK, SelfConsistent, IdentityBond
<1>1. ASSUME NEW amt \in Amounts, NEW d \in Durations, NEW r \in BOOLEAN,
             NEW n \in Notices, CreateBond(o, amt, d, r, n)
      PROVE  TermsInv'
  <2> DEFINE b == [identity |-> o, bonded_amount |-> amt, bond_start |-> now,
                   bond_duration |-> d, slashed_amount |-> 0, active |-> TRUE,
                   is_rolling |-> r, withdrawal_requested_at |-> 0,
                   notice_period_duration |-> n]
  <2>1. bond' = b /\ now' = now
    BY <1>1 DEF CreateBond, Commit
  <2>2. /\ b.bond_start = now /\ b.bonded_amount = amt
        /\ LockEnd(b) = now + d
    BY DEF LockEnd
  <2>3. amt <= MaxAmount /\ now + d <= MaxTimestamp
    BY <1>1 DEF CreateBond, ValidAmount
  <2> HIDE DEF b
  <2> QED
    BY <1>0, <2>1, <2>2, <2>3 DEF TermsInv
<1>2. ASSUME NEW amt \in Amounts, TopUp(o, amt)
      PROVE  TermsInv'
  <2>1. bond # NoBond /\ bond' = ToppedUp(amt) /\ now' = now /\ bond.bonded_amount + amt <= MaxBond
    BY <1>2 DEF TopUp, CanTopUp, OwnedBy, Commit, ValidAmount
  <2>2. /\ ToppedUp(amt).bonded_amount = bond.bonded_amount + amt
        /\ ToppedUp(amt).bond_start = bond.bond_start
        /\ ToppedUp(amt).bond_duration = bond.bond_duration
        /\ ToppedUp(amt).is_rolling = bond.is_rolling
    BY <1>0, <2>1 DEF ToppedUp, IdentityBond
  <2> QED
    BY <1>0, <2>1, <2>2 DEF TermsInv, LockEnd
<1>3. ASSUME NEW amt \in Amounts, Withdraw(o, amt) \/ WithdrawEarly(o, amt)
      PROVE  TermsInv'
  <2>1. bond # NoBond /\ bond' = Reduced(amt) /\ now' = now
    BY <1>3 DEF Withdraw, WithdrawEarly, CanWithdraw, CanWithdrawEarly, OwnedBy, Commit
  <2>2. /\ Reduced(amt).bonded_amount = bond.bonded_amount - amt
        /\ Reduced(amt).bond_start = bond.bond_start
        /\ Reduced(amt).bond_duration = bond.bond_duration
        /\ Reduced(amt).is_rolling = bond.is_rolling
    BY <1>0, <2>1 DEF Reduced, IdentityBond
  <2>3. bond.bonded_amount - amt <= MaxAmount
    <3>1. CASE Withdraw(o, amt)
      BY <3>1 DEF Withdraw, CanWithdraw
    <3>2. CASE WithdrawEarly(o, amt)
      <4>1. amt \in Nat
        BY <3>2, PayEarlyMoves DEF WithdrawEarly, IInv
      <4> QED
        BY <1>0, <2>1, <4>1 DEF TermsInv
    <3> QED
      BY <1>3, <3>1, <3>2
  <2> QED
    BY <1>0, <2>1, <2>2, <2>3 DEF TermsInv, LockEnd
<1>4. ASSUME NEW d \in Durations, ExtendDuration(o, d)
      PROVE  TermsInv'
  <2> DEFINE b == [bond EXCEPT !.bond_duration = @ + d]
  <2>1. bond # NoBond /\ bond' = b /\ now' = now /\ bond.bond_start + bond.bond_duration + d <= MaxTimestamp
    BY <1>4 DEF ExtendDuration, OwnedBy, Commit
  <2>2. /\ b.bonded_amount = bond.bonded_amount
        /\ b.bond_start = bond.bond_start
        /\ b.bond_duration = bond.bond_duration + d
    BY <1>0, <2>1 DEF IdentityBond
  <2> HIDE DEF b
  <2>3. LockEnd(b) = bond.bond_start + bond.bond_duration + d
    BY <1>0, <2>1, <2>2 DEF LockEnd
  <2> QED
    BY <1>0, <2>1, <2>2, <2>3 DEF TermsInv
<1>5. ASSUME RequestWithdrawal(o)
      PROVE  TermsInv'
  <2> DEFINE b == [bond EXCEPT !.withdrawal_requested_at = now]
  <2>1. bond # NoBond /\ bond' = b /\ now' = now
    BY <1>5 DEF RequestWithdrawal, OwnedBy, Commit
  <2>2. /\ b.bonded_amount = bond.bonded_amount /\ b.bond_start = bond.bond_start
        /\ b.bond_duration = bond.bond_duration /\ b.is_rolling = bond.is_rolling
    BY <1>0, <2>1 DEF IdentityBond
  <2> HIDE DEF b
  <2> QED
    BY <1>0, <2>1, <2>2 DEF TermsInv, LockEnd
<1>6. ASSUME RenewIfRolling(o)
      PROVE  TermsInv'
  <2> DEFINE b == [bond EXCEPT !.bond_start = now, !.withdrawal_requested_at = 0]
  <2>1. bond # NoBond /\ bond.is_rolling /\ bond' = b /\ now' = now
    BY <1>6 DEF RenewIfRolling, OwnedBy, Commit
  <2>2. b.bonded_amount = bond.bonded_amount /\ b.bond_start = now /\ b.is_rolling = bond.is_rolling
    BY <1>0, <2>1 DEF IdentityBond
  <2> HIDE DEF b
  <2> QED
    BY <1>0, <2>1, <2>2 DEF TermsInv
<1>7. ASSUME WithdrawBond(o)
      PROVE  TermsInv'
  <2> DEFINE b == [bond EXCEPT !.bonded_amount = 0, !.active = FALSE]
  <2>1. bond # NoBond /\ bond' = b /\ now' = now
    BY <1>7 DEF WithdrawBond, OwnedBy, Commit
  <2>2. /\ b.bonded_amount = 0 /\ b.bond_start = bond.bond_start
        /\ b.bond_duration = bond.bond_duration /\ b.is_rolling = bond.is_rolling
    BY <1>0, <2>1 DEF IdentityBond
  <2> HIDE DEF b
  <2> QED
    BY <1>0, <2>1, <2>2 DEF TermsInv, LockEnd
<1> QED
  BY <1>1, <1>2, <1>3, <1>4, <1>5, <1>6, <1>7 DEF OwnerNext

(* What the admin writes into a bond: the slashed amount and the flag.      *)
LEMMA AdminNextTerms ==
  ASSUME IInv, TermsInv, NEW a \in Admins, AdminNext(a)
  PROVE  TermsInv' /\ now' = now
<1>0. bond # NoBond => bond \in IdentityBond
  BY DEF IInv, TypeOK
<1>1. ASSUME NEW b, bond # NoBond, bond' = b, now' = now,
             b.bonded_amount = bond.bonded_amount, b.bond_start = bond.bond_start,
             b.bond_duration = bond.bond_duration, b.is_rolling = bond.is_rolling
      PROVE  TermsInv' /\ now' = now
  BY <1>1 DEF TermsInv, LockEnd
<1>2. ASSUME \/ Initialize(a) \/ SetSlashTreasury(a)
             \/ \E t \in Tokens : SetToken(a, t)
             \/ \E amt \in Amounts : EmergencyDrain(a, amt)
             \/ \E b \in Admins : TransferAdmin(a, b)
             \/ \E bps \in PenaltyRates : SetEarlyExitConfig(a, bps)
             \/ \E salt \in Salts \cup {NoSalt} : CollectFees(a, salt)
      PROVE  UNCHANGED <<bond, now>>
  BY <1>2 DEF Initialize, SetToken, SetSlashTreasury, TransferAdmin,
              SetEarlyExitConfig, CollectFees, EmergencyDrain
<1>3. UNCHANGED <<bond, now>> => TermsInv' /\ now' = now
  BY DEF TermsInv
<1>4. ASSUME Liquidate(a)
      PROVE  TermsInv' /\ now' = now
  <2> DEFINE b == [bond EXCEPT !.active = FALSE]
  <2>1. bond # NoBond /\ bond' = b /\ now' = now
    BY <1>4 DEF Liquidate, CanLiquidate, Commit
  <2>2. /\ b.bonded_amount = bond.bonded_amount /\ b.bond_start = bond.bond_start
        /\ b.bond_duration = bond.bond_duration /\ b.is_rolling = bond.is_rolling
    BY <1>0, <2>1 DEF IdentityBond
  <2> HIDE DEF b
  <2> QED
    BY <1>1, <2>1, <2>2
<1>5. ASSUME NEW amt \in Amounts, Slash(a, amt)
      PROVE  TermsInv' /\ now' = now
  <2>1. bond # NoBond /\ bond' = Slashed(amt) /\ now' = now
    BY <1>5 DEF Slash, CanSlash, Commit
  <2> DEFINE b == Slashed(amt)
  <2>2. /\ b.bonded_amount = bond.bonded_amount /\ b.bond_start = bond.bond_start
        /\ b.bond_duration = bond.bond_duration /\ b.is_rolling = bond.is_rolling
    BY <1>0, <2>1 DEF IdentityBond, Slashed
  <2> HIDE DEF b
  <2> QED
    BY <1>1, <2>1, <2>2 DEF b
<1>6. ASSUME NEW amt \in Amounts, NEW salt \in Salts \cup {NoSalt}, SlashBond(a, amt, salt)
      PROVE  TermsInv' /\ now' = now
  <2>1. bond # NoBond /\ bond' = SlashAdded(amt) /\ now' = now
    BY <1>6 DEF SlashBond, CanSlashBond, Commit
  <2> DEFINE b == SlashAdded(amt)
  <2>2. /\ b.bonded_amount = bond.bonded_amount /\ b.bond_start = bond.bond_start
        /\ b.bond_duration = bond.bond_duration /\ b.is_rolling = bond.is_rolling
    BY <1>0, <2>1 DEF IdentityBond, SlashAdded
  <2> HIDE DEF b
  <2> QED
    BY <1>1, <2>1, <2>2 DEF b
<1> QED
  BY <1>2, <1>3, <1>4, <1>5, <1>6 DEF AdminNext

LEMMA NextTerms ==
  ASSUME MaxBond <= MaxAmount, IInv, TermsInv, [Next]_vars
  PROVE  TermsInv'
<1>1. ASSUME NEW step \in Steps, Tick(step)
      PROVE  TermsInv'
  <2>1. bond' = bond /\ now' = now + step /\ step \in Nat
    BY <1>1 DEF Tick
  <2>2. now \in Nat /\ (bond # NoBond => bond.bond_start \in Nat)
    BY DEF IInv, TypeOK, IdentityBond
  <2> QED
    BY <2>1, <2>2 DEF TermsInv
<1>2. CASE (\E amt \in FeeDeposits : DepositFees(amt)) \/ UNCHANGED vars
  <2>1. bond' = bond /\ now' = now
    BY <1>2 DEF DepositFees, vars
  <2> QED
    BY <2>1 DEF TermsInv
<1> QED
  BY <1>1, <1>2, OwnerNextTerms, AdminNextTerms DEF Next

(***************************************************************************)
(* The two exits of a fixed bond, and the price of the early one.          *)
(***************************************************************************)

(* Floors: within bounds, and monotone.                                     *)
LEMMA QuotientBounds ==
  ASSUME NEW d \in Nat \ {0}, NEW k \in Nat, NEW n \in Nat, n <= k * d
  PROVE  n \div d \in 0 .. k
<1> DEFINE q == n \div d
<1>1. q \in Int /\ q * d <= n /\ n < (q + 1) * d
  OBVIOUS
<1> HIDE DEF q
<1>2. q <= k
  <2>1. q * d <= k * d
    BY <1>1
  <2> QED
    BY <1>1, <2>1
<1>3. q >= 0
  <2>1. 0 < (q + 1) * d
    BY <1>1
  <2> QED
    BY <1>1, <2>1
<1> QED
  BY <1>1, <1>2, <1>3 DEF q

LEMMA QuotientMonotone ==
  ASSUME NEW d \in Nat \ {0}, NEW m \in Int, NEW n \in Int, m <= n
  PROVE  m \div d <= n \div d
<1> DEFINE p == m \div d
           q == n \div d
<1>1. p \in Int /\ p * d <= m /\ q \in Int /\ n < (q + 1) * d
  OBVIOUS
<1> HIDE DEF p, q
<1>2. p * d < (q + 1) * d
  BY <1>1
<1>3. p < q + 1
  BY <1>1, <1>2
<1> QED
  BY <1>1, <1>3 DEF p, q

(* Within the lock-up the penalty is at most the amount, also when one of   *)
(* the products is dropped.                                                 *)
LEMMA PenaltyBounds ==
  ASSUME NEW amt \in Nat, NEW duration \in Nat, NEW remaining \in 0 .. duration,
         NEW bps \in 0 .. BpsDenominator
  PROVE  Penalty(amt, remaining, duration, bps) \in 0 .. amt
<1> DEFINE B == BpsDenominator
           x == Product(amt, bps) \div B
           y == Product(x, remaining)
<1>0. B \in Nat \ {0} /\ bps \in Nat /\ bps <= B
  BY DEF BpsDenominator
<1>1. x \in 0 .. amt
  <2>1. amt * bps \in Nat /\ amt * bps <= amt * B /\ 0 <= amt * B
    <3> HIDE DEF B
    <3> QED
      BY <1>0
  <2>2. Product(amt, bps) \in Nat /\ Product(amt, bps) <= amt * B
    BY <2>1 DEF Product
  <2> HIDE DEF B
  <2> QED
    BY <1>0, <2>2, QuotientBounds
<1> HIDE DEF x
<1>2. y \in Nat /\ y <= amt * duration
  <2>1. x * remaining \in Nat /\ x * remaining <= amt * remaining
        /\ amt * remaining <= amt * duration /\ 0 <= amt * duration
    BY <1>1
  <2> QED
    BY <2>1 DEF Product
<1> HIDE DEF y
<1>3. CASE duration = 0
  BY <1>3 DEF Penalty
<1>4. CASE duration # 0
  <2>1. y \div duration \in 0 .. amt
    BY <1>2, <1>4, QuotientBounds
  <2> QED
    BY <1>4, <2>1 DEF Penalty, x, y
<1> QED
  BY <1>3, <1>4

(* Which of the two exits is open is a matter of time alone, but for what   *)
(* the contract has in the configured token.                                *)
LEMMA OneExitOpen ==
  ASSUME CInv, TermsInv
  PROVE  FixedStakeHasOneExit
<1> SUFFICES ASSUME bond # NoBond, ~bond.is_rolling, backed, exit_config # NoConfig
             PROVE  LET all == Available(bond)
                        short == all - Payable
                    IN  \/ CanWithdraw(bond.identity, all) # CanWithdrawEarly(bond.identity, all)
                        \/ /\ ~CanWithdraw(bond.identity, all)
                           /\ ~CanWithdrawEarly(bond.identity, all)
                           /\ 0 < short /\ short <= Stranded + Drained + raised
  BY DEF FixedStakeHasOneExit
<1> DEFINE all == Available(bond)
           end == Lesser(LockEnd(bond), MaxTimestamp)
<1>1. /\ all \in Nat /\ bond.bonded_amount \in Nat /\ bond.slashed_amount \in Nat
      /\ bond.bond_start \in Nat /\ bond.bond_duration \in Nat /\ now \in Nat
      /\ all = bond.bonded_amount - bond.slashed_amount
      /\ bond.slashed_amount <= bond.bonded_amount
  BY DEF CInv, IInv, TypeOK, SelfConsistent, IdentityBond, Available
<1>2. exit_config \in 0 .. BpsDenominator
  BY DEF CInv, IInv, TypeOK
<1>3. /\ bond.bond_start <= now /\ bond.bonded_amount <= MaxAmount
      /\ LockEnd(bond) <= MaxTimestamp /\ LockEnd(bond) = bond.bond_start + bond.bond_duration
  BY DEF TermsInv, LockEnd
<1>4. end = LockEnd(bond) /\ end \in Nat
  BY <1>1, <1>3 DEF Lesser
<1>5. /\ all <= Holding + Drained + raised
      /\ Holding \in Nat /\ Drained \in Nat /\ raised \in Nat /\ Payable \in Nat
  <2>1. Payable \in Nat
    BY DEF CInv, IInv, TypeOK, Payable
  <2> QED
    BY <2>1, PoolType DEF CInv, Custody
<1>6. OwnedBy(bond.identity)
  BY DEF OwnedBy
<1>7. CanWithdraw(bond.identity, all) <=> now >= LockEnd(bond)
  <2>1. bond.bonded_amount - all <= MaxAmount /\ all <= Available(bond)
    BY <1>1, <1>3
  <2> HIDE DEF all
  <2> QED
    BY <1>3, <1>6, <2>1 DEF CanWithdraw
<1>8. CanWithdrawEarly(bond.identity, all) <=> now < LockEnd(bond) /\ all <= Payable
  <2>1. ASSUME now < LockEnd(bond)
        PROVE  PenaltyNow(all) \in 0 .. all
    <3>1. end - now \in 0 .. bond.bond_duration
      BY <1>1, <1>3, <1>4, <2>1
    <3> HIDE DEF all
    <3> QED
      BY <1>1, <1>2, <3>1, PenaltyBounds DEF PenaltyNow
  <2>2. now < LockEnd(bond) => 0 <= PenaltyNow(all) /\ PenaltyNow(all) <= all
    BY <2>1
  <2>3. all <= Available(bond) /\ ((all > 0 => all <= Payable) <=> all <= Payable)
    BY <1>1, <1>5
  <2> HIDE DEF all
  <2> QED
    BY <1>4, <1>6, <2>2, <2>3 DEF CanWithdrawEarly
<1> HIDE DEF all
<1>9. /\ CanWithdraw(bond.identity, all) \in BOOLEAN
      /\ CanWithdrawEarly(bond.identity, all) \in BOOLEAN
  BY Zenon DEF CanWithdraw, CanWithdrawEarly
<1>10. now >= LockEnd(bond) <=> ~(now < LockEnd(bond))
  BY <1>1, <1>3
<1>11. CASE now >= LockEnd(bond) \/ all <= Payable
  <2>1. CanWithdraw(bond.identity, all) <=> ~CanWithdrawEarly(bond.identity, all)
    BY <1>7, <1>8, <1>10, <1>11, Zenon
  <2>2. CanWithdraw(bond.identity, all) # CanWithdrawEarly(bond.identity, all)
    BY <1>9, <2>1, Zenon
  <2> QED
    BY <2>2 DEF all
<1>12. CASE now < LockEnd(bond) /\ ~(all <= Payable)
  <2>1. ~CanWithdraw(bond.identity, all) /\ ~CanWithdrawEarly(bond.identity, all)
    BY <1>7, <1>8, <1>10, <1>12, Zenon
  <2>2. 0 < all - Payable /\ all - Payable <= Stranded + Drained + raised
    BY <1>1, <1>5, <1>12 DEF Stranded
  <2> QED
    BY <2>1, <2>2 DEF all
<1> QED
  BY <1>10, <1>11, <1>12

(* For every bond, every time and every configuration that the code allows  *)
(* a paid-for fixed bond passes the checks of exactly one way out, unless   *)
(* the configured token is short; the limit on bonds must be an i128, as it *)
(* is.                                                                      *)
THEOREM OneExitKept == MaxBond <= MaxAmount => (Spec => []FixedStakeHasOneExit)
<1> SUFFICES ASSUME MaxBond <= MaxAmount PROVE Spec => []FixedStakeHasOneExit
  OBVIOUS
<1>1. Init => CInv /\ TermsInv
  BY InitCInv DEF Init, TermsInv
<1>2. CInv /\ TermsInv /\ [Next]_vars => (CInv /\ TermsInv)'
  BY NextCInv, NextTerms DEF CInv
<1>3. CInv /\ TermsInv => FixedStakeHasOneExit
  BY OneExitOpen
<1> QED
  BY <1>1, <1>2, <1>3, PTL DEF Spec

-----------------------------------------------------------------------------
(* The penalty over time.                                                   *)

LEMMA TimePasses ==
  ASSUME IInv, [Next]_vars
  PROVE  now' \in Nat /\ now <= now'
<1>0. now \in Nat
  BY DEF IInv, TypeOK
<1>1. ASSUME NEW o \in Owners, OwnerNext(o)
      PROVE  now' = now
  BY <1>1 DEF OwnerNext, CreateBond, TopUp, Withdraw, WithdrawEarly, ExtendDuration,
              RequestWithdrawal, RenewIfRolling, WithdrawBond
<1>2. ASSUME NEW a \in Admins, AdminNext(a)
      PROVE  now' = now
  BY <1>2 DEF AdminNext, Initialize, SetToken, SetSlashTreasury, Liquidate, TransferAdmin,
              SetEarlyExitConfig, Slash, SlashBond, CollectFees, EmergencyDrain
<1>3. ASSUME NEW step \in Steps, Tick(step)
      PROVE  now' \in Nat /\ now <= now'
  BY <1>0, <1>3 DEF Tick
<1>4. ASSUME NEW amt \in FeeDeposits, DepositFees(amt)
      PROVE  now' = now
  BY <1>4 DEF DepositFees
<1>5. UNCHANGED vars => now' = now
  BY DEF vars
<1> QED
  BY <1>0, <1>1, <1>2, <1>3, <1>4, <1>5 DEF Next

(* The charge before its decay, without overflow.                           *)
Charge(amt, bps) == (amt * bps) \div BpsDenominator

LEMMA ChargeType ==
  ASSUME NEW amt \in Nat, NEW bps \in 0 .. BpsDenominator
  PROVE  /\ Charge(amt, bps) \in Nat
         /\ Product(amt, bps) \div BpsDenominator \in 0 .. Charge(amt, bps)
         /\ amt * bps <= MaxAmount =>
               Product(amt, bps) \div BpsDenominator = Charge(amt, bps)
<1> DEFINE B == BpsDenominator
<1>0. B \in Nat \ {0} /\ bps \in Nat /\ bps <= B
  BY DEF BpsDenominator
<1>1. amt * bps \in Nat /\ amt * bps <= amt * B
  <2> HIDE DEF B
  <2> QED
    BY <1>0
<1>2. Product(amt, bps) \in Nat /\ Product(amt, bps) <= amt * bps
  BY <1>1 DEF Product
<1> HIDE DEF B
<1>3. (amt * bps) \div B \in 0 .. amt
  BY <1>0, <1>1, QuotientBounds
<1>4. Product(amt, bps) \div B \in 0 .. amt
  <2>1. Product(amt, bps) <= amt * B
    BY <1>0, <1>1, <1>2
  <2> QED
    BY <1>0, <1>2, <2>1, QuotientBounds
<1>5. Product(amt, bps) \div B <= (amt * bps) \div B
  <2>1. Product(amt, bps) \in Int /\ amt * bps \in Int
    BY <1>1, <1>2
  <2> QED
    BY <1>0, <1>2, <2>1, QuotientMonotone
<1>6. amt * bps <= MaxAmount => Product(amt, bps) = amt * bps
  BY DEF Product
<1> QED
  BY <1>3, <1>4, <1>5, <1>6 DEF Charge, B

(* Whatever is dropped, no more is charged for a shorter time than without  *)
(* overflow for a longer one.                                               *)
LEMMA PenaltyBelowFormula ==
  ASSUME NEW amt \in Nat, NEW bps \in 0 .. BpsDenominator, NEW duration \in Nat \ {0},
         NEW r \in Nat, NEW s \in Int, s <= r
  PROVE  Penalty(amt, s, duration, bps) <= (Charge(amt, bps) * r) \div duration
<1> DEFINE x == Product(amt, bps) \div BpsDenominator
<1>1. Charge(amt, bps) \in Nat /\ x \in Nat /\ x <= Charge(amt, bps)
  BY ChargeType
<1>2. PICK c : c = Charge(amt, bps)
  OBVIOUS
<1>3. Penalty(amt, s, duration, bps) = Product(x, s) \div duration
  BY DEF Penalty
<1> HIDE DEF x
<1>4. c \in Nat /\ x \in Nat /\ x <= c
  BY ONLY <1>1, <1>2
<1>5. c * r \in Nat /\ x * s \in Int
  BY ONLY <1>4, r \in Nat, s \in Int
<1>6. x * s <= c * r
  <2>1. CASE s >= 0
    <3>1. x * s <= c * s
      BY ONLY <1>4, <2>1, s \in Int
    <3>2. c * s <= c * r
      BY ONLY <1>4, <2>1, s \in Int, r \in Nat, s <= r
    <3>3. c * s \in Int
      BY ONLY <1>4, s \in Int
    <3> QED
      BY ONLY <1>5, <3>1, <3>2, <3>3
  <2>2. CASE s < 0
    <3>1. x * s <= 0
      BY ONLY <1>4, <2>2, s \in Int
    <3> QED
      BY ONLY <1>5, <3>1
  <2> QED
    BY ONLY <2>1, <2>2, s \in Int
<1>7. Product(x, s) \in Int /\ Product(x, s) <= c * r
  BY <1>5, <1>6 DEF Product
<1>8. Product(x, s) \div duration <= (c * r) \div duration
  <2>1. c * r \in Int
    BY <1>5
  <2> QED
    BY <1>7, <2>1, QuotientMonotone
<1> QED
  BY <1>2, <1>3, <1>8

(* With products that fit, less remaining time means less penalty.          *)
LEMMA PenaltyMonotone ==
  ASSUME NEW amt \in Nat, NEW bps \in 0 .. BpsDenominator, NEW duration \in Nat \ {0},
         NEW r \in Int, NEW s \in Int, s <= r,
         amt * bps <= MaxAmount, Charge(amt, bps) * r <= MaxAmount
  PROVE  Penalty(amt, s, duration, bps) <= Penalty(amt, r, duration, bps)
<1>1. PICK c : c = Charge(amt, bps)
  OBVIOUS
<1>2. c \in Nat /\ Product(amt, bps) \div BpsDenominator = c
  BY <1>1, ChargeType
<1>3. c * s \in Int /\ c * r \in Int /\ c * s <= c * r /\ c * r <= MaxAmount
  <2>1. c * r <= MaxAmount
    BY <1>1
  <2> QED
    BY ONLY <1>2, <2>1, r \in Int, s \in Int, s <= r
<1>4. Product(c, s) = c * s /\ Product(c, r) = c * r
  <2>1. c * s <= MaxAmount
    BY ONLY <1>3, TimesAssumption
  <2> QED
    BY <1>3, <2>1 DEF Product
<1>5. (c * s) \div duration <= (c * r) \div duration
  BY <1>3, QuotientMonotone
<1> QED
  BY <1>2, <1>4, <1>5 DEF Penalty

LEMMA StepCostsNoMore ==
  ASSUME IInv, [Next]_vars, bond # NoBond, bond' = bond, exit_config' = exit_config,
         exit_config # NoConfig, now' < LockEnd(bond), NEW amt \in Nat
  PROVE  PenaltyNow(amt)' <= IF Overflows(amt) THEN Formula(amt) ELSE PenaltyNow(amt)
<1>1. PICK end, d, bps, t, c :
        /\ end = Lesser(LockEnd(bond), MaxTimestamp) /\ d = bond.bond_duration
        /\ bps = exit_config /\ t = now' /\ c = Charge(amt, bps)
  OBVIOUS
<1>2. /\ d \in Nat /\ LockEnd(bond) \in Nat /\ end \in Nat /\ end <= LockEnd(bond)
      /\ now \in Nat /\ t \in Nat /\ now <= t /\ t < LockEnd(bond)
  <2>1. now \in Nat /\ now' \in Nat /\ now <= now'
    BY TimePasses DEF IInv, TypeOK
  <2>2. bond.bond_start \in Nat /\ bond.bond_duration \in Nat
    BY DEF IInv, TypeOK, IdentityBond
  <2>3. LockEnd(bond) \in Nat
    BY ONLY <2>2 DEF LockEnd
  <2>4. end \in Nat /\ end <= LockEnd(bond)
    BY ONLY <1>1, <2>3, TimesAssumption DEF Lesser
  <2> QED
    BY <1>1, <2>1, <2>2, <2>3, <2>4
<1>3. bps \in 0 .. BpsDenominator
  BY <1>1 DEF IInv, TypeOK
<1>4. c \in Nat
  BY <1>1, <1>3, ChargeType
<1>5. /\ PenaltyNow(amt) = Penalty(amt, end - now, d, bps)
      /\ PenaltyNow(amt)' = Penalty(amt, end - t, d, bps)
  BY <1>1 DEF PenaltyNow
<1>6. PICK r : r = LockEnd(bond) - now
  OBVIOUS
<1>7. /\ r \in Nat /\ end - now \in Int /\ end - t \in Int
      /\ end - t <= end - now /\ end - t <= r /\ end - now <= r
  BY ONLY <1>2, <1>6
<1>8. CASE d = 0
  <2>1. PenaltyNow(amt)' = 0 /\ PenaltyNow(amt) = 0
    BY <1>5, <1>8 DEF Penalty
  <2>2. Formula(amt) = 0
    BY <1>1, <1>8 DEF Formula
  <2> QED
    BY <2>1, <2>2
<1>9. CASE d # 0 /\ Overflows(amt)
  <2>1. Formula(amt) = (c * r) \div d
    BY <1>1, <1>6, <1>9 DEF Formula, Charge
  <2>2. d \in Nat \ {0}
    BY <1>2, <1>9
  <2>3. Penalty(amt, end - t, d, bps) <= (c * r) \div d
    BY <1>1, <1>3, <1>7, <2>2, PenaltyBelowFormula
  <2> QED
    BY <1>5, <1>9, <2>1, <2>3
<1>10. CASE d # 0 /\ ~Overflows(amt)
  <2>1. amt * bps <= MaxAmount /\ c * r <= MaxAmount
    <3>1. ~(amt * bps > MaxAmount) /\ ~(c * r > MaxAmount)
      BY <1>1, <1>6, <1>10 DEF Overflows, Charge
    <3>2. amt * bps \in Int /\ c * r \in Int
      <4>1. bps \in Nat
        BY <1>3
      <4> QED
        BY ONLY <1>4, <1>7, <4>1, amt \in Nat
    <3> QED
      BY ONLY <3>1, <3>2, TimesAssumption
  <2>2. c * (end - now) <= MaxAmount
    <3>1. c * (end - now) <= c * r /\ c * (end - now) \in Int /\ c * r \in Int
      BY ONLY <1>4, <1>7
    <3> QED
      BY ONLY <2>1, <3>1, TimesAssumption
  <2>3. d \in Nat \ {0}
    BY <1>2, <1>10
  <2>4. Penalty(amt, end - t, d, bps) <= Penalty(amt, end - now, d, bps)
    BY <1>1, <1>3, <1>7, <2>1, <2>2, <2>3, PenaltyMonotone
  <2> QED
    BY <1>5, <1>10, <2>4
<1> QED
  BY <1>8, <1>9, <1>10

(* calculate_penalty, for any amount, rate and lock-up: an amount whose     *)
(* products fit is never charged more later, and one that overflows no more *)
(* than its formula asks for today.                                         *)
THEOREM WaitingCostsNoMore == Spec => WaitingNeverCostsMore
<1> DEFINE Met ==
      bond # NoBond /\ bond' = bond /\ exit_config' = exit_config
         /\ exit_config # NoConfig /\ now' < LockEnd(bond)
         => \A amt \in Amounts : amt >= 0 =>
               PenaltyNow(amt)' <= IF Overflows(amt) THEN Formula(amt) ELSE PenaltyNow(amt)
<1>1. ASSUME IInv, [Next]_vars
      PROVE  Met
  <2> SUFFICES ASSUME bond # NoBond, bond' = bond, exit_config' = exit_config,
                      exit_config # NoConfig, now' < LockEnd(bond),
                      NEW amt \in Amounts, amt >= 0
               PROVE  PenaltyNow(amt)' <=
                         IF Overflows(amt) THEN Formula(amt) ELSE PenaltyNow(amt)
    OBVIOUS
  <2>1. amt \in Nat
    OBVIOUS
  <2> QED
    BY <1>1, <2>1, StepCostsNoMore
<1>2. Init => IInv
  BY InitIInv
<1>3. IInv /\ [Next]_vars => IInv'
  BY NextIInv
<1>4. IInv /\ [Next]_vars => [Met]_vars
  BY <1>1
<1> QED
  BY <1>2, <1>3, <1>4, PTL DEF Spec, WaitingNeverCostsMore

-----------------------------------------------------------------------------
(* The drift check.                                                         *)

LEMMA GuardsSuffice ==
  ASSUME IInv
  PROVE  DriftCheckIdle
<1> SUFFICES ASSUME bond # NoBond, NEW amt \in Amounts, amt >= 0
             PROVE  /\ CanTopUp(bond.identity, amt) => Consistent(ToppedUp(amt))
                    /\ CanWithdraw(bond.identity, amt) => Consistent(Reduced(amt))
                    /\ CanWithdrawEarly(bond.identity, amt) => Consistent(Reduced(amt))
                    /\ CanSlash(admin, amt) => Consistent(Slashed(amt))
                    /\ CanSlashBond(admin, amt) => Consistent(SlashAdded(amt))
  BY DEF DriftCheckIdle
<1>1. /\ bond \in IdentityBond /\ bond.bonded_amount \in Nat /\ bond.slashed_amount \in Nat
      /\ bond.slashed_amount <= bond.bonded_amount /\ amt \in Nat
  BY DEF IInv, TypeOK, SelfConsistent, IdentityBond
<1>2. Consistent(ToppedUp(amt))
  <2>1. /\ ToppedUp(amt).bonded_amount = bond.bonded_amount + amt
        /\ ToppedUp(amt).slashed_amount = bond.slashed_amount
    BY <1>1 DEF ToppedUp, IdentityBond
  <2> QED
    BY <1>1, <2>1 DEF Consistent
<1>3. ASSUME amt <= Available(bond)
      PROVE  Consistent(Reduced(amt))
  <2>1. /\ Reduced(amt).bonded_amount = bond.bonded_amount - amt
        /\ Reduced(amt).slashed_amount = bond.slashed_amount
    BY <1>1 DEF Reduced, IdentityBond
  <2> QED
    BY <1>1, <1>3, <2>1 DEF Consistent, Available
<1>4. Consistent(Slashed(amt))
  <2>1. /\ Slashed(amt).bonded_amount = bond.bonded_amount
        /\ Slashed(amt).slashed_amount = SlashedTotal(amt)
    BY <1>1 DEF Slashed, IdentityBond
  <2>2. 0 <= SlashedTotal(amt) /\ SlashedTotal(amt) <= bond.bonded_amount
    BY <1>1 DEF SlashedTotal, Taken, Lesser, Available
  <2> QED
    BY <2>1, <2>2 DEF Consistent
<1>5. ASSUME CanSlashBond(admin, amt)
      PROVE  Consistent(SlashAdded(amt))
  <2>1. /\ SlashAdded(amt).bonded_amount = bond.bonded_amount
        /\ SlashAdded(amt).slashed_amount = bond.slashed_amount + amt
    BY <1>1 DEF SlashAdded, IdentityBond
  <2> QED
    BY <1>1, <1>5, <2>1 DEF Consistent, CanSlashBond
<1>6. CanWithdraw(bond.identity, amt) => amt <= Available(bond)
  BY DEF CanWithdraw
<1>7. CanWithdrawEarly(bond.identity, amt) => amt <= Available(bond)
  BY DEF CanWithdrawEarly
<1> QED
  BY <1>2, <1>3, <1>4, <1>5, <1>6, <1>7

(* assert_self_consistent never stops a call with a non-negative amount     *)
(* that the entry point's own guards have let through.                      *)
THEOREM DriftCheckStaysIdle == Spec => []DriftCheckIdle
<1> QED
  BY InitIInv, NextIInv, GuardsSuffice, PTL DEF Spec

(***************************************************************************)
(* What slashing has taken.                                                *)
(***************************************************************************)

(* The records of slashes, the rewards and the account that is paid change  *)
(* together, in one entry point.                                            *)
SlashBooksUntouched == UNCHANGED <<history, rewards>> /\ wallet'[SlashTreasury] = wallet[SlashTreasury]

LEMMA OnlySlashWrites ==
  ASSUME IInv, [Next]_vars
  PROVE  SlashBooksUntouched \/ \E a \in Admins, amt \in Amounts : Slash(a, amt)
<1>0. TypeOK /\ SlashTreasury \in Accounts /\ SlashTreasury # EmergencyTreasury
  BY AccountsDiffer DEF IInv
<1>1. ASSUME NEW o \in Owners, OwnerNext(o)
      PROVE  SlashBooksUntouched
  <2>0. SlashTreasury \in Accounts \ {o} /\ SlashTreasury \in Accounts \ {ExitTreasury, o}
    BY <1>0, AccountsDiffer
  <2>1. ASSUME NEW amt \in Amounts, NEW d \in Durations, NEW r \in BOOLEAN,
               NEW n \in Notices, CreateBond(o, amt, d, r, n)
        PROVE  SlashBooksUntouched
    <3>1. CanPull(o, amt) /\ Pull(o, amt) /\ UNCHANGED records
      BY <2>1 DEF CreateBond
    <3> QED
      BY <1>0, <2>0, <3>1, PullMoves DEF SlashBooksUntouched, records
  <2>2. ASSUME NEW amt \in Amounts, TopUp(o, amt)
        PROVE  SlashBooksUntouched
    <3>1. CanPull(o, amt) /\ Pull(o, amt) /\ UNCHANGED records
      BY <2>2 DEF TopUp, CanTopUp
    <3> QED
      BY <1>0, <2>0, <3>1, PullMoves DEF SlashBooksUntouched, records
  <2>3. ASSUME NEW amt \in Amounts, WithdrawEarly(o, amt)
        PROVE  SlashBooksUntouched
    <3>1. CanWithdrawEarly(o, amt) /\ PayEarly(o, amt) /\ UNCHANGED records
      BY <2>3 DEF WithdrawEarly
    <3> QED
      BY <1>0, <2>0, <3>1, PayEarlyMoves DEF SlashBooksUntouched, records
  <2>4. ASSUME \/ \E amt \in Amounts : Withdraw(o, amt)
               \/ \E d \in Durations : ExtendDuration(o, d)
               \/ RequestWithdrawal(o) \/ RenewIfRolling(o) \/ WithdrawBond(o)
        PROVE  SlashBooksUntouched
    BY <2>4 DEF Withdraw, ExtendDuration, RequestWithdrawal, RenewIfRolling, WithdrawBond,
                SlashBooksUntouched, records, tokens
  <2> QED
    BY <1>1, <2>1, <2>2, <2>3, <2>4 DEF OwnerNext
<1>2. ASSUME NEW a \in Admins, NEW amt \in Amounts, EmergencyDrain(a, amt)
      PROVE  SlashBooksUntouched
  <2>1. \A h \in Accounts \ {EmergencyTreasury} : wallet'[h] = wallet[h]
    BY <1>0, <1>2, DrainMoves
  <2> QED
    BY <1>0, <1>2, <2>1 DEF EmergencyDrain, SlashBooksUntouched, records
<1>3. ASSUME NEW a \in Admins, AdminNext(a)
      PROVE  SlashBooksUntouched \/ \E amt \in Amounts : Slash(a, amt)
  BY <1>2, <1>3 DEF AdminNext, Initialize, SetToken, SetSlashTreasury, Liquidate, TransferAdmin,
              SetEarlyExitConfig, SlashBond, CollectFees, SlashBooksUntouched, records, tokens
<1>4. ASSUME NEW amt \in FeeDeposits, DepositFees(amt)
      PROVE  SlashBooksUntouched
  BY <1>4 DEF DepositFees, SlashBooksUntouched, records, tokens
<1>5. ASSUME NEW step \in Steps, Tick(step)
      PROVE  SlashBooksUntouched
  BY <1>5 DEF Tick, SlashBooksUntouched, records, tokens
<1>6. CASE UNCHANGED vars
  BY <1>6 DEF vars, SlashBooksUntouched, records, tokens
<1> QED
  BY <1>1, <1>3, <1>4, <1>5, <1>6 DEF Next

SlashRecords == [slash_amount : Nat, total_slashed_after : Nat]
AmountsOf(h) == [i \in DOMAIN h |-> h[i].slash_amount]

(* The sum over a history grows by the amount of the record appended.       *)
LEMMA RecordedAppends ==
  ASSUME NEW h \in Seq(SlashRecords), NEW r \in SlashRecords
  PROVE  /\ SumFunction(AmountsOf(h)) \in Nat
         /\ SumFunction(AmountsOf(Append(h, r))) = SumFunction(AmountsOf(h)) + r.slash_amount
<1> DEFINE n == Len(h)
           S == 1 .. n
           w == AmountsOf(h)
           v == AmountsOf(Append(h, r))
<1>1. n \in Nat /\ DOMAIN h = S /\ IsFiniteSet(S) /\ n + 1 \notin S
  BY FS_Interval
<1>2. /\ Append(h, r) \in Seq(SlashRecords) /\ DOMAIN Append(h, r) = S \cup {n + 1}
      /\ Append(h, r)[n + 1] = r /\ \A i \in S : Append(h, r)[i] = h[i]
  <2>1. 1 .. n + 1 = S \cup {n + 1}
    BY <1>1
  <2> QED
    BY <1>1, <2>1
<1>3. /\ w \in [S -> Nat] /\ v \in [S \cup {n + 1} -> Nat]
      /\ v[n + 1] = r.slash_amount /\ \A i \in S : v[i] = w[i]
  <2>1. \A i \in S : h[i].slash_amount \in Nat
    <3>1. \A i \in S : h[i] \in SlashRecords
      BY <1>1
    <3> QED
      BY <3>1 DEF SlashRecords
  <2>2. r.slash_amount \in Nat
    BY DEF SlashRecords
  <2> HIDE DEF S
  <2> QED
    BY <1>1, <1>2, <2>1, <2>2 DEF AmountsOf
<1>4. w \in [S -> Int] /\ v \in [S \cup {n + 1} -> Int]
  <2> HIDE DEF S, w, v
  <2> QED
    BY <1>3
<1> HIDE DEF S, w, v, n
<1>5. SumFunction(w) \in Nat
  BY <1>1, <1>3, SumNat
<1>6. SumFunction(v) = SumFunction(w) + v[n + 1]
  <2>1. PICK x, y, k : x = w /\ y = v /\ k = n
    OBVIOUS
  <2>2. k \in Nat /\ x \in [1 .. k -> Int] /\ y \in [1 .. k + 1 -> Int] /\ \A i \in 1 .. k : y[i] = x[i]
    BY <1>1, <1>2, <1>3, <1>4, <2>1 DEF S
  <2>3. SumFunction(y) = SumFunction(x) + y[k + 1]
    BY ONLY <2>2, SumAppend
  <2> QED
    BY <2>1, <2>3
<1> QED
  BY <1>3, <1>5, <1>6 DEF w, v

(* What one slash adds to the books.                                        *)
LEMMA SlashAdds ==
  ASSUME IInv, NEW a \in Admins, NEW amt \in Amounts, Slash(a, amt)
  PROVE  \E o \in Owners, taken \in Nat :
            /\ wallet'[SlashTreasury] = wallet[SlashTreasury] + taken
            /\ wallet[SlashTreasury] \in Nat
            /\ rewards \in [Admins -> Nat]
            /\ rewards' = [rewards EXCEPT ![a] = @ + (taken \div 10)]
            /\ \A p \in Owners : Recorded(p) \in Nat
            /\ Recorded(o)' = Recorded(o) + taken
            /\ \A p \in Owners \ {o} : Recorded(p)' = Recorded(p)
<1>0. PICK o, taken : o = bond.identity /\ taken = Taken(amt)
  OBVIOUS
<1>1. /\ CanSlash(a, amt) /\ bond # NoBond
      /\ Seize(amt)
      /\ rewards' = [rewards EXCEPT ![a] = @ + (taken \div 10)]
  BY <1>0 DEF Slash, CanSlash, Reward
<1>2. o \in Owners
  BY <1>0, <1>1 DEF IInv, TypeOK, IdentityBond
<1>3. /\ taken \in Nat /\ SlashedTotal(amt) \in Nat
      /\ wallet'[SlashTreasury] = wallet[SlashTreasury] + taken
  BY <1>0, <1>1, SlashType, SeizeMoves
<1>4. wallet[SlashTreasury] \in Nat /\ rewards \in [Admins -> Nat]
  BY AccountsDiffer DEF IInv, TypeOK
<1> DEFINE r == [slash_amount |-> taken, total_slashed_after |-> SlashedTotal(amt)]
<1>5. r \in SlashRecords /\ r.slash_amount = taken
  BY <1>3 DEF SlashRecords
<1>6. history' = [history EXCEPT ![o] = Append(@, r)]
  BY <1>0 DEF Slash
<1>7. history \in [Owners -> Seq(SlashRecords)]
  BY DEF IInv, TypeOK, SlashRecords
<1> HIDE DEF r
<1>8. \A p \in Owners : /\ Recorded(p) = SumFunction(AmountsOf(history[p]))
                        /\ Recorded(p)' = SumFunction(AmountsOf(history'[p]))
  BY DEF Recorded, AmountsOf
<1>9. \A p \in Owners : Recorded(p) \in Nat
  BY <1>5, <1>7, <1>8, RecordedAppends
<1>10. history'[o] = Append(history[o], r) /\ \A p \in Owners \ {o} : history'[p] = history[p]
  BY <1>2, <1>6, <1>7
<1>11. SumFunction(AmountsOf(Append(history[o], r))) = SumFunction(AmountsOf(history[o])) + taken
  <2>1. history[o] \in Seq(SlashRecords)
    BY <1>2, <1>7
  <2> QED
    BY <1>5, <2>1, RecordedAppends
<1>12. Recorded(o)' = Recorded(o) + taken
  BY <1>2, <1>8, <1>10, <1>11
<1>13. \A p \in Owners \ {o} : Recorded(p)' = Recorded(p)
  BY <1>8, <1>10
<1> QED
  BY <1>1, <1>2, <1>3, <1>4, <1>9, <1>12, <1>13

LEMMA NextSeizures ==
  ASSUME IsFiniteSet(Owners), IInv, SeizuresRecorded, [Next]_vars
  PROVE  SeizuresRecorded'
<1>1. CASE SlashBooksUntouched
  BY <1>1 DEF SlashBooksUntouched, SeizuresRecorded, Recorded
<1>2. ASSUME NEW a \in Admins, NEW amt \in Amounts, Slash(a, amt)
      PROVE  SeizuresRecorded'
  <2>1. PICK o \in Owners, taken \in Nat :
            /\ wallet'[SlashTreasury] = wallet[SlashTreasury] + taken
            /\ \A p \in Owners : Recorded(p) \in Nat
            /\ Recorded(o)' = Recorded(o) + taken
            /\ \A p \in Owners \ {o} : Recorded(p)' = Recorded(p)
    BY <1>2, SlashAdds
  <2> DEFINE w == [p \in Owners |-> Recorded(p)]
             v == [p \in Owners |-> Recorded(p)']
  <2>2. /\ w \in [Owners -> Int] /\ v \in [Owners -> Int]
        /\ v[o] = w[o] + taken /\ w[o] \in Int /\ \A p \in Owners \ {o} : v[p] = w[p]
    BY <2>1
  <2>3. wallet[SlashTreasury] = SumFunction(w)
    BY DEF SeizuresRecorded
  <2>4. SeizuresRecorded' <=> wallet'[SlashTreasury] = SumFunction(v)
    BY DEF SeizuresRecorded
  <2> HIDE DEF w, v
  <2>5. SumFunction(v) = SumFunction(w) + v[o] - w[o] /\ SumFunction(w) \in Int
    BY <2>2, SumUpdate, SumInt
  <2> QED
    BY <2>1, <2>2, <2>3, <2>4, <2>5
<1> QED
  BY <1>1, <1>2, OnlySlashWrites

LEMMA InitSeizures ==
  ASSUME IsFiniteSet(Owners), Init
  PROVE  SeizuresRecorded
<1>1. \A o \in Owners : Recorded(o) = 0
  <2> TAKE o \in Owners
  <2>1. history[o] = <<>>
    BY DEF Init
  <2>2. DOMAIN history[o] = {}
    BY <2>1
  <2>3. DOMAIN [i \in DOMAIN history[o] |-> history[o][i].slash_amount] = {}
    BY <2>2
  <2> QED
    BY <2>3, SumEmpty DEF Recorded, SumFunction
<1> DEFINE w == [o \in Owners |-> Recorded(o)]
<1>2. DOMAIN w = Owners /\ \A o \in Owners : w[o] = 0
  BY <1>1
<1>3. wallet[SlashTreasury] = 0
  BY AccountsDiffer DEF Init
<1> HIDE DEF w
<1>4. SumFunction(w) = 0
  BY <1>2, SumZero DEF SumFunction
<1> QED
  BY <1>3, <1>4 DEF SeizuresRecorded, w

(* For any number of identities and slashes: the slash treasury has got     *)
(* what the records of `slash` add up to, dust clamp included.              *)
THEOREM SeizuresKept == IsFiniteSet(Owners) => (Spec => []SeizuresRecorded)
<1> SUFFICES ASSUME IsFiniteSet(Owners) PROVE Spec => []SeizuresRecorded
  OBVIOUS
<1>1. Init => IInv /\ SeizuresRecorded
  BY InitIInv, InitSeizures
<1>2. IInv /\ SeizuresRecorded /\ [Next]_vars => (IInv /\ SeizuresRecorded)'
  BY NextIInv, NextSeizures
<1> QED
  BY <1>1, <1>2, PTL DEF Spec

LEMMA NextRewards ==
  ASSUME IsFiniteSet(Admins), IInv, RewardsBounded, [Next]_vars
  PROVE  RewardsBounded'
<1>1. CASE SlashBooksUntouched
  BY <1>1 DEF SlashBooksUntouched, RewardsBounded
<1>2. ASSUME NEW a \in Admins, NEW amt \in Amounts, Slash(a, amt)
      PROVE  RewardsBounded'
  <2>1. PICK o \in Owners, taken \in Nat :
            /\ wallet'[SlashTreasury] = wallet[SlashTreasury] + taken
            /\ wallet[SlashTreasury] \in Nat
            /\ rewards \in [Admins -> Nat]
            /\ rewards' = [rewards EXCEPT ![a] = @ + (taken \div 10)]
    BY <1>2, SlashAdds
  <2>2. PICK tenth \in Nat : tenth = taken \div 10 /\ 10 * tenth <= taken
    OBVIOUS
  <2>3. /\ rewards \in [Admins -> Int] /\ rewards' \in [Admins -> Int]
        /\ rewards'[a] = rewards[a] + tenth /\ rewards[a] \in Int
        /\ \A b \in Admins \ {a} : rewards'[b] = rewards[b]
    BY <2>1, <2>2
  <2>4. SumFunction(rewards') = SumFunction(rewards) + rewards'[a] - rewards[a]
    <3>1. PICK w, v : w = rewards /\ v = rewards'
      OBVIOUS
    <3>2. /\ IsFiniteSet(Admins) /\ w \in [Admins -> Int] /\ v \in [Admins -> Int]
          /\ a \in Admins /\ \A b \in Admins \ {a} : v[b] = w[b]
      BY <2>3, <3>1
    <3>3. SumFunction(v) = SumFunction(w) + v[a] - w[a]
      BY ONLY <3>2, SumUpdate
    <3> QED
      BY <3>1, <3>3
  <2>5. SumFunction(rewards) \in Int
    BY <2>3, SumInt
  <2>6. 10 * SumFunction(rewards) <= wallet[SlashTreasury]
    BY DEF RewardsBounded
  <2>7. SumFunction(rewards') = SumFunction(rewards) + tenth
    BY <2>3, <2>4, <2>5
  <2>8. 10 * SumFunction(rewards') <= wallet'[SlashTreasury]
    BY ONLY <2>1, <2>2, <2>5, <2>6, <2>7
  <2> QED
    BY <2>8 DEF RewardsBounded
<1> QED
  BY <1>1, <1>2, OnlySlashWrites

LEMMA InitRewards ==
  ASSUME IsFiniteSet(Admins), Init
  PROVE  RewardsBounded
<1>1. DOMAIN rewards = Admins /\ \A a \in Admins : rewards[a] = 0
  BY DEF Init
<1>2. SumFunction(rewards) = 0
  BY <1>1, SumZero DEF SumFunction
<1>3. wallet[SlashTreasury] = 0
  BY AccountsDiffer DEF Init
<1> QED
  BY <1>2, <1>3 DEF RewardsBounded

(* For any admins in turn and any amounts asked for: the rewards of         *)
(* slashing together are at most a tenth of what was taken.                 *)
THEOREM RewardsKeptBounded == IsFiniteSet(Admins) => (Spec => []RewardsBounded)
<1> SUFFICES ASSUME IsFiniteSet(Admins) PROVE Spec => []RewardsBounded
  OBVIOUS
<1>1. Init => IInv /\ RewardsBounded
  BY InitIInv, InitRewards
<1>2. IInv /\ RewardsBounded /\ [Next]_vars => (IInv /\ RewardsBounded)'
  BY NextIInv, NextRewards
<1> QED
  BY <1>1, <1>2, PTL DEF Spec

(***************************************************************************)
(* Who can get what out.                                                   *)
(***************************************************************************)

(* What an identity has and what it may still claim are at most what it     *)
(* began with and what negative amounts have raised.  The bond of an        *)
(* identity that staked no tokens can at most claim the pool, and then the  *)
(* pool is of its own top-ups.                                              *)
Claimable == IF backed THEN Available(bond) ELSE Holding

WealthInv ==
    /\ NobodyProfits
    /\ bond # NoBond => wallet[bond.identity] + Claimable <= Endowment + raised

(* The numbers in it, before and after a step.                              *)
LEMMA WealthType ==
  ASSUME CInv, WealthInv
  PROVE  /\ \A o \in Owners : wallet[o] \in Nat /\ wallet[o] <= Endowment + raised
         /\ Holding \in Nat /\ raised \in Nat /\ backed \in BOOLEAN
         /\ token = NoToken => Holding = 0
         /\ backed => token # NoToken
         /\ bond # NoBond =>
               /\ bond.identity \in Owners /\ Available(bond) \in Nat
               /\ backed => wallet[bond.identity] + Available(bond) <= Endowment + raised
               /\ ~backed => wallet[bond.identity] + Holding <= Endowment + raised
  BY PoolType, BondType DEF CInv, WealthInv, NobodyProfits, Claimable

LEMMA WealthAfter ==
  ASSUME IInv',
         \A o \in Owners : wallet'[o] <= Endowment + raised',
         bond' # NoBond =>
            /\ backed' => wallet'[bond'.identity] + Available(bond') <= Endowment + raised'
            /\ ~backed' => wallet'[bond'.identity] + Holding' <= Endowment + raised'
  PROVE  WealthInv'
  BY DEF WealthInv, NobodyProfits, Claimable

LEMMA StakesWealth ==
  ASSUME CInv, IInv', WealthInv, Stakes
  PROVE  WealthInv'
<1>1. PICK o \in Owners, amt \in Int, x \in Nat :
        /\ bond' # NoBond /\ bond'.identity = o
        /\ x = IF token = NoToken THEN 0 ELSE amt
        /\ Holding' = Holding + x
        /\ wallet'[o] = wallet[o] - x
        /\ \A h \in Accounts \ {o} : wallet'[h] = wallet[h]
        /\ UNCHANGED <<token, raised>>
        /\ \/ Available(bond') = amt /\ backed' = (token # NoToken)
           \/ /\ bond # NoBond /\ bond.identity = o /\ backed' = backed
              /\ Available(bond') = Available(bond) + amt
  BY DEF Stakes
<1>2. \A p \in Owners : wallet'[p] <= Endowment + raised'
  <2>1. \A p \in Owners \ {o} : wallet'[p] = wallet[p]
    BY <1>1, AccountsDiffer
  <2> QED
    BY <1>1, <2>1, WealthType
<1>3. /\ wallet[o] \in Nat /\ wallet[o] <= Endowment + raised
      /\ Holding \in Nat /\ raised \in Nat
      /\ token = NoToken => Holding = 0
  BY WealthType
<1>4. CASE Available(bond') = amt /\ backed' = (token # NoToken)
  <2>1. ASSUME token # NoToken
        PROVE  wallet'[o] + Available(bond') <= Endowment + raised'
    <3>1. x = amt /\ wallet'[o] = wallet[o] - x /\ raised' = raised
      BY ONLY <1>1, <2>1
    <3> QED
      BY <1>3, <1>4, <3>1, LimitsAssumption
  <2>2. ASSUME token = NoToken
        PROVE  wallet'[o] + Holding' <= Endowment + raised'
    <3>1. x = 0 /\ wallet'[o] = wallet[o] - x /\ raised' = raised /\ Holding' = Holding + x
      BY ONLY <1>1, <2>2
    <3>2. Holding = 0
      BY <1>3, <2>2
    <3> QED
      BY ONLY <1>3, <3>1, <3>2, LimitsAssumption
  <2>3. backed' <=> token # NoToken
    BY <1>4
  <2> QED
    BY <1>1, <1>2, <2>1, <2>2, <2>3, WealthAfter
<1>5. CASE /\ bond # NoBond /\ bond.identity = o /\ backed' = backed
           /\ Available(bond') = Available(bond) + amt
  <2>1. /\ backed => token # NoToken /\ wallet[o] + Available(bond) <= Endowment + raised
        /\ ~backed => wallet[o] + Holding <= Endowment + raised
        /\ Available(bond) \in Nat
    BY <1>5, WealthType
  <2>2. backed' => wallet'[o] + Available(bond') <= Endowment + raised'
    BY ONLY <1>1, <1>3, <1>5, <2>1, LimitsAssumption
  <2>3. ~backed' => wallet'[o] + Holding' <= Endowment + raised'
    BY ONLY <1>1, <1>3, <1>5, <2>1, LimitsAssumption
  <2> QED
    BY <1>1, <1>2, <2>2, <2>3, WealthAfter
<1> QED
  BY <1>1, <1>4, <1>5

(* The one kind of step that pays an owner gives up as much claim.          *)
LEMMA ReleasesWealth ==
  ASSUME CInv, IInv', WealthInv, Releases
  PROVE  WealthInv'
<1>1. PICK x \in Nat : \E net \in 0 .. x :
        /\ bond # NoBond /\ bond' # NoBond /\ bond'.identity = bond.identity
        /\ Available(bond') <= Available(bond) - x
        /\ Holding' = Holding - x
        /\ wallet'[bond.identity] = wallet[bond.identity] + net
        /\ \A h \in (Owners \cup {EmergencyTreasury}) \ {bond.identity} : wallet'[h] = wallet[h]
        /\ UNCHANGED <<token, backed, raised>>
  BY DEF Releases
<1>2. PICK net \in 0 .. x : wallet'[bond.identity] = wallet[bond.identity] + net
  BY <1>1
<1>3. Available(bond') \in Nat /\ Holding' \in Nat
  BY <1>1, ClaimTypeAfter
<1>4. /\ backed' => wallet'[bond'.identity] + Available(bond') <= Endowment + raised'
      /\ ~backed' => wallet'[bond'.identity] + Holding' <= Endowment + raised'
  BY <1>1, <1>2, <1>3, WealthType
<1>5. wallet'[bond.identity] <= Endowment + raised'
  BY <1>1, <1>2, <1>3, <1>4, WealthType
<1>6. \A o \in Owners : wallet'[o] <= Endowment + raised'
  BY <1>1, <1>5, WealthType
<1> QED
  BY <1>4, <1>6, WealthAfter

LEMMA RaisesWealth ==
  ASSUME CInv, IInv', WealthInv, Raises
  PROVE  WealthInv'
<1>1. PICK x \in Nat \ {0} :
        /\ bond # NoBond /\ bond' # NoBond /\ bond'.identity = bond.identity
        /\ Available(bond') <= Available(bond) + x
        /\ raised' = raised + x
        /\ UNCHANGED <<token, backed, tokens>>
  BY DEF Raises
<1>2. Holding' = Holding /\ wallet' = wallet
  BY <1>1 DEF Holding, tokens
<1>3. Available(bond') \in Nat
  BY <1>1, ClaimTypeAfter
<1>4. \A o \in Owners : wallet'[o] <= Endowment + raised'
  BY <1>1, <1>2, WealthType
<1>5. /\ backed' => wallet'[bond'.identity] + Available(bond') <= Endowment + raised'
      /\ ~backed' => wallet'[bond'.identity] + Holding' <= Endowment + raised'
  BY <1>1, <1>2, <1>3, WealthType
<1> QED
  BY <1>4, <1>5, WealthAfter

LEMMA DrainsWealth ==
  ASSUME CInv, IInv', WealthInv, Drains
  PROVE  WealthInv'
<1>1. PICK x \in Nat \ {0} :
        /\ Holding' = Holding - x
        /\ \A o \in Owners : wallet'[o] = wallet[o]
        /\ UNCHANGED <<bond, token, backed, raised>>
  BY DEF Drains
<1>2. \A o \in Owners : wallet'[o] <= Endowment + raised'
  BY <1>1, WealthType
<1>3. bond' # NoBond =>
        /\ backed' => wallet'[bond'.identity] + Available(bond') <= Endowment + raised'
        /\ ~backed' => wallet'[bond'.identity] + Holding' <= Endowment + raised'
  BY <1>1, WealthType
<1> QED
  BY <1>2, <1>3, WealthAfter

LEMMA NextWealth ==
  ASSUME CInv, WealthInv, [Next]_vars
  PROVE  CInv' /\ WealthInv'
<1>1. CInv' /\ IInv'
  BY NextCInv DEF CInv
<1>2. StepEffect
  BY StepEffects DEF CInv
<1>3. ASSUME Idles
      PROVE  WealthInv'
  BY <1>3 DEF Idles, tokens, provenance, WealthInv, NobodyProfits, Claimable, Holding
<1> QED
  BY <1>1, <1>2, <1>3, StakesWealth, ReleasesWealth, RaisesWealth, DrainsWealth DEF StepEffect

LEMMA InitWealth == Init => WealthInv
<1> SUFFICES ASSUME Init PROVE WealthInv
  OBVIOUS
<1>1. \A o \in Owners : wallet[o] = Endowment
  BY AccountsDiffer DEF Init
<1>2. bond = NoBond /\ raised = 0
  BY DEF Init
<1> QED
  BY <1>1, <1>2 DEF WealthInv, NobodyProfits

(* For any identities that follow each other in one pool, and any stakes,   *)
(* slashes, drains, changes of the token and exits: nobody ends with more   *)
(* than he began with, beyond what negative amounts have raised.            *)
THEOREM NoProfit == Spec => []NobodyProfits
<1>1. Init => CInv /\ WealthInv
  BY InitCInv, InitWealth
<1>2. CInv /\ WealthInv /\ [Next]_vars => (CInv /\ WealthInv)'
  BY NextWealth
<1>3. CInv /\ WealthInv => NobodyProfits
  BY DEF WealthInv
<1> QED
  BY <1>1, <1>2, <1>3, PTL DEF Spec

(* Slashed stake stays slashed: for any mix of both slash entry points and  *)
(* amounts of either sign, only a new stake or a negative amount gives the  *)
(* owner of a fully slashed bond a claim.                                   *)
THEOREM FullySlashedStaysUnpaid == Spec => FullySlashedUnpaid
<1> DEFINE Met == bond # NoBond /\ Available(bond) = 0
                    => /\ wallet'[bond.identity] <= wallet[bond.identity]
                       /\ Available(bond') > 0 => Restaked \/ raised' > raised
<1>1. ASSUME IInv, IInv', [Next]_vars
      PROVE  Met
  <2> SUFFICES ASSUME bond # NoBond, Available(bond) = 0
               PROVE  /\ wallet'[bond.identity] <= wallet[bond.identity]
                      /\ Available(bond') > 0 => Restaked \/ raised' > raised
    OBVIOUS
  <2>1. /\ bond.identity \in Owners /\ bond.identity \in Accounts
        /\ wallet[bond.identity] \in Nat /\ raised \in Nat
    BY <1>1, BondType, PoolType
  <2>2. CASE Stakes
    <3>1. PICK o \in Owners, x \in Nat :
            /\ Restaked /\ wallet'[o] = wallet[o] - x
            /\ \A h \in Accounts \ {o} : wallet'[h] = wallet[h]
      BY <2>2 DEF Stakes
    <3> QED
      BY <2>1, <3>1
  <2>3. CASE Releases
    <3>1. PICK x \in Nat : \E net \in 0 .. x :
            /\ bond' # NoBond /\ Available(bond') <= Available(bond) - x
            /\ wallet'[bond.identity] = wallet[bond.identity] + net
      BY <2>3 DEF Releases
    <3>2. Available(bond') \in Nat
      BY <1>1, <3>1, ClaimTypeAfter
    <3>3. x = 0
      BY <3>1, <3>2
    <3> QED
      BY <2>1, <3>1, <3>2, <3>3
  <2>4. CASE Raises
    <3>1. PICK x \in Nat \ {0} : raised' = raised + x /\ wallet' = wallet
      BY <2>4 DEF Raises, tokens
    <3> QED
      BY <2>1, <3>1
  <2>5. CASE Drains
    <3>1. bond' = bond /\ \A o \in Owners : wallet'[o] = wallet[o]
      BY <2>5 DEF Drains
    <3> QED
      BY <2>1, <3>1
  <2>6. CASE Idles
    <3>1. bond' = bond /\ wallet' = wallet
      BY <2>6 DEF Idles, tokens
    <3> QED
      BY <2>1, <3>1
  <2> QED
    BY <1>1, <2>2, <2>3, <2>4, <2>5, <2>6, StepEffects DEF StepEffect
<1>2. Init => IInv
  BY InitIInv
<1>3. IInv /\ [Next]_vars => IInv'
  BY NextIInv
<1>4. IInv /\ IInv' /\ [Next]_vars => [Met]_vars
  BY <1>1
<1> QED
  BY <1>2, <1>3, <1>4, PTL DEF Spec, FullySlashedUnpaid
=============================================================================
