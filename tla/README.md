# A TLA+ development of the Credence contracts

This directory keeps TLA+ models of the Soroban contracts of this repository,
TLC configurations that check them on small instances, and theorems about them
that TLAPS checks for every value of the constants. `PROJECT.json` maps every
definition to the lines it models and lists runs, mutants, hazards and theorems.

Paths below are relative to `src/contracts/` unless they start with `docs/`.

## 1. The system

Credence is a set of Soroban contracts. An *entry point* is called in a
transaction by an address that authorizes the call; it reads and writes the
contract's storage, may call other contracts (mostly a token), and either commits
as a whole or panics and leaves no trace. The host runs one invocation at a time
and refuses re-entrant calls. Time is `e.ledger().timestamp()`, which moves only
between ledgers. There is no scheduler: nothing happens unless somebody calls.

So concurrency is the *order of calls* of many independent actors (owners,
admins, signers, keepers, token senders) and the passage of time in between, and
failure is a call that panics, a retry of a call that went through, a token that
delivers less than it was asked to, and configuration that changes between two
steps of a multi-step procedure.

| component | state | operations | what makes it correct | modelled |
|---|---|---|---|---|
| `credence_bond` lifecycle (`lib.rs`, `slashing.rs`, `early_exit_penalty.rs`, `token_integration.rs`, `invariants.rs`, ...) | one bond, admin, token, exit and slash treasuries, slash history, fees, idempotency keys, liquidation flags | create, top up, extend, request, renew, withdraw, withdraw early, close, slash (two entry points), liquidate, fees, emergency drain, configuration | books and tokens agree; slashed stake stays slashed; exits neither trap nor overlap; retries run once | `Bond` |
| `credence_bond` claims (`claims.rs`) | a queue of claims per user, a cached total, a counter, a record per claim | add, process in batches, expire, clean up, page | a claim is paid once or expires; the total covers the queue; nothing stays for ever | `Claims` |
| `credence_bond` governance approval | governors, delegates, ballots, proposals | propose, vote, delegate, execute | an executed slash had a majority of the seats that spoke | `Governance` |
| `credence_bond` emergency mode, drain | mode, records, scheduled eta; sends tokens out of the bonds' pool | set, schedule, cancel, execute | only paused, only after its own delay | `Drain`, and its transfer in `Bond` |
| `credence_bond` attestations, nonces | attesters, stakes, weights, attestations, list and count by subject, dedup keys | attest, attest in a batch, revoke, page | list, count and records agree; a nonce per call | `Attestations` |
| `credence_bond` verifiers | minimum stake, record, role; writes the attester key and the weighing stake of the attestations | register, deactivate, withdraw stake, note an attestation | stake is bound while it counts | `Verifiers` |
| `credence_bond` evidence | counter, pieces, list by proposal, hashes seen | submit, look up | each hash once | `Evidence` |
| `credence_bond` upgrade authorization | roles, list of upgraders, proposals, history, two admins | grant, revoke, propose, approve, execute, hand over | list and history tell the truth | `Upgrade` |
| `credence_bond` liquidation scanner | slots, activity, size, cursors | register, leave, scan, move cursor | the size counts; every candidate is met | `Scanner` |
| `credence_bond` parameters, access control | values and role keys | bounded setters | | no, see 8 |
| `credence_treasury` | total, balance by source, lifetime counters, depositors, signers, threshold, proposals, approvals, floor, ttl | receive fee, propose, approve, execute, rescue, roles and limits | accounting identity; quorum; floor; coverage by tokens | `Treasury` |
| pausable (one file in four contracts) | paused, pause signers and their cached count, threshold, ballots | enable/disable signer, threshold, pause, unpause, approve, execute | nothing moves while paused; only a quorum unpauses; it can unpause | `Pausable` |
| `timelock` | operations, executed hashes | queue, execute, cancel | not before the delay, once, final | `Timelock` |
| `credence_multisig` | signers (key, list, count), threshold, proposals, signatures, executed hashes | signers, submit, sign, execute, reject, prune | quorum of current signers; once; decisions final | `MultiSig` |
| `arbitration` | arbitrators and their list, disputes, tallies, ballots, quorum | register, create, vote, resolve, cancel, page | one ballot each; verdicts follow from the ballots | `Arbitration` |
| `admin` | record, list of all, lists by role, limits, owner and pending owner | add, remove, change role, deactivate, suspend, hand over | the three places agree; nobody rises by himself | `Admin` |
| `credence_delegation` | delegations, nonces, grace period, verifiers; a pause of its own kind | delegate, revoke, relayed variants, clean up, invalidate nonces; pause ballots | a nonce serves once; authority comes from the owner; views agree | `Delegation`, `DelegationPause` |
| `credence_registry` | identity to bond, bond to identity, list, code hash | register (two ways), deactivate, remove, reactivate, page | the two maps are inverse, the list is theirs | `Registry` |
| `credence_math` | none | checked and rounded arithmetic | rounding direction | no, written out where it is used |
| `credence_errors`, `templates`, `../crates` | none | error codes, examples, CLI, test fixtures | | no: no behaviour of the deployed system |

How they meet: the bond contract sends early-exit penalties and slashed tokens
to treasury addresses with plain token transfers; `credence_treasury` books only
what arrives through `receive_fee`, which its depositors call. Treasury,
registry, arbitration and multisig guard their entry points with the same pause
mechanism. Timelock and multisig know operations by hash and record that one was
executed; they call nothing. Slashing adds a pull-payment claim for the slasher.
Inside the bond contract, attestations and verifiers share two keys
(`DataKey::Attester`, `DataKey::AttesterStake`), and bonds, the emergency drain,
the stakes of verifiers and the payment of claims share one pool of tokens.

Behaviours that are hard to test, each listed with its line under `hazards` in
`PROJECT.json`: one pool of tokens under several bonds in turn, drained and
changed in kind under them; arguments of either sign; books adjusted by one
amount and tokens by another (dust clamp, short settlement, rounding); one key
with several writers; counts cached beside the sets they count; thresholds read
at execution and approvals counted before; identifiers that start again after a
second `initialize`; window boundaries; retried, delayed and reordered calls;
counters that roll over; the same fact kept in two or three places; bounded
batches and pages over lists that change; a sweep or a scan that must reach
everything in the end.

## 2. Modules

| module | what it is |
|---|---|
| `Escrow` | abstract: a pool and one claim on it. As an escrow the claim grows only with tokens received and tokens leave only against claim; as a *vault* tokens nobody claims may leave too, and the pool covers the claim; with an *emergency* the pool may be drained into an account of its own, and claims raised by hand on another |
| `Directory` | abstract: identities and bond contracts bound one to one, who is answered as registered, and who is listed |
| `Bond` | the bond contract and the token balances it moves |
| `MCBond` | symmetry sets and negative amounts for TLC |
| `Lists` | the lists that contracts keep in storage, and how an entry is taken out |
| `Lemmas` | theorems about sums over finite sets, lists and pages that the proofs share |
| `BondProofs` | theorems about `Bond` |
| `Pausable` | the pause mechanism, as state and actions a contract extends |
| `Treasury` | `credence_treasury`, extends `Pausable`; implements the vault of `Escrow` |
| `MCTreasury`, `TreasuryProofs` | instances and theorems |
| `Timelock`, `MCTimelock`, `TimelockProofs` | the timelock |
| `MultiSig`, `MCMultiSig`, `MultiSigProofs` | the multisig, extends `Pausable` |
| `DelegationPause`, `Delegation`, `MCDelegation`, `DelegationProofs` | `credence_delegation`, and the pause it extends |
| `LedgerClock` | the clock, for the modules below; extends `Lists` |
| `Admin`, `Registry`, `Arbitration` | the contracts of these names; `Registry` implements `Directory` |
| `Upgrade`, `Attestations`, `Verifiers`, `Governance`, `Evidence`, `Drain` | parts of the bond contract; `Verifiers` extends `Attestations` |
| `MCContracts` | the nine above on one ledger, attestations and verifiers as one part |
| `ContractsProofs` | theorems about `Admin`, `Registry`, `Arbitration`, and that each contract of `MCContracts` behaves there as it does alone |
| `BondBooksProofs` | theorems about the six parts of the bond contract, `Claims` and `Scanner`, and about `MCContracts` and `MCServices` as wholes |
| `Claims`, `Scanner`, `MCServices` | claims and the liquidation scanner, with keepers |

Conventions shared by all of them:

* One entry point is one action with its whole effect. A call that panics is a
  disabled action: the host rolls it back, event and all. A call that returns
  early without a write is a disabled action too, or a stuttering step.
* `CanX` is what entry point `X` checks; the primed variables are its writes.
* Variables are the `DataKey`s. Sets stand for Boolean keys per address.
  *History variables* (marked so) record what the properties talk about and are
  read by no guard but those of bounds: `inits` (`MaxInits`), `foundings`
  (`MaxFoundings`) and `raised` (`MaxRaised`).
* `require_auth` is the parameter of the action: whoever is named has signed.
* Numbers keep their width where it matters: `MaxTimestamp` is `u64::MAX`,
  `MaxAmount` is `i128::MAX`; a `checked_add` is a guard, a `saturating_add` a
  minimum, an `unwrap_or(0)` a zero.
* Definitions `Fault_X` are variants of `X` with a plausible bug. No action uses
  them; they are put in the place of `X` to see the properties fail.
* Storage TTL, events, tiers and error codes are left out.

### Bond

`bond` is `DataKey::Bond`, a record with the fields of `IdentityBond`, or
`NoBond`. `pool` is the contract's balance in each token, `token` the one that is
configured (`Payable` is the balance in it), and `wallet` what owners and the
three treasuries (exit, slash, emergency) hold, over all tokens: an owner is
taken to exchange one kind for another, which only adds behaviours. `Commit(b)`
is a storage write followed by `assert_self_consistent`. `Penalty` is the
two-step floor of `calculate_penalty`, with its `unwrap_or(0)`. `Slash` is the
function `slash_bond` of `slashing.rs` (capped, recorded, paid to the slash
treasury, with a reward); `SlashBond` is the entry point `slash_bond` of `lib.rs`
(not capped, idempotent, moves no tokens). They are two actions because the code
has both. `SetToken` may replace the token under a bond, and `EmergencyDrain`
takes tokens out of the pool, whoever's they are.

Amounts have either sign. `withdraw` and `slash_bond` accept negative ones and
then *raise* the stake without tokens; the history variable `raised` adds up
how much, and no guard of the code reads it (its bound `MaxRaised` limits TLC).
The properties about tokens say what is uncovered in terms of it and of what was
drained.

Abstractions, and why they do not hide what the properties are about:

* The set of accepted tokens, which `set_token` looks up, is `Tokens`;
  `set_accepted_tokens` is not an action, so that all of them are accepted at any
  time. A transfer that delivers less than requested is refused
  (`token_integration.rs:146`); the allowance is taken to suffice, since a
  missing one only disables the call.
* `EmergencyDrain` may happen at any time by the admin: its gates (pause, delay,
  recipient) are module `Drain`, which has the same transfer out of a pool that
  changes at any time.
* The stakes of verifiers (`verifier.rs:159` and `:268`) and the payment of claims
  (`claims.rs:491`) move tokens of the same account and are not in `Bond`. Of
  claims, `lib.rs` calls the sweep and the reading in pages only, and it does not
  declare `verifier.rs`: neither transfer is reached from an entry point.
* `rewards` is the sum of the claims a slasher accrued. Processing claims is
  module `Claims`; nothing in `Bond` depends on it.
* The drift check also compares a count of attestations with a list; no action of
  `Bond` touches either, and `SubjectBooksAgree` of `Attestations` says that they agree.
* The callback of `slash_bond` and `withdraw_bond` is external and cannot
  re-enter; a failing one is a disabled action.
* `same_ledger_liquidation_guard` never refuses in the released contract: its
  only writer is compiled for tests. `Bond` therefore has no such guard.
* `withdraw_early` asks for no authorization. It pays the owner whoever calls,
  so the caller does not appear.
* `lib.rs` holds a second, older contract block (lines 120 to 301) left by a
  merge. The module follows the implementation from line 508 on, which the tests
  and the documentation are about.

### Treasury and Pausable

`held` is what the treasury holds of each token and `withheld` what tokens kept
of transfers (`cut`): a recipient's balance then rises by less than was sent,
which is what `execute_withdrawal` measures. A transfer to the treasury itself
moves nothing and settles as 0. `Donate` is a transfer that does not go through
`receive_fee`; the slashed tokens sent by the bond contract arrive like that.
`cumulative` keeps the pair (rollovers, remainder) of the code, with
`Segment == MaxAmount + 1`. `initialize` is not guarded by the code; the model
calls it up to `MaxInits` times, leaving stored what the code leaves stored.

`Pausable` is the file `pausable.rs`, the same in treasury, registry and
arbitration and, but for imports, in multisig. A contract's `Next` has
`PauseNext` beside its own actions.

### Timelock and MultiSig

Operations are known by hash, as in the code. In `MultiSig` the signer set is
kept three times, as in the code: a key per signer, a count, and a list that may
hold an address twice because `initialize` does not check; execution counts over
the list. `RemoveSigner` builds the list anew (`Unlisted`, by `Without` of `Lists`).
`PruneExpiredProposals` does a whole sweep in one step.

### Delegation and DelegationPause

`Payloads` is everything a relayer could submit: any nonce, domain, owner,
target, scheme, for this contract or another. `Accepts` is the list of checks of
`execute_delegated_*`; the signature is a condition, that the owner signed what
is submitted. An action takes *any* payload at *any* time, so delay, repetition
and reordering need no channel of their own. `uses` and `voided` are history
variables: what each nonce was spent on. In `DelegationPause` an identifier of a
ballot is the pair of action and epoch (the hash of the code, taken to be
injective), which is why signers who propose the same action meet on one ballot.

### The contracts of MCContracts

Nine modules on one `now`. Eight parts of them have disjoint variables and do
not call each other: `MCContracts` follows one at a time, the one that is called
first (`followed`, `Follow`): the union of their state spaces instead of the
product. Attestations and verifiers are *one* part (`AttestingNext`), because they
write the same keys; TLC follows it twice, once without verifiers and in full, and
once with verifiers, one admin, one weight configuration and `MaxWitnessed`
attestations. The clock moves as long as a comparison in the followed contract can
tell the next instant from this one, and stops there. Each of them keeps one
fact in several places, as the code does:

* `Admin`: `admin_info`, `admin_list`, `role_admins`. `Effective` is what
  `require_role_at_least` asks for, `Known` and `Role` what `get_role` does.
  `MoveToRole` is the rewriting of both role lists.
* `Registry`: `identity_to_bond`, `bond_to_identity`, `identities`. The answers
  of a bond contract (interface, code hash) are constants of it.
* `Arbitration`: weights beside the list of arbitrators; the tallies beside the
  ballots, of which the code keeps who voted and the model, as history, for what.
* `Attestations`: list, count, dedup keys and nonces. `AddAttestation` and
  `AddAttestationBatch` are two actions because only the batch stores the dedup key.
* `Upgrade`: authorizations beside the list of upgraders; `Spend` marks a
  proposal executed; an upgrade without a proposal needs the role only.
* `Verifiers`: record, role and tokens; `Stored` copies the stake into
  `attester_stake` and `GrantRole` and `ClearRole` write `attesters`, both of
  `Attestations`, where the admin writes them too (`SetAttesterStake`,
  `RegisterAttester`, `UnregisterAttester`). `RecordAttestationIssued` gives an
  attester without a record an active one without role. The history variable
  `overruled` has the attesters whose weight the admin set last.
* `Governance`: ballots by address; which seats they speak for (`Voice`) is
  decided when a slash is executed, as in `count_votes`. `verdict` is history.
* `Evidence`: by identifier, by proposal, by hash.
* `Drain`: `drain_eta` survives the end of the pause, as in the code. `payable` is
  the contract's balance in its token, which others change (`BalanceChanges`).

Three of these files (`verifier.rs`, `governance_approval.rs`, `evidence.rs`) and
`liquidation_scanner.rs` are not declared in `lib.rs` of the bond, and the
functions of `upgrade_auth.rs` have no entry points there. They are modelled as
the libraries they are: callers answer for authority where the file says so. (The
key of the verifier role is also the one of `access_control.rs`, which `lib.rs`
does not declare either and which is not modelled.)

### Claims and Scanner

`ProcessClaims` does the whole pass over the queue: it pays what is wanted up to
the limit, drops what has expired on the way and keeps the rest in order; the
cached total is reduced by what was paid. `Leave` is the storage update shared by
all four ways out of the queue. `ClaimsPage` and `After` are
`get_pending_claims_page`. In `Scanner` a slot is for ever and the size counts
the active ones; whether a bond qualifies changes by `BondMoves`, external.
`Diligent` keepers go on from their cursor; the others scan from anywhere and
move their cursors as the code lets them.

## 3. Runs

`tlc -config X.cfg M` with the names below. All are breadth-first and complete,
within the bounds named in the `.cfg`. No configuration checks for deadlock:
time is bounded, and a contract may be left in a state in which no call succeeds.

| run | instance | states | what it shows |
|---|---|---|---|
| `bond_custody` | 2 identities, 2 tokens, amounts -1 and 2 with `MinBond` 2 and `MaxBond` 3, stake raised by at most 1, time to 2 | 0.46 M | tokens and books agree over several bonds that follow each other in one pool, drained and changed in kind; the refinement of the escrow with an emergency |
| `bond_exits` | 1 identity, 2 tokens, amounts -1 to 2 at a penalty of 10000 basis points and `i128::MAX` at 20000, durations 0 and 12000 (also after one another, at the end of `u64`), ledgers 4000 apart | 0.98 M | which exits are open, with tokens drained and replaced; the penalty grows only where a product overflows: of 2 the product with the remaining 12000 does, with 8000 it does not |
| `bond_slashing` | 2 admins, 2 tokens, amounts -1 and 10, `MinBond` 10 and `MaxBond` 11, two slashes, one salt | 0.68 M | both slash entry points with either sign, the dust clamp, the slash treasury against the records, idempotency |
| `treasury_funds` | 2 tokens, `i128::MAX` at 3, cuts 0 and 1, floor, ttl 0 and 1, 1 proposal | 0.9 M | accounting under rollover, rounding, short settlement; the vault refinement, through rescue and a changed token |
| `treasury_signers` | 2 signers, 2 pause signers, 1 proposal of each kind, 2 calls of `initialize` | 0.8 M | quorum and pause under changing roles and reused identifiers; thresholds that can be reached |
| `timelock` | 3 operations, 2 hashes, delays 0 to 3, time and `u64::MAX` at 6 | 0.16 M | windows, execute-once, finality |
| `multisig` | 2 signers, lists with and without a duplicate, 2 proposals, 2 hashes, 2 calls of `initialize` | 0.5 M | quorum of current signers, execute-once, pruning |
| `delegation` | 1 owner, 1 delegate, 2 types, nonces to 3, times to 4, grace 0 and 1, known and unknown schemes; 2 pause signers, 2 epochs | 0.29 M | nonces, authority, boundaries; lockout, quorum and view of the pause |
| `contracts` | three addresses in every contract (2 attesters, who may be verifiers, with 2 tokens each), 1 dispute with outcomes 1 to 3 and a window of one instant, 1 upgrade proposal, 3 attestations (1 where verifiers are called), 3 pieces of evidence, 2 drains, 2 foundings of the governors | 0.64 M | the books that are kept in several places, and the directory refinement; see 4 |
| `services` | 2 users, 3 claims of 2 types and 3 amounts, batches of 2; 3 holders, 2 keepers of whom one is diligent, pages of 1 and 2 | 0.15 M | accounting of claims, coverage by pages, and the two liveness properties |
| `doc_withdraw_pays`, `doc_super_admins` | the instances of `bond_custody` (smaller) and `contracts` | small | two statements of the documentation that the code does not satisfy, see 6 |

Further configurations hold the properties that keep a check of their own beside
the runs above; they have the same instances and pass as well:
`MCBond_custody_more` (`TypeOK`, `SelfConsistent`, `DriftCheckIdle`,
`NobodyProfits`, `SeizuresRecorded`, `FullySlashedUnpaid`),
`MCTreasury_funds_more` (`TypeOK`, `BooksBalance`, `FloorKept`),
`MCTreasury_signers_more` (`PaidAsProposed`, `PauseBallotsHonest`,
`PausedFreezes`), `MCMultiSig_more` (`TypeOK`, `ExecutedOnce`,
`SignerBooksAgree`, `TalliesHonest`, `QuorumMet`, `DecisionsAreFinal`). All of
them are proved for every value of the constants (section 5), and so are
`RewardsBounded` of `Bond`, `RecordMatchesStatus` and `SettledIsFinal` of
`Timelock`, `DirectoryConsistent` of `Registry` and `NoncesCountCalls` of
`Attestations`, which no configuration names. The other `*_doc_*` configurations
show the remaining disagreements of section 6: in each TLC finds the one
property violated.

Why these bounds are enough for the questions asked: a slash of 10 takes a bond
of 10 in full, leaves the dust residue of one raised to 11, and takes one raised
to 12 in part; amounts of -1 raise a stake by each of the two calls that accept
them; of two tokens one pays and one holds what was paid in before; a
`MaxAmount` of 3 makes a counter roll over on the second deposit, with the three
counters at different calls; one proposal identifier used twice around
`initialize` already meets every stale record, and a second adds only a
neighbour; two operations of one hash and one of another are the smallest case
in which replay and interference differ; times reach one past every window. A
nonce range of four holds one spent, one skipped, the next one and the limit.
Three addresses are enough for one who acts, one acted on and one bystander; the
lists they form (bench, roster, directory, queue, slots) then have a head, a
middle and a tail to remove, and pages of 1 and 2 end before, at and after them.
Three claims over batches of 2 split a queue at every place. `treasury_signers`,
`multisig` and `delegation` have a `CONSTRAINT` each (in the MC modules): the
first two follow, after the second `initialize`, one kind of ballot or one
proposal at a time; the third follows either the ballots or the delegations,
which meet in `paused` alone. `treasury_funds` has two: the clock is followed
where it expires a proposal (`TimeExpiresProposals`; the books read no time
otherwise), and the time to live is changed apart from the depositors and the
floor, with which no step reads it (`OneSettingAtATime`; a proposal without an
expiry, made before, is still there when they change). In `contracts` a
suspension ends at the second instant, an authorization expires after the first
and a vote is open during the first: each comparison of a time is met on the
last instant on which it holds and on the first on which it does not. Symmetry
is used over addresses and hashes the configuration treats alike, and in no run
with a liveness property.

*Fairness.* Most steps of these contracts wait for a call that nobody is obliged
to make, and no liveness is claimed of them: what can be said is that a call
would succeed (`FixedStakeHasOneExit`, `NoLockout`, `ThresholdsReachable`,
`SignerBooksAgree`). Two services are different: the
repository names somebody who comes by.

* `KeepersSweep`: weak fairness of the sweep of each user's queue.
  `expire_claims` asks for no authorization, and `docs/batch-operations.md:292`
  has off-chain keepers, users and indexers call it. Nothing else is fair: nobody
  has to process or clean up. Each step of the sweep takes any batch size, so
  fairness does not choose a good one. Under it every expired claim leaves its
  queue (`ExpiredClaimsSwept`).
* `KeepersScan`: weak fairness of the next scan of a *diligent* keeper, which is
  the workflow in the header of `liquidation_scanner.rs` (scan, act, go on from
  the returned cursor until the pass is done). Other keepers and all holders do
  as they like. Under it a holder who stays a candidate is reported
  (`CandidatesAreReported`).

Time is not fair in either: `Tick` is an action like the others.

## 4. Properties

Each is stated in prose above its definition. In short:

* **Bond.** `Custody`: a bond paid for in tokens is covered by the contract's
  tokens, but for what was drained and what negative amounts have raised.
  `ImplementsEscrow`: the refinement of `Escrow` with an emergency, with the claim
  the smaller of what is available and what is held; drained and raised are the
  accounts of the emergency. `NobodyProfits`: no identity ends with more than it
  began with and was raised. `SeizuresRecorded`: the slash treasury got what the
  records add up to. `FullySlashedUnpaid`: slashed stake is not handed back.
  `DriftCheckIdle`: for amounts that are not negative the guards alone keep the
  bond consistent, so `InvariantViolation` is never how a call ends; negative
  amounts are where only the drift check holds. `FixedStakeHasOneExit`: the whole
  stake passes the checks of exactly one of `withdraw` and `withdraw_early` at
  every time, or of none because the configured token is short, by no more than
  was replaced, drained or raised. It is about the checks: what `withdraw` then
  pays is nothing (section 6). `WaitingNeverCostsMore`: the penalty of an amount
  grows with time only where one of its products overflows now, and then to no
  more than the formula asks for now. `RewardsBounded`, `AtMostOncePerKey`,
  `SelfConsistent`.
* **Treasury.** `ImplementsVault`: the refinement of the vault of `Escrow`, with
  the claim `total` and the pool the tokens held of every kind and those kept back
  by tokens. A withdrawal takes tokens against the books, a rescue or a token with
  a fee only what the books do not claim; that the tokens cover the books
  (`Covered`) follows. `BooksBalance`, `LifetimesAgree`, `ChargesAreProportional`,
  `FloorKept`, `PaidAsProposed`, `QuorumMet` (counted in *different* approvers).
* **Pausable.** `PausedFreezes`, `PauseAuthorised`, `PauseBallotsHonest`.
  `ThresholdsReachable`: the cached counts of both kinds of signers are the sizes
  of the sets (`SignersInLockstep`, `PauseLockstepWhileFresh`), so neither
  threshold asks for more than there are.
* **Timelock.** `ExecutedOnce`, `RecordMatchesStatus`, `NeverEarly`,
  `SettledIsFinal`.
* **MultiSig.** `ExecutedOnce`, `SignerBooksAgree`, `SignedWhatItExecutes`,
  `TalliesHonest`, `QuorumMet`, `DecisionsAreFinal`.

* **Delegation.** `NonceSpentOnce`: over direct and relayed calls together a
  nonce authorizes one call, and none if it was invalidated. `AuthorityIsSigned`:
  a delegate becomes valid only in a step that spends the owner's nonce, never by
  time, grace, invalidation or clean-up. `ViewsAgree`: validity, status,
  revocability and clean-up agree at every boundary. Of its pause: `NoLockout`,
  `PausedByQuorum` (different signers, since the ballot was opened),
  `ExecutedViewHonest`.
* **Admin.** `RostersAgree`; `RanksAreGranted`: rank is gained only beside
  another effective admin whose rank may grant it.
* **Registry.** `ImplementsDirectory`: the registry is `Directory` twice, with
  the bindings read from `identity_to_bond` and with those read from
  `bond_to_identity`; so no call leaves half a binding, binds what is bound, or
  takes the list another way. `DirectoryConsistent`: the two maps are inverse, the
  list is theirs, and reading it in pages gives it all.
* **Arbitration.** `BenchIsListed`, `OneBallotEach` (with the weight of the moment
  of the vote, whatever happens to the bench later), `VerdictStands`.
* **Bond parts.** `UpgradeBooksAgree`, `SubjectBooksAgree`, `DedupKeysHonest`,
  `NoncesCountCalls`, `VerdictsMatchVoices`, `EvidenceFiledOnce`, `DrainsApart`
  (one delay never serves two drains). `StakesAreLocked`: stake and wallet of a
  verifier make what he began with; who has the role is active and so cannot take
  the stake back; the weight of his attestations is the stake, unless the admin
  has set it by hand since, as `docs/weighted-attestations.md:16` allows. (Active
  does not imply the role: an attestation may create the record.)
* **Claims.** `ClaimsAccounted`: paid at most once, as recorded, and until then
  waiting in one queue unless expired. `ClaimableCovers`, `ClaimPagesCover`,
  `ExpiredClaimsSwept`.
* **Scanner.** `SizeCountsHolders`, `CandidatesAreReported`.

Properties guarded by `fresh` hold until `initialize` is called a second time,
and fail after it: the cached counts start at zero while the signers stay. That
is what the code does (see 6). `QuorumMet`, `PausedFreezes`, `PauseAuthorised`,
`BooksBalance`, `Covered`, `LifetimesAgree`, `PauseBallotsHonest` and both
`ExecutedOnce` hold across it.

Every property of a passing run has a mutant in `PROJECT.json`: one definition
replaced by its `Fault_` variant, for which TLC finds the property violated in
the same configuration.

## 5. Proofs

For all values of the constants that satisfy the named assumptions (sorts are
distinct, amounts are integers of either sign, times and limits naturals):

| module | theorem | statement |
|---|---|---|
| `BondProofs` | `TypeCorrect`, `Consistency` | `[]TypeOK`, `[]SelfConsistent` |
| | `CustodyKept` | `[]Custody` |
| | `BondIsAnEscrow` | `ImplementsEscrow` |
| | `OneExitKept` | `[]FixedStakeHasOneExit`, when `MAX_BOND_AMOUNT` is an `i128` (`MaxBond <= MaxAmount`) |
| | `WaitingCostsNoMore` | `WaitingNeverCostsMore` |
| | `OncePerKey`, `DriftCheckStaysIdle` | `[]AtMostOncePerKey`, `[]DriftCheckIdle` |
| | `SeizuresKept`, `RewardsKeptBounded` | `[]SeizuresRecorded`, `[]RewardsBounded`, for finitely many owners, admins |
| | `NoProfit`, `FullySlashedStaysUnpaid` | `[]NobodyProfits`, `FullySlashedUnpaid` |
| `TreasuryProofs` | `TypeCorrect`, `IdentityKept`, `LifetimesKept` | `[]TypeOK`, `[]BooksBalance`, `[]LifetimesAgree` |
| | `TreasuryIsAVault`, `CoverKept` | `ImplementsVault`, and from it `[]Covered` |
| | `FloorHolds` | `FloorKept` |
| | `ChargesKeptProportional`, `QuorumKept` | the action properties |
| | `PaidStaysAsProposed`, `SignerCountsKept` | `[]PaidAsProposed`, `[]ThresholdsReachable` |
| | `PauseKeptAuthorised`, `PauseBallotsKeptHonest`, `PauseFreezes` | `PauseAuthorised`, `[]PauseBallotsHonest`, `PausedFreezes` |
| `TimelockProofs` | `TypeCorrect`, `OnceKept`, `RecordKept`, `NeverEarlyKept`, `FinalKept` | type correctness and all four properties |
| `MultiSigProofs` | `OnceKept`, `SignaturesKept`, `TalliesKept`, `DecisionsKept` | `[]ExecutedOnce`, `[]SignedWhatItExecutes`, `[]TalliesHonest`, `DecisionsAreFinal` |
| | `SignerBooksKept`, `QuorumKept`, `TypeCorrect` | `[]SignerBooksAgree`, `QuorumMet`, `[]TypeOK` |
| `DelegationProofs` | `TypeCorrect`, `NonceOnce`, `ViewsKept`, `AuthorityKept` | `[]TypeOK`, `[]NonceSpentOnce`, `[]ViewsAgree`, `AuthorityIsSigned` |
| | `LockoutFree`, `ViewHonest`, `QuorumPauses` | `[]NoLockout`, `[]ExecutedViewHonest`, `PausedByQuorum` |
| `ContractsProofs` | `RostersKept`, `RanksOnlyGranted` | `[]RostersAgree`, `RanksAreGranted` |
| | `DirectoryKept`, `RegistryIsADirectory` | `[]DirectoryConsistent`, `ImplementsDirectory` |
| | `BenchKept`, `BallotsKept`, `VerdictStandsKept` | `[]BenchIsListed`, `[]OneBallotEach`, `[]VerdictStands` |
| | `EachContractAlone` | `Spec` of `MCContracts` implies the specification of each of its eight parts |
| `BondBooksProofs` | `StakesKept`, `VerdictsKept`, `DrainsKeptApart` | `[]StakesAreLocked`, `[]VerdictsMatchVoices`, `[]DrainsApart` |
| | `EvidenceKeptOnce`, `UpgradeBooksKept` | `[]EvidenceFiledOnce`, `[]UpgradeBooksAgree` |
| | `SubjectBooksKept`, `DedupKeysKept`, `NoncesKept` | `[]SubjectBooksAgree`, `[]DedupKeysHonest`, `[]NoncesCountCalls` |
| | `SizeKept` | `[]SizeCountsHolders` |
| | `ClaimsAccountedKept`, `ClaimableKept`, `ClaimPagesKept` | `[]ClaimsAccounted`, `[]ClaimableCovers`, `[]ClaimPagesCover` |
| | `ContractsKept` | `Spec` of `MCContracts` has all the properties above of its contracts together |
| | `ServicesKept` | the same of `MCServices` and the four properties of claims and scanner |

Most theorems of `ContractsProofs` and `BondBooksProofs` are about a component
alone on its ledger (`AdminSpec`, `ClaimsSpec`, ...). That this is enough is
proved as well. In `MCContracts` every step moves at most one contract or the
clock (`OneMovesAtATime`), so its behaviours are behaviours of each of the eight
specifications (`EachContractAlone`); `ContractsKept` and `ServicesKept` then say
of the very specifications that TLC runs what was proved of the parts.

The argument is the same throughout: an inductive invariant, one step per
action, the actions that leave its variables alone dealt with together.

* *Lemmas.* Induction. The library's induction theorems take an operator as a
  parameter and cannot be used, but the well-foundedness of strict inclusion
  among finite subsets can: a property becomes a set, and its least
  counterexample is taken. From that follow the least number of a set
  (`LeastNumber`), induction over numbers and finite sets, and from those what
  the folds of the community modules give: a sum is any element and the rest
  (`SumTake`), changes with one entry (`SumUpdate`), covers each entry
  (`SumCovers`). A list is related to the set it holds by `Lists(seq, S)`, which
  appending, removing by position and building anew preserve (`ListsAppend`,
  `ListsRemoveFirst`, `ListsWithout`), and reading page after page gives the
  whole list at any page size (`PagesReadAll`). Recursive definitions are
  recursive functions in the modules proved about, so that their equation has to
  be earned: the function is shown to exist, then `CHOOSE` gives it.
* *Bond.* `IInv == TypeOK /\ SelfConsistent`. On it rests a lemma used by most of
  the rest (`StepEffects`): whatever the call and the sign of its argument, a step
  does one of five things to tokens and claim. It stakes, releases, raises, drains
  or leaves both alone (`Stakes`, `Releases`, `Raises`, `Drains`, `Idles`), and
  custody, escrow and wealth are then argued once for each. `Custody` is not
  inductive by itself, because a bond created before `set_token` is not paid for:
  `CInv` adds that no tokens are held while no token is configured and that a
  paid-for bond implies a configured token. `OneExitKept` rests on `TermsInv`: a
  bond has begun, its amount fits in an `i128`, and the lock-up of a *fixed* bond
  ends in representable time (a renewed rolling one may not). `KeysHonest`: a key
  that is not recorded has not been executed under. `WealthInv`, for
  `NobodyProfits`: what an identity has and what its bond still claims are at
  most what it began with and was raised, where the bond of one that staked no
  tokens claims at most the pool.
* The penalty multiplies, divides, multiplies and divides again, and drops to 0
  when a product does not fit. Where both products fit it is monotone in the
  remaining time (`PenaltyMonotone`), and it is never above the formula without
  overflow (`PenaltyBelowFormula`), which is monotone too. So waiting never costs
  more than now, but where now's product overflows and nothing is charged; it
  then costs at most the formula (`StepCostsNoMore`). With `MAX_BOND_AMOUNT` at
  1e26 the products fit for every lock-up of less than 1.7e12 seconds.
* *Treasury.* The rounding lemma (the floored share of one source leaves the
  other non-negative and is within one unit of exact) carries `IdentityKept` and
  `ChargesKeptProportional`. `LifetimesKept` rests on a lemma that one carry is
  enough for an amount of at most `i128::MAX`. `QuorumKept` needs that the cached
  count never exceeds the different approvers, which survives `initialize`
  because the new count starts at 0; `PauseKeptAuthorised` needs the same of
  pause ballots. For `ImplementsVault` each entry point is one step of the vault: a
  sum over all tokens changes with the balance of one of them, and what
  `rescue_token` sends is at most the excess over the books. `VaultCovers`, a lemma
  about the vault alone, then gives `Covered`. `FloorKept` follows from the
  settlement being at most what was compared with the floor.
  `FreshInv` adds, until the second `initialize`, that before the first there is
  nobody and that the next identifier is free.
* *Timelock.* `RecordMatchesStatus` becomes inductive with: identifiers at or
  above the counter are free; a pending operation's eta is at least its
  queueing time plus the minimum delay; an executed operation's hash is recorded;
  a recorded hash has an executed operation, and only one. `NoneBefore` (before
  initialization nothing is queued) covers the reset of the counter.
* *MultiSig.* Typing, "identifiers above the counter are untouched" and "an
  unused identifier has no signatures", all until the second `initialize`. For
  the signers `Members`: a list without duplicates names only stored signers, each
  once. Counting list entries that signed is then an injection into the current
  signers who signed, which is the quorum; it holds across re-initialization, as
  `TypeOK` does.
* *Delegation.* `PauseInv` adds to the no-lockout properties that an open ballot
  has approvers, that they are among the stored approvals and that the cached
  count is at most their number (`BallotsCounted`); for a ballot that is not open,
  approvals are left over exactly if it ran, which is what the view infers.
  `NonceInv` adds that from the next nonce on none was spent or skipped
  (`Ahead`). The two halves disturb disjoint variables (lemma `StepKinds`).
* *Admin.* `RostersAgree` with typing and `Unfounded` (no owner, no records). The
  rank property looks at each way to gain rank and finds the other admin in it.
* *Registry.* `Reciprocal` is stated for all pairs, also for identities without
  an entry; the list lemmas and `PagesReadAll` do the rest. With that invariant the
  bindings read from either side are the same pairs (`Bindings`), so one proof
  that each entry point is a step of `Directory` serves both (`EitherSide`).
* *Arbitration.* The ballots of a dispute are kept as a set; a vote adds one whose
  voter is new, so that counts and sums grow by one ballot. The verdict is read
  off the tallies by a recursive scan over the outcomes, whose result is shown to
  be the outcome that beats all others, or the tie.
* *Verifiers.* With `Attestations` as one specification (`AttestingSpec`). Typing
  alone is missing: a lemma about the change of one verifier
  (`OneVerifierChanges`) serves the calls of `verifier.rs`, another about steps
  that write no record (`NoRecordChanges`) those of the attestations, whose writes
  of the weight are what `overruled` notes.
* *Governance.* The lemma that a quorum and a majority of the seats counted by
  `count_votes` are a majority of the recorded voices; proposing again under an
  old identifier after a second initialization is the case that needs care.
* *Drain.* `DrainsApart` becomes inductive with: a scheduled drain is due only a
  full delay after every drain so far (`DrainWaits`), and no drain lies ahead.
* *Evidence.* Pieces filed are those below the counter, and their hashes are as
  many as they are.
* *Upgrade.* The history is a `Chain`, and a proposal is named in it once exactly
  if it was executed (`ProposalsSpent`); `Undeployed` covers the first call.
* *Attestations.* List, count and records by subject; the dedup keys separately,
  since a revocation removes a key whichever call made the attestation.
* *Scanner.* `SlotsInv`: slots and holders point to each other.
* *Claims.* Queues ascend in identifiers (so a page cursor means something), an
  identifier is in one queue only, and a queue's entries have unprocessed records;
  what a pass pays and drops is disjoint from what it keeps, so the cached total
  goes down by no more than the queue does.

Only model-checked: `ExpiredClaimsSwept` and `CandidatesAreReported` (liveness,
under fairness and so `ENABLED`, which is out of the prover's reach), and the two
`doc_` runs, which show violations.

## 6. Where code and documentation part

Shown by a listed run:

* `docs/withdrawal.md:53`: withdrawal transfers USDC to the owner.
  `withdraw` (`credence_bond/src/lib.rs:1487`) moves no tokens; nor does
  `withdraw_bond`. Run `doc_withdraw_pays`.
* `docs/admin-roles.md:23`: an Admin "cannot manage other admins or super
  admins". `update_admin_role` (`admin/src/lib.rs:439`) compares the caller's rank
  with the *new* role only: an Admin makes the only SuperAdmin an Operator, and
  the guards of `remove_admin` for the last SuperAdmin are not asked. Run
  `doc_super_admins`.

Shown by a further configuration:

* `MCContracts_doc_Duplicates`, `NoDuplicateAttestations`:
  `docs/attestations.md:26` and `:47`, a duplicate is rejected. `add_attestation`
  (`credence_bond/src/lib.rs:937`) looks the dedup key up and never stores it;
  only `add_attestation_batch` (`:1112`) does. A revocation removes the key
  whichever way its attestation was made.
* `MCBond_doc_FullySlashedCanExit`: `docs/bond-state-transitions.md:41`, a fully
  slashed bond can be closed by `withdraw_bond`. It zeroes the bonded amount next
  to the slashed one and the drift check refuses.
* `MCBond_doc_LiquidatedFlagCurrent`: `is_liquidated` is false for an active bond
  (doc comment, `lib.rs:2117`). The flag is not cleared by a new bond.
* `MCBond_doc_InitializedOnce`: `initialize` fails when called again (doc
  comment, `lib.rs:547`). It does not.
* `MCBond_doc_PenaltyNeverDropped`: `docs/early-exit.md:52`, arithmetic overflow
  is rejected. The penalty becomes 0.

Noted while modelling, without a run:

* `docs/withdrawal.md:73` (lock-up enforced) against `withdraw_bond`, which looks
  at no lock-up of a fixed bond; `docs/bond-invariants.md:61` (bounded notice)
  against `create_bond`; `docs/slashing.md:147` and `:149` (recorded amounts,
  zero slash rejected) against the dust clamp and `slashing.rs:158`;
  `docs/bond-state-transitions.md:15` (a closed bond is final) against `top_up`
  and `withdraw`, which do not look at `active`. `withdraw` and `slash_bond`
  accept negative amounts, which the guards do not exclude.
* `emergency_drain_to_treasury` sends tokens that are somebody's stake and leaves
  the bonds as they are; `set_token` may replace the token of a bond that was paid
  for. In both cases exits and slashes of a recorded stake can fail for want of
  tokens, until somebody else brings them.
* `record_attestation_issued` (`verifier.rs:295`) makes an unknown attester an
  active verifier without the role. `set_attester_stake` (`lib.rs:1414`) overrides
  the weight of a verifier's stake, and `unregister_attester` (`lib.rs:730`) takes
  the attester key while the verifier role stays.
* The module comment of `same_ledger_liquidation_guard.rs` says every collateral
  increase is recorded; the writer is compiled for tests only.
* `docs/treasury.md` says `initialize` must be called once; it is not guarded, and
  `docs/pause-signer-invariant.md`'s equality of count and set does not survive a
  second call. The comments of `receive_fee` and `execute_withdrawal` leave the
  transfer to the caller; both transfer. The bound `min_amount_out` applies to
  the settled amount, not to the proposed one. The event
  `treasury_proposal_expired` is rolled back by the panic that follows it.
  Approvals of a removed treasury signer still count.
* `docs/multisig.md`: executed proposals do not clear their state; the `Expired`
  status is never stored (its write is rolled back); a duplicate in the initial
  list counts twice, and removing it can leave an empty list with a count of 1.
* `docs/credence-timelock.md` names an entry point and an event that do not exist.
* `liquidation_scanner.rs:34` and the comment of `advance_keeper_cursor` say that
  the cursor must be the value returned by the last scan; any later position is
  accepted. `Scanner` follows the code, and `CandidatesAreReported` is therefore
  about keepers who do not use it.
* Claims: an expired claim dropped by `process_claims` leaves its amount in
  `ClaimableAmount` until the queue is empty. `process_claims` and
  `cleanup_expired_claims` have no entry point in `lib.rs`, nor have `set_config`
  and `set_enabled` of `emergency.rs`.
* Drain: a schedule survives the end of the pause and can be executed in the next.
* Upgrade: a revoked authorization can never be granted again, but
  `accept_upgrade_admin` reactivates it; `execute_upgrade` without a proposal
  needs no approvals; the first implementation is written by nothing.
* Admin: `accept_ownership` does not look at the rank again; `remove_admin` never
  removes a SuperAdmin; a deactivated admin may reactivate itself.
* Arbitration: a dispute without quorum stays in voting for as long as the
  quorum is not lowered.
* Governance: nothing guards `initialize_governance`; identifiers restart and old
  ballots count for new proposals. An `execute_slash` that comes too early
  rejects the proposal for good.
* Registry: paging by offset skips an identity when an earlier one is removed
  between two pages. `lib.rs` has a stray brace at line 790, and
  `DataKey::BondCodeHash` is used without being declared.
* `weighted_attestation.rs` and `tiered_bond.rs` each hold two versions of a
  function, left by a merge; `Attestations` has the later `compute_weight`.
* `parameters.rs`: each tier threshold is bounded by itself, so thresholds may cross.

## 7. How the parts compose

`Bond` and `Treasury` stand with `Escrow`, `Registry` with `Directory`, which they implement. `Treasury` and `MultiSig`
extend `Pausable`, `Delegation` extends `DelegationPause`. `MCContracts` and
`MCServices` put independent contracts on one `LedgerClock`. There is no module in
which `Bond` and `Treasury` exchange tokens: the bond sends to a treasury
*address*, and what arrives outside `receive_fee` is `Donate` of `Treasury`.

Worth adding: an abstract execute-once specification that `Timelock` and
`MultiSig` both implement; the pause of `Pausable` proved once, by itself, for the
contracts that extend it.

## 8. Not modelled, and why

* Storage TTL and its extension: keeps entries alive, decides nothing.
* Events, error codes (`credence_errors`), the status snapshot, read-only views
  other than those a property is about.
* `parameters.rs`, `access_control.rs`, `migration.rs`, `cooldown.rs`: independent
  values with one bounded setter each; nothing in the contract reads most of them
  (`max_leverage` is a constant of `Bond`).
* `batch.rs` and with it the writer of the same-ledger guard: compiled for tests.
* Tiers, fee rates, normalization, `credence_math`: arithmetic in one expression,
  written out where a modelled operation uses it.
* The callback contract of `slash_bond` and `withdraw_bond`: external, cannot
  re-enter.
* The grace window for deadlines of attestations, reputation and statistics of
  verifiers (`set_reputation`, `record_attestation_revoked`), audit fields of
  admins: stored, and read by no modelled decision.
* One pool for bonds, verifiers' stakes and claims: the transfers of the latter two
  have no entry point in `lib.rs` (section 2, Bond).
* `templates`, `../crates`: examples, a command-line client, test fixtures.
