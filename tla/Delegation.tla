----------------------------- MODULE Delegation -----------------------------
(***************************************************************************)
(* credence_delegation: owners delegate to other addresses for a bounded   *)
(* time, revoke, and let relayers submit payloads they signed off-chain;   *)
(* anyone removes expired records; with the pause of DelegationPause.      *)
(*                                                                         *)
(* Every call that an owner authorizes spends one nonce of a single        *)
(* sequence, whether it is made directly or through a relayer.  Payloads   *)
(* may be delayed, repeated or submitted in any order: each action takes   *)
(* any payload there can be.  A call that panics spends nothing.           *)
(***************************************************************************)
EXTENDS DelegationPause

CONSTANTS
    Owners,          \* addresses that delegate
    Delegates,       \* addresses delegated to
    NoDelegation,    \* DataKey::Delegation(..) absent
    Expiries,        \* arguments expires_at
    GracePeriods,    \* arguments grace_seconds
    Schemes,         \* scheme numbers a payload or a registration may carry
    MaxDuration,     \* MAX_DELEGATION_DURATION
    MaxSpan,         \* MAX_NONCE_INVALIDATION_SPAN
    MaxNonce,        \* u64::MAX, for nonces
    MaxTimestamp,    \* u64::MAX, for times
    MaxTime          \* bound: last ledger timestamp explored

Types == {"Attestation", "Management"}
Domains == {"Delegate", "RevokeDelegation", "RevokeAttestation"}
Keys == Owners \X Delegates \X Types
Nonces == 0..MaxNonce
Record == [expires_at : Nat, revoked : BOOLEAN, revoked_at : Nat]

(* DelegatedActionPayload; here: contract_id is this contract.              *)
Payloads ==
    [domain : Domains, owner : Owners, target : Delegates, here : BOOLEAN,
     nonce : Nonces, scheme : Schemes]

ASSUME DelegationAssumption ==
    /\ Expiries \subseteq Nat /\ GracePeriods \subseteq Nat /\ Schemes \subseteq Nat
    /\ MaxDuration \in Nat /\ MaxSpan \in Nat /\ MaxNonce \in Nat
    /\ MaxTimestamp \in Nat /\ MaxTime \in Nat
    /\ NoDelegation \notin Record

VARIABLES
    now,          \* e.ledger().timestamp()
    delegation,   \* DataKey::Delegation
    nonce,        \* DataKey::Nonce
    grace,        \* DataKey::RevocationGracePeriod
    verifiers,    \* DataKey::Verifier: schemes with a registered verifier
    uses,         \* history variable: calls each nonce has authorized
    voided        \* history variable: nonces skipped by an invalidation

nonceVars == <<nonce, uses, voided>>
delegationVars == <<now, delegation, nonceVars, grace, verifiers>>
vars == <<pauseVars, delegationVars>>

Capped(t) == IF t <= MaxTimestamp THEN t ELSE MaxTimestamp

Init ==
    /\ PauseInit
    /\ now = 1 /\ grace = 0 /\ verifiers = {}
    /\ delegation = [k \in Keys |-> NoDelegation]
    /\ nonce = [o \in Owners |-> 0]
    /\ uses = [o \in Owners |-> [n \in Nonces |-> 0]]
    /\ voided = [o \in Owners |-> {}]

Initialize(a) ==
    /\ admin = NoAdmin
    /\ admin' = a
    /\ paused' = FALSE /\ pause_signer_count' = 0 /\ pause_threshold' = 0
    /\ UNCHANGED <<epoch, pause_signers, pauseBallots, delegationVars>>

-----------------------------------------------------------------------------
(* Nonces.                                                                  *)

Fault_CanConsume(o, n) == nonce[o] <= n /\ nonce[o] < MaxNonce
CanConsume(o, n) == nonce[o] = n /\ nonce[o] < MaxNonce

ConsumeNonce(o, n) ==
    /\ CanConsume(o, n)
    /\ nonce' = [nonce EXCEPT ![o] = @ + 1]
    /\ uses' = [uses EXCEPT ![o][n] = @ + 1]
    /\ UNCHANGED voided

InvalidateNonceRange(o, n) ==
    /\ ~paused
    /\ n > nonce[o] /\ n - nonce[o] <= MaxSpan
    /\ nonce' = [nonce EXCEPT ![o] = n]
    /\ voided' = [voided EXCEPT ![o] = @ \cup nonce[o]..(n - 1)]
    /\ UNCHANGED <<pauseVars, now, delegation, uses, grace, verifiers>>

-----------------------------------------------------------------------------
(* The life of a delegation record.                                         *)

Fault_Valid(k) ==
    /\ delegation[k] # NoDelegation
    /\ ~delegation[k].revoked /\ delegation[k].expires_at + grace > now

(* is_valid_delegate, and is_valid of the summary.                          *)
Valid(k) ==
    /\ delegation[k] # NoDelegation
    /\ ~delegation[k].revoked /\ delegation[k].expires_at > now

Status(d) ==
    IF d.revoked THEN "Revoked"
    ELSE IF now < d.expires_at THEN "Active"
    ELSE IF grace > 0 /\ now <= Capped(d.expires_at + grace) THEN "InGrace"
    ELSE "Expired"

CanExpireAt(t) == t > now /\ t <= Capped(now + MaxDuration)

(* Replaces whatever the key holds, a revoked record too.                   *)
Store(k, t) ==
    /\ CanExpireAt(t)
    /\ delegation' = [delegation EXCEPT ![k] =
         [expires_at |-> t, revoked |-> FALSE, revoked_at |-> 0]]

Fault_RevocationAllowed(d) ==
    now < d.expires_at \/ grace = 0 \/ now < Capped(d.expires_at + grace)

RevocationAllowed(d) ==
    now < d.expires_at \/ grace = 0 \/ now <= Capped(d.expires_at + grace)

MarkRevoked(k) ==
    /\ delegation[k] # NoDelegation
    /\ ~delegation[k].revoked /\ RevocationAllowed(delegation[k])
    /\ delegation' = [delegation EXCEPT ![k] =
         [expires_at |-> @.expires_at, revoked |-> TRUE, revoked_at |-> now]]

-----------------------------------------------------------------------------
(* Direct calls.                                                            *)

Delegate(k, t, n) ==
    /\ ~paused
    /\ ConsumeNonce(k[1], n) /\ Store(k, t)
    /\ UNCHANGED <<pauseVars, now, grace, verifiers>>

RevokeDelegation(k, n) ==
    /\ ~paused
    /\ ConsumeNonce(k[1], n) /\ MarkRevoked(k)
    /\ UNCHANGED <<pauseVars, now, grace, verifiers>>

(* The subject of an attestation is where the delegate of a delegation is.  *)
RevokeAttestation(o, subject, n) ==
    RevokeDelegation(<<o, subject, "Attestation">>, n)

-----------------------------------------------------------------------------
(* Relayed calls.                                                           *)

Decoded(scheme) == IF scheme <= 2 THEN scheme ELSE 0

(* Ed25519 is covered by the owner's authorization; the other schemes need  *)
(* a registered verifier (and one that accepts: else the call panics).      *)
SignatureVerified(scheme) == scheme = 0 \/ scheme \in verifiers

VerifyPayload(p, domain, o, target) ==
    p.domain = domain /\ p.owner = o /\ p.target = target /\ p.here

Accepts(p, domain, o, target) ==
    ~paused /\ VerifyPayload(p, domain, o, target) /\ SignatureVerified(Decoded(p.scheme))

ExecuteDelegatedDelegate(k, t, p) ==
    /\ Accepts(p, "Delegate", k[1], k[2])
    /\ ConsumeNonce(k[1], p.nonce) /\ Store(k, t)
    /\ UNCHANGED <<pauseVars, now, grace, verifiers>>

ExecuteDelegatedRevoke(k, p) ==
    /\ Accepts(p, "RevokeDelegation", k[1], k[2])
    /\ ConsumeNonce(k[1], p.nonce) /\ MarkRevoked(k)
    /\ UNCHANGED <<pauseVars, now, grace, verifiers>>

ExecuteDelegatedRevokeAttest(o, subject, p) ==
    /\ Accepts(p, "RevokeAttestation", o, subject)
    /\ ConsumeNonce(o, p.nonce) /\ MarkRevoked(<<o, subject, "Attestation">>)
    /\ UNCHANGED <<pauseVars, now, grace, verifiers>>

-----------------------------------------------------------------------------
(* Everybody and the admin.                                                 *)

CanClean(k) == delegation[k] # NoDelegation /\ now >= delegation[k].expires_at

CleanupExpired(k) ==
    /\ ~paused
    /\ CanClean(k)
    /\ delegation' = [delegation EXCEPT ![k] = NoDelegation]
    /\ UNCHANGED <<pauseVars, now, nonceVars, grace, verifiers>>

SetRevocationGracePeriod(a, g) ==
    /\ ~paused /\ StoredAdmin(a)
    /\ grace' = g
    /\ UNCHANGED <<pauseVars, now, delegation, nonceVars, verifiers>>

(* Not stopped by a pause.                                                  *)
RegisterVerifier(a, scheme) ==
    /\ StoredAdmin(a) /\ scheme <= 2
    /\ verifiers' = verifiers \cup {scheme}
    /\ UNCHANGED <<pauseVars, now, delegation, nonceVars, grace>>

(* A ledger closes; the sequence number may enter the next epoch.           *)
Tick ==
    /\ now < MaxTime /\ now' = now + 1
    /\ epoch' \in {epoch, epoch + 1} /\ epoch' <= MaxEpoch
    /\ UNCHANGED <<admin, paused, pauseConfig, pauseBallots, delegation, nonceVars,
                   grace, verifiers>>

OwnerNext(k) ==
    \/ \E t \in Expiries, n \in Nonces : Delegate(k, t, n)
    \/ \E n \in Nonces : RevokeDelegation(k, n)
    \/ \E n \in Nonces : RevokeAttestation(k[1], k[2], n)
    \/ \E t \in Expiries, p \in Payloads : ExecuteDelegatedDelegate(k, t, p)
    \/ \E p \in Payloads : ExecuteDelegatedRevoke(k, p)
    \/ \E p \in Payloads : ExecuteDelegatedRevokeAttest(k[1], k[2], p)

AdminNext(a) ==
    \/ Initialize(a)
    \/ \E g \in GracePeriods : SetRevocationGracePeriod(a, g)
    \/ \E scheme \in Schemes : RegisterVerifier(a, scheme)

Next ==
    \/ PauseNext /\ UNCHANGED delegationVars
    \/ \E k \in Keys : OwnerNext(k) \/ CleanupExpired(k)
    \/ \E o \in Owners, n \in Nonces : InvalidateNonceRange(o, n)
    \/ \E a \in Admins : AdminNext(a)
    \/ Tick

Spec == Init /\ [][Next]_vars

-----------------------------------------------------------------------------
(* Properties.                                                              *)

(* Every key of the contract holds a value of its Rust type; a nonce never  *)
(* leaves the range of u64.                                                 *)
TypeOK ==
    /\ PauseTypeOK
    /\ now \in Nat /\ grace \in Nat /\ verifiers \subseteq 0..2
    /\ delegation \in [Keys -> Record \cup {NoDelegation}]
    /\ nonce \in [Owners -> Nonces]
    /\ uses \in [Owners -> [Nonces -> Nat]]
    /\ voided \in [Owners -> SUBSET Nonces]

(* The replay-window argument of nonce.rs: whatever is delayed, repeated or *)
(* reordered, and over direct and relayed calls together, a nonce           *)
(* authorizes at most one call, and none if it was invalidated.             *)
NonceSpentOnce ==
    \A o \in Owners, n \in Nonces :
        uses[o][n] + (IF n \in voided[o] THEN 1 ELSE 0) <= 1

(* The contract's answers about one record agree at every boundary: valid   *)
(* is Active; an Active record can be revoked and not removed, one in grace *)
(* can still be revoked, one that is expired for good cannot (unless there  *)
(* is no grace period, when it always can).                                 *)
ViewsAgree ==
    \A k \in Keys : delegation[k] # NoDelegation =>
        LET d == delegation[k] IN
        /\ Valid(k) <=> Status(d) = "Active"
        /\ Status(d) = "Active" => RevocationAllowed(d) /\ ~CanClean(k)
        /\ Status(d) = "InGrace" => RevocationAllowed(d) /\ CanClean(k)
        /\ Status(d) = "Expired" => (RevocationAllowed(d) <=> grace = 0)

(* Authority comes only from the owner: a delegate becomes valid only in a  *)
(* step that spends the owner's next nonce, never through time, the grace   *)
(* period, an invalidation or a cleanup, and never while paused.  In        *)
(* particular a revoked delegation stays revoked until delegated anew.      *)
AuthorityIsSigned ==
    [][\A k \in Keys : ~Valid(k) /\ Valid(k)' =>
           /\ ~paused
           /\ \E n \in Nonces : uses'[k[1]][n] > uses[k[1]][n]]_vars
=============================================================================
