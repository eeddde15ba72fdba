------------------------------- MODULE Claims -------------------------------
(***************************************************************************)
(* credence_bond, claims.rs: pull payments.  A reward is queued for its    *)
(* user and paid when the user asks for it; after its time it can only be  *)
(* swept.  Beside each queue the contract caches the claimable total.      *)
(*                                                                         *)
(* A transfer that fails undoes the whole call, which is then no step.  A  *)
(* queued claim is never a processed one (a paid claim leaves the queue in *)
(* the call that pays it), so the tests of claim.processed do not appear.  *)
(***************************************************************************)
EXTENDS LedgerClock

CONSTANTS
    Users,           \* addresses with claims
    ClaimTypes,      \* ClaimType
    ClaimAmounts,    \* arguments amount
    ClaimLimits,     \* arguments max_claims and max_iter
    MaxBatchClaims,  \* MAX_BATCH_CLAIMS
    MaxClaimsPage,   \* MAX_PAGE_LIMIT
    ClaimExpiry,     \* DEFAULT_CLAIM_EXPIRY
    MaxClaims,       \* bound: claims created
    NoClaim          \* no entry in ClaimById

ASSUME ClaimsAssumption ==
    /\ ClaimAmounts \subseteq Int /\ ClaimLimits \subseteq Nat
    /\ {MaxBatchClaims, MaxClaimsPage} \subseteq Nat \ {0}
    /\ ClaimExpiry \in Nat /\ MaxClaims \in Nat

VARIABLES
    pending,         \* DataKey::PendingClaims
    claimable,       \* DataKey::ClaimableAmount
    claim_counter,   \* DataKey::ClaimCounter
    claim_by_id,     \* DataKey::ClaimById
    payouts          \* history: how often each claim was paid

claimsVars == <<pending, claimable, claim_counter, claim_by_id, payouts>>

ClaimIds == 1 .. MaxClaims

ClaimsInit ==
    /\ pending = [u \in Users |-> <<>>] /\ claimable = [u \in Users |-> 0]
    /\ claim_counter = 0 /\ claim_by_id = [c \in ClaimIds |-> NoClaim]
    /\ payouts = [c \in ClaimIds |-> 0]

Queued(u) == ToSet(pending[u])
Worth(claims) == SumFunction([c \in claims |-> c.amount])
Expired(c) == now > c.expires_at

-----------------------------------------------------------------------------
(* A slash queues a reward for the admin.                                   *)
AddPendingClaim(u, type, amount) ==
    /\ amount > 0 /\ claim_counter < MaxClaims
    /\ LET id == claim_counter + 1
           claim == [id |-> id, type |-> type, amount |-> amount,
                     expires_at |-> now + ClaimExpiry]
       IN /\ claim_counter' = id
          /\ claim_by_id' = [claim_by_id EXCEPT ![id] = [claim |-> claim, processed |-> FALSE]]
          /\ pending' = [pending EXCEPT ![u] = Append(@, claim)]
          /\ claimable' = [claimable EXCEPT ![u] = @ + amount]
    /\ UNCHANGED payouts

Limit(max) == IF max = 0 \/ max > MaxBatchClaims THEN MaxBatchClaims ELSE max

(* The claims in gone leave the queue.                                      *)
Fault_Leave(u, gone, taken) ==
    LET rest == Without(pending[u], gone)
    IN  /\ pending' = [pending EXCEPT ![u] = IF rest = <<>> THEN @ ELSE rest]
        /\ claimable' = [claimable EXCEPT ![u] = IF rest = <<>> THEN 0 ELSE @ - taken]
Leave(u, gone, taken) ==
    LET rest == Without(pending[u], gone)
    IN  /\ pending' = [pending EXCEPT ![u] = rest]
        /\ claimable' = [claimable EXCEPT ![u] = IF rest = <<>> THEN 0 ELSE @ - taken]

(* The user is paid the first claims of the wanted types ({} for all) that  *)
(* have not expired, up to the limit.  Expired claims met on the way are    *)
(* dropped; the total is reduced by what was paid only.                     *)
Wanted(c, types) == ~Expired(c) /\ (types = {} \/ c.type \in types)
WantedBefore(u, types, i) == {j \in 1 .. i - 1 : Wanted(pending[u][j], types)}
Scanned(u, types, limit) ==
    {i \in DOMAIN pending[u] : Cardinality(WantedBefore(u, types, i)) < limit}

ProcessClaims(u, types, max) ==
    LET met  == {pending[u][i] : i \in Scanned(u, types, Limit(max))}
        paid == {c \in met : Wanted(c, types)}
    IN  /\ paid # {}
        /\ claim_by_id' = [c \in ClaimIds |-> IF \E p \in paid : p.id = c
                            THEN [claim_by_id[c] EXCEPT !.processed = TRUE] ELSE claim_by_id[c]]
        /\ payouts' = [c \in ClaimIds |-> payouts[c] + (IF \E p \in paid : p.id = c THEN 1 ELSE 0)]
        /\ Leave(u, paid \cup {c \in met : Expired(c)}, Worth(paid))
        /\ UNCHANGED claim_counter

CleanupExpiredClaims(u) ==
    LET gone == {c \in Queued(u) : Expired(c)}
    IN  /\ gone # {} /\ Leave(u, gone, Worth(gone))
        /\ UNCHANGED <<claim_counter, claim_by_id, payouts>>

(* Anyone may sweep a queue; only its first claims are looked at.           *)
ExpireClaims(u, max) ==
    LET gone == {c \in {pending[u][i] : i \in {j \in DOMAIN pending[u] : j <= Limit(max)}} :
                    Expired(c)}
    IN  /\ gone # {} /\ Leave(u, gone, Worth(gone))
        /\ UNCHANGED <<claim_counter, claim_by_id, payouts>>

Sweep(u) == \E max \in ClaimLimits : ExpireClaims(u, max)

-----------------------------------------------------------------------------
(* The claims after a cursor, the identifier of one, up to the limit; a     *)
(* full page has the cursor of the next, any other one 0 for none.          *)
After(u, cursor) == Without(pending[u], {c \in Queued(u) : c.id <= cursor})

Fault_ClaimsPage(u, cursor, limit) ==
    LET size == IF limit < MaxClaimsPage THEN limit ELSE MaxClaimsPage
        rest == After(u, cursor)
    IN  IF size = 0 THEN [claims |-> <<>>, next |-> 0]
        ELSE IF Len(rest) < size THEN [claims |-> rest, next |-> 0]
        ELSE [claims |-> SubSeq(rest, 1, size), next |-> rest[size].id + 1]
ClaimsPage(u, cursor, limit) ==
    LET size == IF limit < MaxClaimsPage THEN limit ELSE MaxClaimsPage
        rest == After(u, cursor)
    IN  IF size = 0 THEN [claims |-> <<>>, next |-> 0]
        ELSE IF Len(rest) < size THEN [claims |-> rest, next |-> 0]
        ELSE [claims |-> SubSeq(rest, 1, size), next |-> rest[size].id]

ClaimsNext == \E u \in Users :
    \/ \E type \in ClaimTypes, amount \in ClaimAmounts : AddPendingClaim(u, type, amount)
    \/ \E types \in SUBSET ClaimTypes, max \in ClaimLimits : ProcessClaims(u, types, max)
    \/ CleanupExpiredClaims(u)
    \/ Sweep(u)

(* The claims alone on their ledger.                                        *)
ClaimsSpec ==
    /\ LedgerInit /\ ClaimsInit
    /\ [][\/ ClaimsNext /\ UNCHANGED now
          \/ Tick /\ UNCHANGED claimsVars]_<<now, claimsVars>>

-----------------------------------------------------------------------------
(* Properties.                                                              *)

(* A claim is paid at most once, the record kept of it says whether it was, *)
(* and until then it is waiting in exactly one queue, unless it has expired *)
(* (process_claims, whose limit splits the queue).                          *)
Waiting(c) == {u \in Users : \E q \in Queued(u) : q.id = c}
ClaimsAccounted == \A c \in 1 .. claim_counter :
    LET record == claim_by_id[c]
    IN  /\ payouts[c] = IF record.processed THEN 1 ELSE 0
        /\ Cardinality(Waiting(c)) <= IF record.processed THEN 0 ELSE 1
        /\ record.processed \/ Waiting(c) # {} \/ Expired(record.claim)

(* The cached total never promises less than what waits in the queue, and   *)
(* nothing for an empty one.  (It may promise more: process_claims drops    *)
(* expired claims and leaves their amounts in the total.)                   *)
ClaimableCovers == \A u \in Users :
    /\ claimable[u] >= Worth(Queued(u))
    /\ pending[u] = <<>> => claimable[u] = 0

(* get_pending_claims_page: "concatenating every page reproduces             *)
(* get_pending_claims", at every page size below, at and above the cap,     *)
(* whatever was paid, swept or cleaned out of the middle of the queue       *)
(* before; the pages themselves are read with no such call in between.      *)
ClaimPagesCover == \A u \in Users, limit \in 1 .. MaxClaimsPage + 1 :
    LET read[cursor \in {0} \cup ClaimIds] ==
            LET page == ClaimsPage(u, cursor, limit)
            IN  page.claims \o (IF page.next = 0 THEN <<>> ELSE read[page.next])
    IN  read[0] = pending[u]

(* Every claim that has expired is eventually out of its queue, if somebody *)
(* keeps sweeping it: however small the part of the queue a sweep looks at, *)
(* the oldest claims come first.                                            *)
ExpiredClaimsSwept == \A c \in ClaimIds :
    (\E u \in Users : \E q \in Queued(u) : q.id = c /\ Expired(q)) ~> (Waiting(c) = {})

(* Keepers are paid to sweep, and anyone else may (docs/batch-operations.md);*)
(* nobody has to process, clean up or add.                                  *)
KeepersSweep == \A u \in Users : WF_claimsVars(Sweep(u))
=============================================================================
