------------------------------ MODULE Timelock ------------------------------
(***************************************************************************)
(* contracts/timelock/src/lib.rs: the admin queues operations, known by    *)
(* their hash, with a delay; anyone executes one between its eta and the   *)
(* end of the grace period; the admin may cancel it before that.  Several  *)
(* operations of one hash may be queued at a time.                         *)
(***************************************************************************)
EXTENDS Integers, FiniteSets

CONSTANTS
    Admins,          \* addresses that may hold DataKey::Admin
    NoAdmin,         \* DataKey::Admin absent
    Hashes,          \* op_hash values
    NoOperation,     \* DataKey::Operation(id) absent
    Delays,          \* u64 delays a caller may pass
    MinDelay,        \* min_delay_seconds()
    GracePeriod,     \* GRACE_PERIOD
    MaxTimestamp,    \* u64::MAX
    MaxTime,         \* bound: last ledger timestamp explored
    MaxOperations    \* bound: operations queued

ASSUME SortsAssumption == NoAdmin \notin Admins
ASSUME NumbersAssumption ==
    /\ Delays \subseteq Nat /\ MinDelay \in Nat /\ GracePeriod \in Nat
    /\ MaxTimestamp \in Nat /\ MaxTime \in Nat /\ MaxOperations \in Nat

Ids == 0..(MaxOperations - 1)
Statuses == {"Pending", "Executed", "Cancelled"}
QueuedOperation ==
    [op_hash : Hashes, eta : Nat, expires_at : Nat, status : Statuses]

ASSUME NoOperationAssumption == NoOperation \notin QueuedOperation

VARIABLES
    now,          \* e.ledger().timestamp()
    admin,        \* DataKey::Admin
    counter,      \* DataKey::OperationCounter
    operation,    \* DataKey::Operation
    executed_op,  \* DataKey::ExecutedOp
    queued_at,    \* history variable: when each operation was queued
    executions    \* history variable: executions of each hash

vars == <<now, admin, counter, operation, executed_op, queued_at, executions>>

StoredAdmin(a) == admin # NoAdmin /\ a = admin
Pending(id) == operation[id] # NoOperation /\ operation[id].status = "Pending"

-----------------------------------------------------------------------------
Init ==
    /\ now = 1 /\ admin = NoAdmin
    /\ counter = 0 /\ operation = [id \in Ids |-> NoOperation]
    /\ executed_op = {}
    /\ queued_at = [id \in Ids |-> 0]
    /\ executions = [h \in Hashes |-> 0]

Initialize(a) ==
    /\ admin = NoAdmin
    /\ admin' = a /\ counter' = 0
    /\ UNCHANGED <<now, operation, executed_op, queued_at, executions>>

Fault_LongEnough(delay) == delay + 1 >= MinDelay
LongEnough(delay) == delay >= MinDelay

QueueOperation(a, h, delay) ==
    /\ StoredAdmin(a)
    /\ LongEnough(delay)
    /\ h \notin executed_op
    /\ counter < MaxOperations
    /\ now + delay + GracePeriod <= MaxTimestamp
    /\ counter' = counter + 1
    /\ operation' = [operation EXCEPT ![counter] =
         [op_hash |-> h, eta |-> now + delay,
          expires_at |-> now + delay + GracePeriod, status |-> "Pending"]]
    /\ queued_at' = [queued_at EXCEPT ![counter] = now]
    /\ UNCHANGED <<now, admin, executed_op, executions>>

(* Both ends of the window are in it.                                       *)
InWindow(op) == op.eta <= now /\ now <= op.expires_at

Fault_CanExecute(id) == Pending(id) /\ InWindow(operation[id])

Fault_CanExecuteCancelled(id) ==
    /\ operation[id] # NoOperation /\ operation[id].status # "Executed"
    /\ InWindow(operation[id])
    /\ operation[id].op_hash \notin executed_op

CanExecute(id) ==
    /\ Pending(id) /\ InWindow(operation[id])
    /\ operation[id].op_hash \notin executed_op

Fault_Marked(h) == executed_op
Marked(h) == executed_op \cup {h}

(* Permissionless.                                                          *)
ExecuteOperation(id) ==
    LET h == operation[id].op_hash
    IN  /\ CanExecute(id)
        /\ executed_op' = Marked(h)
        /\ operation' = [operation EXCEPT ![id].status = "Executed"]
        /\ executions' = [executions EXCEPT ![h] = @ + 1]
        /\ UNCHANGED <<now, admin, counter, queued_at>>

CancelOperation(a, id) ==
    /\ StoredAdmin(a) /\ Pending(id)
    /\ operation' = [operation EXCEPT ![id].status = "Cancelled"]
    /\ UNCHANGED <<now, admin, counter, executed_op, queued_at, executions>>

Tick ==
    /\ now < MaxTime
    /\ now' = now + 1
    /\ UNCHANGED <<admin, counter, operation, executed_op, queued_at, executions>>

Next ==
    \/ \E a \in Admins : Initialize(a)
    \/ \E a \in Admins, h \in Hashes, delay \in Delays : QueueOperation(a, h, delay)
    \/ \E id \in Ids : ExecuteOperation(id)
    \/ \E a \in Admins, id \in Ids : CancelOperation(a, id)
    \/ Tick

Spec == Init /\ [][Next]_vars

-----------------------------------------------------------------------------
(* Properties.                                                              *)

(* Every key of the timelock holds a value of its Rust type.                *)
TypeOK ==
    /\ now \in Nat /\ admin \in Admins \cup {NoAdmin}
    /\ counter \in 0..MaxOperations
    /\ operation \in [Ids -> QueuedOperation \cup {NoOperation}]
    /\ executed_op \subseteq Hashes
    /\ queued_at \in [Ids -> Nat]
    /\ executions \in [Hashes -> Nat]

ExecutedIds(h) ==
    {id \in Ids : operation[id] # NoOperation /\ operation[id].op_hash = h
                    /\ operation[id].status = "Executed"}

(* Execute-once: however many operations of one hash are queued, before or  *)
(* after each other, in whatever order they mature and are cancelled, the   *)
(* hash is executed at most once, and is recorded exactly when it was.      *)
ExecutedOnce ==
    \A h \in Hashes :
        /\ executions[h] <= 1
        /\ h \in executed_op <=> executions[h] = 1

(* The record by hash and the statuses of the operations tell one story:    *)
(* an executed hash has exactly one executed operation, any other none.     *)
RecordMatchesStatus ==
    \A h \in Hashes :
        /\ h \in executed_op => \E id \in Ids : ExecutedIds(h) = {id}
        /\ h \notin executed_op => ExecutedIds(h) = {}

(* docs/timelock.md: nothing is executed before the minimum delay has       *)
(* passed since that same operation was queued.                             *)
NeverEarly ==
    [][\A id \in Ids : Pending(id) /\ executed_op' # executed_op /\ ~Pending(id)'
         => now >= queued_at[id] + MinDelay]_vars

Kept(id) ==
    operation[id] # NoOperation =>
        /\ operation'[id] # NoOperation
        /\ operation'[id].op_hash = operation[id].op_hash
        /\ operation'[id].eta = operation[id].eta
        /\ operation'[id].expires_at = operation[id].expires_at
        /\ operation[id].status # "Pending" => operation'[id] = operation[id]

(* docs/timelock.md: "Cancelled and already-executed operations are         *)
(* permanently locked", and a queued operation is never rewritten.          *)
SettledIsFinal == [][\A id \in Ids : Kept(id)]_vars
=============================================================================
