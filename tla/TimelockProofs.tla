--------------------------- MODULE TimelockProofs ---------------------------
(***************************************************************************)
(* Proofs about Timelock, for every value of its constants.  The inductive *)
(* invariant adds to the properties that identifiers are handed out in     *)
(* order, that the eta of an operation is at least the minimum delay after *)
(* its queuing, and that two executed operations never share a hash.       *)
(***************************************************************************)
EXTENDS Timelock, TLAPS

USE SortsAssumption, NumbersAssumption, NoOperationAssumption

Stored(id) == operation[id] # NoOperation
Done(id) == Stored(id) /\ operation[id].status = "Executed"

Allocated == \A id \in Ids : Stored(id) <=> id < counter
Delayed == \A id \in Ids : Stored(id) => operation[id].eta >= queued_at[id] + MinDelay
DoneIsRecorded == \A id \in Ids : Done(id) => operation[id].op_hash \in executed_op
RecordedIsDone == \A h \in executed_op : \E id \in Ids : Done(id) /\ operation[id].op_hash = h
DoneIsUnique ==
    \A i, j \in Ids : Done(i) /\ Done(j) /\ operation[i].op_hash = operation[j].op_hash => i = j

IInv ==
    /\ TypeOK /\ ExecutedOnce
    /\ Allocated /\ Delayed /\ DoneIsRecorded /\ RecordedIsDone /\ DoneIsUnique

-----------------------------------------------------------------------------
(* The initial state satisfies the invariant.                               *)
LEMMA InitIInv == Init => IInv
<1> SUFFICES ASSUME Init PROVE IInv
  OBVIOUS
<1>1. TypeOK
  BY DEF Init, TypeOK, Ids
<1>2. ExecutedOnce
  BY DEF Init, ExecutedOnce
<1>3. Allocated /\ Delayed
  BY DEF Init, Allocated, Delayed, Stored, Ids
<1>4. DoneIsRecorded /\ RecordedIsDone /\ DoneIsUnique
  BY DEF Init, DoneIsRecorded, RecordedIsDone, DoneIsUnique, Done, Stored
<1> QED
  BY <1>1, <1>2, <1>3, <1>4 DEF IInv

(* Queuing an operation keeps the invariant: the identifier is fresh and    *)
(* its hash has not been executed.                                          *)
LEMMA QueueIInv ==
  ASSUME IInv, NEW a \in Admins, NEW h \in Hashes, NEW delay \in Delays,
         QueueOperation(a, h, delay)
  PROVE  IInv'
<1> DEFINE op == [op_hash |-> h, eta |-> now + delay,
                  expires_at |-> now + delay + GracePeriod, status |-> "Pending"]
<1>1. /\ counter \in Ids /\ counter' = counter + 1 /\ counter \in Nat
      /\ operation' = [operation EXCEPT ![counter] = op]
      /\ queued_at' = [queued_at EXCEPT ![counter] = now]
      /\ UNCHANGED <<now, admin, executed_op, executions>>
      /\ delay >= MinDelay /\ now \in Nat /\ delay \in Nat
  BY DEF IInv, QueueOperation, TypeOK, Ids, LongEnough
<1>2. /\ op \in QueuedOperation /\ op # NoOperation
      /\ op.status # "Executed" /\ op.op_hash = h /\ op.eta = now + delay
  BY <1>1 DEF QueuedOperation, Statuses
<1> HIDE DEF op
<1>3. /\ operation \in [Ids -> QueuedOperation \cup {NoOperation}]
      /\ queued_at \in [Ids -> Nat]
  BY DEF IInv, TypeOK
<1>4. \A id \in Ids : /\ id # counter => operation'[id] = operation[id] /\ queued_at'[id] = queued_at[id]
                      /\ id = counter => operation'[id] = op /\ queued_at'[id] = now
  BY <1>1, <1>3
<1>5. TypeOK'
  <2>1. operation' \in [Ids -> QueuedOperation \cup {NoOperation}]
    BY <1>1, <1>2, <1>3
  <2>2. queued_at' \in [Ids -> Nat]
    BY <1>1, <1>3
  <2>3. counter' \in 0..MaxOperations
    BY <1>1 DEF Ids
  <2> QED
    BY <2>1, <2>2, <2>3, <1>1 DEF IInv, TypeOK
<1>6. ExecutedOnce'
  BY <1>1 DEF IInv, ExecutedOnce
<1>7. Allocated' /\ Delayed'
  <2>1. Allocated'
    BY <1>1, <1>2, <1>4 DEF IInv, Allocated, Stored, Ids
  <2>2. Delayed'
    BY <1>1, <1>2, <1>4 DEF IInv, Delayed, Stored, Ids
  <2> QED
    BY <2>1, <2>2
<1>8. \A id \in Ids : /\ Done(id)' <=> Done(id)
                      /\ Done(id) => operation'[id] = operation[id]
  BY <1>1, <1>2, <1>4 DEF IInv, Allocated, Done, Stored
<1>9. DoneIsRecorded' /\ RecordedIsDone' /\ DoneIsUnique'
  BY <1>1, <1>8 DEF IInv, DoneIsRecorded, RecordedIsDone, DoneIsUnique
<1> QED
  BY <1>5, <1>6, <1>7, <1>9 DEF IInv

(* Executing an operation keeps the invariant: its hash was not recorded,   *)
(* so no other operation of that hash has been executed.                    *)
LEMMA ExecuteIInv ==
  ASSUME IInv, NEW id \in Ids, ExecuteOperation(id)
  PROVE  IInv'
<1> DEFINE h == operation[id].op_hash
           op == [operation[id] EXCEPT !.status = "Executed"]
<1>1. /\ Pending(id) /\ h \notin executed_op
      /\ executed_op' = executed_op \cup {h}
      /\ operation' = [operation EXCEPT ![id] = op]
      /\ executions' = [executions EXCEPT ![h] = @ + 1]
      /\ UNCHANGED <<now, admin, counter, queued_at>>
  BY DEF ExecuteOperation, CanExecute, Marked
<1>2. /\ operation \in [Ids -> QueuedOperation \cup {NoOperation}]
      /\ executions \in [Hashes -> Nat] /\ executed_op \subseteq Hashes
  BY DEF IInv, TypeOK
<1>3. operation[id] \in QueuedOperation
  BY <1>1, <1>2 DEF Pending
<1>4. /\ op \in QueuedOperation /\ op # NoOperation /\ h \in Hashes
      /\ op.op_hash = h /\ op.status = "Executed" /\ op.eta = operation[id].eta
  BY <1>3 DEF QueuedOperation, Statuses
<1> HIDE DEF op, h
<1>5. /\ operation'[id] = op
      /\ \A i \in Ids : i # id => operation'[i] = operation[i]
  BY <1>1, <1>2
<1>6. TypeOK'
  <2>1. operation' \in [Ids -> QueuedOperation \cup {NoOperation}]
    BY <1>1, <1>2, <1>4
  <2>2. executions' \in [Hashes -> Nat] /\ executed_op' \subseteq Hashes
    BY <1>1, <1>2, <1>4
  <2> QED
    BY <2>1, <2>2, <1>1 DEF IInv, TypeOK
<1>7. ExecutedOnce'
  <2>1. executions[h] = 0
    BY <1>1, <1>2, <1>4 DEF IInv, ExecutedOnce
  <2>2. /\ executions'[h] = 1
        /\ \A g \in Hashes : g # h => executions'[g] = executions[g]
    BY <2>1, <1>1, <1>2, <1>4
  <2> QED
    BY <2>2, <1>1, <1>4 DEF IInv, ExecutedOnce
<1>8. Allocated' /\ Delayed'
  <2>1. Stored(id) /\ Stored(id)'
    BY <1>1, <1>4, <1>5 DEF Pending, Stored
  <2> QED
    BY <2>1, <1>1, <1>4, <1>5 DEF IInv, Allocated, Delayed, Stored
<1>9. /\ Done(id)' /\ operation'[id].op_hash = h
      /\ \A i \in Ids : i # id => Done(i)' = Done(i)
      /\ ~Done(id)
  BY <1>1, <1>4, <1>5 DEF Done, Stored, Pending
<1>10. \A i \in Ids : Done(i) => operation[i].op_hash # h
  BY <1>1 DEF IInv, DoneIsRecorded
<1>11. DoneIsRecorded' /\ RecordedIsDone' /\ DoneIsUnique'
  <2>1. DoneIsRecorded'
    BY <1>1, <1>5, <1>9 DEF IInv, DoneIsRecorded
  <2>2. RecordedIsDone'
    BY <1>1, <1>5, <1>9 DEF IInv, RecordedIsDone
  <2>3. DoneIsUnique'
    BY <1>5, <1>9, <1>10 DEF IInv, DoneIsUnique
  <2> QED
    BY <2>1, <2>2, <2>3
<1> QED
  BY <1>6, <1>7, <1>8, <1>11 DEF IInv

(* Cancelling touches a pending operation only.                             *)
LEMMA CancelIInv ==
  ASSUME IInv, NEW a \in Admins, NEW id \in Ids, CancelOperation(a, id)
  PROVE  IInv'
<1> DEFINE op == [operation[id] EXCEPT !.status = "Cancelled"]
<1>1. /\ Pending(id)
      /\ operation' = [operation EXCEPT ![id] = op]
      /\ UNCHANGED <<now, admin, counter, executed_op, queued_at, executions>>
  BY DEF CancelOperation
<1>2. operation \in [Ids -> QueuedOperation \cup {NoOperation}]
  BY DEF IInv, TypeOK
<1>3. operation[id] \in QueuedOperation
  BY <1>1, <1>2 DEF Pending
<1>4. /\ op \in QueuedOperation /\ op # NoOperation
      /\ op.status # "Executed" /\ op.eta = operation[id].eta
  BY <1>3 DEF QueuedOperation, Statuses
<1> HIDE DEF op
<1>5. /\ operation'[id] = op
      /\ \A i \in Ids : i # id => operation'[i] = operation[i]
  BY <1>1, <1>2
<1>6. TypeOK'
  <2>1. operation' \in [Ids -> QueuedOperation \cup {NoOperation}]
    BY <1>1, <1>2, <1>4
  <2> QED
    BY <2>1, <1>1 DEF IInv, TypeOK
<1>7. ExecutedOnce'
  BY <1>1 DEF IInv, ExecutedOnce
<1>8. Allocated' /\ Delayed'
  <2>1. Stored(id) /\ Stored(id)'
    BY <1>1, <1>4, <1>5 DEF Pending, Stored
  <2> QED
    BY <2>1, <1>1, <1>4, <1>5 DEF IInv, Allocated, Delayed, Stored
<1>9. \A i \in Ids : /\ Done(i)' <=> Done(i)
                     /\ Done(i) => operation'[i] = operation[i]
  BY <1>1, <1>4, <1>5 DEF Done, Stored, Pending
<1>10. DoneIsRecorded' /\ RecordedIsDone' /\ DoneIsUnique'
  BY <1>1, <1>9 DEF IInv, DoneIsRecorded, RecordedIsDone, DoneIsUnique
<1> QED
  BY <1>6, <1>7, <1>8, <1>10 DEF IInv

(* Initialization happens once, before anything is queued.                  *)
LEMMA InitializeIInv ==
  ASSUME IInv, counter = 0, NEW a \in Admins, Initialize(a)
  PROVE  IInv'
<1>1. /\ admin' \in Admins /\ counter' = counter
      /\ UNCHANGED <<now, operation, executed_op, queued_at, executions>>
  BY DEF Initialize
<1>2. TypeOK'
  BY <1>1 DEF IInv, TypeOK
<1>3. ExecutedOnce'
  BY <1>1 DEF IInv, ExecutedOnce
<1>4. Allocated' /\ Delayed' /\ DoneIsRecorded' /\ RecordedIsDone' /\ DoneIsUnique'
  BY <1>1 DEF IInv, Allocated, Delayed, DoneIsRecorded, RecordedIsDone, DoneIsUnique,
              Done, Stored
<1> QED
  BY <1>2, <1>3, <1>4 DEF IInv

(* Before the admin is known nothing can have been queued.                  *)
NoneBefore == admin = NoAdmin => counter = 0

LEMMA NextIInv == IInv /\ NoneBefore /\ [Next]_vars => IInv' /\ NoneBefore'
<1> SUFFICES ASSUME IInv, NoneBefore, [Next]_vars PROVE IInv' /\ NoneBefore'
  OBVIOUS
<1>1. ASSUME NEW a \in Admins, Initialize(a) PROVE IInv' /\ NoneBefore'
  BY <1>1, InitializeIInv DEF Initialize, NoneBefore
<1>2. ASSUME NEW a \in Admins, NEW h \in Hashes, NEW delay \in Delays,
             QueueOperation(a, h, delay)
      PROVE  IInv' /\ NoneBefore'
  BY <1>2, QueueIInv DEF QueueOperation, StoredAdmin, NoneBefore
<1>3. ASSUME NEW id \in Ids, ExecuteOperation(id) PROVE IInv' /\ NoneBefore'
  BY <1>3, ExecuteIInv DEF ExecuteOperation, NoneBefore
<1>4. ASSUME NEW a \in Admins, NEW id \in Ids, CancelOperation(a, id)
      PROVE  IInv' /\ NoneBefore'
  BY <1>4, CancelIInv DEF CancelOperation, NoneBefore
<1>5. CASE Tick \/ UNCHANGED vars
  <2>1. /\ now' \in Nat
        /\ UNCHANGED <<admin, counter, operation, executed_op, queued_at, executions>>
    BY <1>5 DEF Tick, vars, IInv, TypeOK
  <2>2. TypeOK'
    BY <2>1 DEF IInv, TypeOK
  <2>3. ExecutedOnce' /\ Allocated' /\ Delayed'
    BY <2>1 DEF IInv, ExecutedOnce, Allocated, Delayed, Stored
  <2>4. DoneIsRecorded' /\ RecordedIsDone' /\ DoneIsUnique'
    BY <2>1 DEF IInv, DoneIsRecorded, RecordedIsDone, DoneIsUnique, Done, Stored
  <2> QED
    BY <2>1, <2>2, <2>3, <2>4 DEF IInv, NoneBefore
<1> QED
  BY <1>1, <1>2, <1>3, <1>4, <1>5 DEF Next

LEMMA Invariance == Spec => [](IInv /\ NoneBefore)
<1>1. Init => IInv /\ NoneBefore
  BY InitIInv DEF Init, NoneBefore
<1> QED
  BY <1>1, NextIInv, PTL DEF Spec

-----------------------------------------------------------------------------
(* Every key holds a value of its type in every reachable state.            *)
THEOREM TypeCorrect == Spec => []TypeOK
<1>1. IInv => TypeOK
  BY DEF IInv
<1> QED
  BY <1>1, Invariance, PTL

(* Execute-once holds for any number of hashes and operations.              *)
THEOREM OnceKept == Spec => []ExecutedOnce
<1>1. IInv => ExecutedOnce
  BY DEF IInv
<1> QED
  BY <1>1, Invariance, PTL

(* So does the agreement of the hash record with the operations' statuses.  *)
THEOREM RecordKept == Spec => []RecordMatchesStatus
<1>1. IInv => RecordMatchesStatus
  <2> SUFFICES ASSUME IInv, NEW h \in Hashes
               PROVE  /\ h \in executed_op => \E id \in Ids : ExecutedIds(h) = {id}
                      /\ h \notin executed_op => ExecutedIds(h) = {}
    BY DEF RecordMatchesStatus
  <2>1. ASSUME h \in executed_op PROVE \E id \in Ids : ExecutedIds(h) = {id}
    <3>1. PICK id \in Ids : Done(id) /\ operation[id].op_hash = h
      BY <2>1 DEF IInv, RecordedIsDone
    <3>2. \A i \in Ids : Done(i) /\ operation[i].op_hash = h => i = id
      BY <3>1 DEF IInv, DoneIsUnique
    <3>3. ExecutedIds(h) = {id}
      BY <3>1, <3>2 DEF ExecutedIds, Done, Stored
    <3> QED
      BY <3>3
  <2>2. ASSUME h \notin executed_op PROVE ExecutedIds(h) = {}
    BY <2>2 DEF IInv, DoneIsRecorded, ExecutedIds, Done, Stored
  <2> QED
    BY <2>1, <2>2
<1> QED
  BY <1>1, Invariance, PTL

(* Whatever delays, clocks and bounds: no execution before the minimum      *)
(* delay after that operation was queued.                                   *)
THEOREM NeverEarlyKept == Spec => NeverEarly
<1>1. IInv /\ [Next]_vars =>
        [\A id \in Ids : Pending(id) /\ executed_op' # executed_op /\ ~Pending(id)'
           => now >= queued_at[id] + MinDelay]_vars
  <2> SUFFICES ASSUME IInv, Next, NEW id \in Ids,
                      Pending(id), executed_op' # executed_op, ~Pending(id)'
               PROVE  now >= queued_at[id] + MinDelay
    OBVIOUS
  <2>1. PICK i \in Ids : ExecuteOperation(i)
    BY DEF Next, Initialize, QueueOperation, CancelOperation, Tick
  <2>2. i = id
    <3> SUFFICES ASSUME i # id PROVE FALSE
      OBVIOUS
    <3>1. operation'[id] = operation[id]
      BY <2>1 DEF ExecuteOperation, IInv, TypeOK
    <3> QED
      BY <3>1 DEF Pending
  <2>3. operation[id] \in QueuedOperation /\ now >= operation[id].eta
    BY <2>1, <2>2 DEF ExecuteOperation, CanExecute, Pending, InWindow, IInv, TypeOK
  <2>4. operation[id].eta \in Nat /\ now \in Nat /\ queued_at[id] \in Nat
    BY <2>3 DEF QueuedOperation, IInv, TypeOK
  <2>5. operation[id].eta >= queued_at[id] + MinDelay
    BY DEF IInv, Delayed, Stored, Pending
  <2> QED
    BY <2>3, <2>4, <2>5
<1> QED
  BY <1>1, Invariance, PTL DEF Spec, NeverEarly

(* A stored operation keeps its hash and its window, and an executed or     *)
(* cancelled one never changes again.                                       *)
THEOREM FinalKept == Spec => SettledIsFinal
<1>1. IInv /\ [Next]_vars => [\A id \in Ids : Kept(id)]_vars
  <2> SUFFICES ASSUME IInv, Next, NEW id \in Ids, operation[id] # NoOperation
               PROVE  Kept(id)
    BY DEF Kept
  <2>1. /\ operation \in [Ids -> QueuedOperation \cup {NoOperation}]
        /\ operation[id] \in QueuedOperation
    BY DEF IInv, TypeOK
  <2>2. CASE operation'[id] = operation[id]
    BY <2>2 DEF Kept
  <2>3. ASSUME NEW i \in Ids, Pending(i), NEW s \in Statuses,
               operation' = [operation EXCEPT ![i].status = s]
        PROVE  Kept(id)
    <3>1. CASE i # id
      BY <3>1, <2>1, <2>2, <2>3
    <3>2. CASE i = id
      <4>1. operation'[id] = [operation[id] EXCEPT !.status = s]
        BY <3>2, <2>1, <2>3
      <4>2. /\ operation'[id] \in QueuedOperation
            /\ operation'[id].op_hash = operation[id].op_hash
            /\ operation'[id].eta = operation[id].eta
            /\ operation'[id].expires_at = operation[id].expires_at
        BY <4>1, <2>1 DEF QueuedOperation
      <4>3. operation[id].status = "Pending"
        BY <3>2, <2>3 DEF Pending
      <4> QED
        BY <4>2, <4>3 DEF Kept
    <3> QED
      BY <3>1, <3>2
  <2>4. ASSUME NEW i \in Ids, ExecuteOperation(i) PROVE Kept(id)
    <3>1. "Executed" \in Statuses /\ Pending(i)
      BY <2>4 DEF Statuses, ExecuteOperation, CanExecute
    <3> QED
      BY <3>1, <2>3, <2>4 DEF ExecuteOperation
  <2>5. ASSUME NEW a \in Admins, NEW i \in Ids, CancelOperation(a, i) PROVE Kept(id)
    <3>1. "Cancelled" \in Statuses /\ Pending(i)
      BY <2>5 DEF Statuses, CancelOperation
    <3> QED
      BY <3>1, <2>3, <2>5 DEF CancelOperation
  <2>6. ASSUME NEW a \in Admins, NEW h \in Hashes, NEW delay \in Delays,
               QueueOperation(a, h, delay)
        PROVE  Kept(id)
    <3>1. id # counter
      BY DEF IInv, Allocated, Stored, Ids, TypeOK
    <3>2. operation'[id] = operation[id]
      BY <3>1, <2>1, <2>6 DEF QueueOperation
    <3> QED
      BY <3>2, <2>2
  <2>7. ASSUME NEW a \in Admins, Initialize(a) PROVE Kept(id)
    BY <2>7, <2>2 DEF Initialize
  <2>8. CASE Tick
    BY <2>8, <2>2 DEF Tick
  <2> QED
    BY <2>4, <2>5, <2>6, <2>7, <2>8 DEF Next
<1> QED
  BY <1>1, Invariance, PTL DEF Spec, SettledIsFinal
=============================================================================
