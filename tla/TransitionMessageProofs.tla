----------------------- MODULE TransitionMessageProofs -----------------------
(***************************************************************************)
(* Theorems of TransitionMessage for every number of workers, instances,   *)
(* rows, errors and kills, and every set of transitions.                   *)
(***************************************************************************)
EXTENDS TransitionMessage, FiniteSetTheorems, TLAPS

(***************************************************************************)
(* Records: what the accounting helpers return.                            *)
(***************************************************************************)

(* An uncompleted row is a row: an id not yet used is not one. *)
LEMMA PendingIsMessage ==
  ASSUME TypeOK, NEW r \in Rows, Pending(r)
  PROVE  msg[r] \in Message
  BY DEF TypeOK, Pending, NoMessage

(* A completed row is a row too. *)
LEMMA CompletedIsMessage ==
  ASSUME TypeOK, NEW r \in Rows, msg[r].status \in Completed
  PROVE  msg[r] \in Message
  BY DEF TypeOK, Completed, NoMessage

(* Charging a row adds one error and leaves its place alone. *)
LEMMA ChargeLemma ==
  ASSUME NEW m \in Message
  PROVE  /\ Charge(m) \in Message
         /\ Charge(m).status = m.status
         /\ Charge(m).inst = m.inst
         /\ Charge(m).tr = m.tr
         /\ Charge(m).errors = m.errors + 1
<1> DEFINE n == [m EXCEPT !.errors = @ + 1]
<1>1. n \in Message
  BY DEF Message
<1>2. [n EXCEPT !.waiting = TRUE, !.charged = TRUE] \in Message
  <2> HIDE DEF n
  <2> QED  BY <1>1 DEF Message
<1>3. Charge(m) = [n EXCEPT !.waiting = TRUE, !.charged = TRUE]
  BY DEF Charge, Message
<1>4. Charge(m) \in Message
  <2> HIDE DEF n
  <2> QED  BY <1>2, <1>3
<1> QED
  BY <1>4 DEF Charge, Message

(* Ending a row changes its status only. *)
LEMMA EndLemma ==
  ASSUME NEW m \in Message, NEW s \in Completed \cup {"deleted"}
  PROVE  /\ End(m, s) \in Message
         /\ End(m, s).status = s
         /\ End(m, s).inst = m.inst
         /\ End(m, s).tr = m.tr
         /\ End(m, s).errors = m.errors
  BY DEF End, Message, Completed

(* A row that enqueue creates. *)
LEMMA NewMessageLemma ==
  ASSUME NEW i \in Instances, NEW t \in Transitions
  PROVE  /\ NewMessage(i, t) \in Message
         /\ NewMessage(i, t).status = "pending"
         /\ NewMessage(i, t).inst = i
         /\ NewMessage(i, t).tr = t
  BY DEF NewMessage, Message, Completed

-----------------------------------------------------------------------------
(***************************************************************************)
(* The inductive invariant.                                                *)
(***************************************************************************)

(* The partial unique constraint: an instance and process never have two   *)
(* uncompleted rows.                                                       *)
OneUncompletedRow ==
  \A q, r \in Rows :
    Pending(q) /\ Pending(r) /\ msg[q].inst = msg[r].inst => q = r

(* What the watchdog found on the row it holds stays true to its commit.   *)
WatchedIsAbandoned ==
  \A w \in Workers : pc[w] = "watchwrite" =>
    msg[task[w]].clock = "overdue" /\ ~msg[task[w]].charged

(* A worker owes hooks only for an outcome that is on the row already.     *)
HooksAreOwed ==
  \A w \in Workers :
    /\ pc[w] = "hooks" =>
         \/ outcome[w] = "success" /\ msg[task[w]].status \in {"done", "deleted"}
         \/ outcome[w] = "failure" /\ msg[task[w]].status \in {"failed", "deleted"}
    /\ pc[w] = "nethooks" => msg[task[w]].status \in {"failed", "deleted"}

Inv ==
  /\ TypeOK
  /\ OneUncompletedRow
  /\ RowLockGuardsAttempt
  /\ WatchedIsAbandoned
  /\ HooksAreOwed
  /\ HooksRunOnce

-----------------------------------------------------------------------------
(***************************************************************************)
(* Types.                                                                  *)
(***************************************************************************)

(* Rows may change state as long as each changed record is a row. *)
LEMMA PutType ==
  ASSUME TypeOK, NEW r \in Rows, NEW m \in Message, Put(r, m)
  PROVE  msg' \in [Rows -> Message \cup {NoMessage}]
  BY DEF TypeOK, Put

(* A worker back in its loop is well typed. *)
LEMMA ReturnType ==
  ASSUME TypeOK, NEW w \in Workers, Return(w)
  PROVE  /\ pc' \in [Workers -> Places]
         /\ task' \in [Workers -> Rows \cup {NoRow}]
         /\ \A v \in Workers : pc'[v] # "idle" => task'[v] \in Rows
         /\ outcome' \in [Workers -> {"none", "retry", "success", "failure"}]
  BY DEF TypeOK, Return, Go, Places

(* A worker that moves on with the row it has is well typed. *)
LEMMA GoType ==
  ASSUME TypeOK, NEW w \in Workers, NEW p \in Places,
         pc[w] # "idle", Go(w, p), UNCHANGED task
  PROVE  /\ pc' \in [Workers -> Places]
         /\ task' \in [Workers -> Rows \cup {NoRow}]
         /\ \A v \in Workers : pc'[v] # "idle" => task'[v] \in Rows
  BY DEF TypeOK, Go

(* So is a worker that picks a row up. *)
LEMMA PickType ==
  ASSUME TypeOK, NEW w \in Workers, NEW p \in Places, NEW r \in Rows,
         Go(w, p), task' = [task EXCEPT ![w] = r]
  PROVE  /\ pc' \in [Workers -> Places]
         /\ task' \in [Workers -> Rows \cup {NoRow}]
         /\ \A v \in Workers : pc'[v] # "idle" => task'[v] \in Rows
  BY DEF TypeOK, Go

(* The state writes of a worker stay inside the column's values. *)
LEMMA StateWriteType ==
  ASSUME TypeOK, NEW r \in Rows, Pending(r), WriteTarget(r) \/ WriteFailedState(r)
  PROVE  field' \in [Instances -> States]
<1>1. msg[r].tr \in Transitions /\ msg[r].inst \in Instances
  BY PendingIsMessage DEF Message
<1>2. CASE WriteTarget(r)
  BY <1>1, <1>2, TransitionAssumption DEF TypeOK, WriteTarget
<1>3. CASE WriteFailedState(r)
  BY <1>1, <1>3, TransitionAssumption DEF TypeOK, WriteFailedState
<1> QED  BY <1>2, <1>3

(* What a safety net decides on a row it locked is well typed. *)
LEMMA FinalizeType ==
  ASSUME TypeOK, NEW w \in Workers, pc[w] # "idle", Pending(task[w]),
         NEW m \in Message, NEW p \in NetSteps, FinalizeTerminal(w, m, p)
  PROVE  /\ msg' \in [Rows -> Message \cup {NoMessage}]
         /\ holder' \in [Rows -> Workers \cup {NoWorker}]
         /\ pc' \in [Workers -> Places]
         /\ task' \in [Workers -> Rows \cup {NoRow}]
         /\ \A v \in Workers : pc'[v] # "idle" => task'[v] \in Rows
         /\ outcome' \in [Workers -> {"none", "retry", "success", "failure"}]
<1>1. task[w] \in Rows
  BY DEF TypeOK
<1>2. End(m, "failed") \in Message /\ End(m, "superseded") \in Message
  BY EndLemma DEF Completed
<1>3. CASE /\ holder' = [holder EXCEPT ![task[w]] = w]
           /\ Go(w, p)
           /\ UNCHANGED <<msg, task, outcome>>
  BY <1>1, <1>3, GoType DEF TypeOK, Places
<1>4. CASE /\ Put(task[w], End(m, "failed")) \/ Put(task[w], End(m, "superseded"))
           /\ Return(w)
           /\ UNCHANGED holder
  BY <1>1, <1>2, <1>4, PutType, ReturnType DEF TypeOK
<1> QED  BY <1>3, <1>4 DEF FinalizeTerminal

(* The row of an open transaction is uncompleted. *)
LEMMA LockedIsPending ==
  ASSUME TypeOK, RowLockGuardsAttempt, NEW w \in Workers, pc[w] \in Locking
  PROVE  task[w] \in Rows /\ Pending(task[w]) /\ holder[task[w]] = w
  BY DEF TypeOK, RowLockGuardsAttempt, Locking

(* The row of a running attempt is uncompleted. *)
LEMMA RunningIsPending ==
  ASSUME TypeOK, RowLockGuardsAttempt, NEW w \in Workers, pc[w] = "running"
  PROVE  task[w] \in Rows /\ Pending(task[w])
  BY LockedIsPending DEF Locking

(* So is the row a safety net is about to end, charged or not. *)
LEMMA WriteIsPending ==
  ASSUME TypeOK, RowLockGuardsAttempt, NEW w \in Workers,
         AbandonWrite(w) \/ FinalizeStuckWrite(w)
  PROVE  /\ task[w] \in Rows /\ Pending(task[w]) /\ holder[task[w]] = w
         /\ pc[w] \in Locking
         /\ \E m \in Message :
              /\ m = msg[task[w]] \/ m = Charge(msg[task[w]])
              /\ FinalizeWrite(w, m)
<1>1. pc[w] \in Locking
  BY DEF AbandonWrite, FinalizeStuckWrite, Locking
<1>2. task[w] \in Rows /\ Pending(task[w]) /\ holder[task[w]] = w
  BY <1>1, LockedIsPending
<1>3. msg[task[w]] \in Message /\ Charge(msg[task[w]]) \in Message
  BY <1>2, PendingIsMessage, ChargeLemma
<1> QED  BY <1>1, <1>2, <1>3 DEF AbandonWrite, FinalizeStuckWrite

(* One step of anybody keeps every variable in its type. *)
LEMMA TypeStep ==
  ASSUME TypeOK, RowLockGuardsAttempt, HooksAreOwed, [Next]_vars
  PROVE  TypeOK'
<1> USE DEF ChildSteps, NetSteps, Places
<1>1. ASSUME NEW i \in Instances, NEW t \in Transitions, NEW r \in Rows,
             Enqueue(i, t, r)
      PROVE  TypeOK'
  BY <1>1, NewMessageLemma, PutType, TransitionAssumption DEF TypeOK, Enqueue
<1>2. ASSUME NEW i \in Instances, NEW s \in ExternalStates, ExternalWrite(i, s)
      PROVE  TypeOK'
  BY <1>2, ConstantsAssumption DEF TypeOK, ExternalWrite
<1>3. ASSUME NEW w \in Workers, Claim(w)
      PROVE  TypeOK'
  BY <1>3, PickType DEF TypeOK, Claim
<1>4. ASSUME NEW w \in Workers, ChildStep(w)
      PROVE  TypeOK'
  <2> DEFINE r == task[w]
  <2>1. CASE Stamp(w)
    <3>1. r \in Rows /\ pc[w] # "idle"
      BY <2>1 DEF TypeOK, Stamp
    <3>2. Pending(r) => [msg[r] EXCEPT !.clock = "fresh", !.charged = FALSE] \in Message
      BY <3>1, PendingIsMessage DEF Message
    <3> QED  BY <2>1, <3>1, <3>2, PutType, GoType DEF TypeOK, Stamp
  <2>2. CASE SkipAttempt(w)
    BY <2>2, GoType DEF TypeOK, SkipAttempt
  <2>3. CASE BeginAttempt(w)
    BY <2>3, GoType DEF TypeOK, BeginAttempt
  <2>4. CASE Supersede(w)
    <3>1. r \in Rows /\ End(msg[r], "superseded") \in Message
      BY <2>4, PendingIsMessage, EndLemma DEF TypeOK, Supersede, Completed
    <3> QED  BY <2>4, <3>1, PutType, GoType DEF TypeOK, Supersede
  <2>5. CASE CannotRestore(w)
    BY <2>5, GoType DEF TypeOK, CannotRestore
  <2>6. CASE RestoreFails(w)
    <3>1. r \in Rows /\ Charge(msg[r]) \in Message
      BY <2>6, PendingIsMessage, ChargeLemma DEF TypeOK, RestoreFails
    <3>2. End(Charge(msg[r]), "failed") \in Message
      BY <3>1, EndLemma DEF Completed
    <3> QED  BY <2>6, <3>1, <3>2, PutType, GoType DEF TypeOK, RestoreFails
  <2>7. CASE MarkUnrestorable(w)
    <3>1. r \in Rows /\ (Pending(r) => End(msg[r], "failed") \in Message)
      BY <2>7, PendingIsMessage, EndLemma DEF TypeOK, MarkUnrestorable, Completed
    <3> QED  BY <2>7, <3>1, PutType, GoType DEF TypeOK, MarkUnrestorable, Put
  <2>8. CASE AttemptSucceeds(w)
    <3>1. r \in Rows /\ Pending(r) /\ End(msg[r], "done") \in Message
      BY <2>8, RunningIsPending, PendingIsMessage, EndLemma
         DEF AttemptSucceeds, Completed
    <3> QED
      BY <2>8, <3>1, PutType, GoType, StateWriteType DEF TypeOK, AttemptSucceeds, Unlock
  <2>9. CASE AttemptFails(w)
    <3>1. r \in Rows /\ Charge(msg[r]) \in Message
      BY <2>9, RunningIsPending, PendingIsMessage, ChargeLemma DEF AttemptFails
    <3> QED  BY <2>9, <3>1, PutType, GoType DEF TypeOK, AttemptFails, Unlock
  <2>10. CASE AttemptFailsForGood(w)
    <3>1. r \in Rows /\ Pending(r) /\ Charge(msg[r]) \in Message
      BY <2>10, RunningIsPending, PendingIsMessage, ChargeLemma
         DEF AttemptFailsForGood
    <3>2. End(Charge(msg[r]), "failed") \in Message
      BY <3>1, EndLemma DEF Completed
    <3> QED
      BY <2>10, <3>1, <3>2, PutType, GoType, StateWriteType
         DEF TypeOK, AttemptFailsForGood, Unlock
  <2>11. CASE RunHooks(w)
    BY <2>11, GoType DEF TypeOK, RunHooks, HooksAreOwed
  <2>12. CASE ChildExits(w)
    BY <2>12, ReturnType DEF TypeOK, ChildExits
  <2>13. CASE CutAttemptRaises(w)
    BY <2>13, GoType DEF TypeOK, CutAttemptRaises
  <2> QED
    BY <1>4, <2>1, <2>2, <2>3, <2>4, <2>5, <2>6, <2>7, <2>8, <2>9, <2>10,
       <2>11, <2>12, <2>13 DEF ChildStep
<1>5. ASSUME NEW w \in Workers, ChildDies(w) \/ LoseConnection(w)
      PROVE  TypeOK'
  BY <1>5, GoType DEF TypeOK, ChildDies, LoseConnection, DropLocks
<1>6. ASSUME NEW w \in Workers, RecordDeath(w)
      PROVE  TypeOK'
  <2>1. task[w] \in Rows /\ (Pending(task[w]) => Charge(msg[task[w]]) \in Message)
    BY <1>6, PendingIsMessage, ChargeLemma DEF TypeOK, RecordDeath
  <2> QED  BY <1>6, <2>1, PutType, ReturnType DEF TypeOK, RecordDeath, Put
<1>7. ASSUME NEW w \in Workers, WorkerDies(w)
      PROVE  TypeOK'
  BY <1>7, ReturnType DEF TypeOK, WorkerDies, DropLocks
<1>8. ASSUME NEW w \in Workers, NetStep(w)
      PROVE  TypeOK'
  <2> DEFINE r == task[w]
  <2>1. CASE Abandon(w)
    <3>1. r \in Rows /\ pc[w] # "idle"
      BY <2>1 DEF TypeOK, Abandon
    <3>2. CASE ~Abandonable(r)
      BY <2>1, <3>1, <3>2, ReturnType DEF TypeOK, Abandon
    <3>3. CASE Abandonable(r)
      <4>1. Pending(r) /\ Charge(msg[r]) \in Message
        BY <3>1, <3>3, PendingIsMessage, ChargeLemma DEF Abandonable
      <4> QED
        BY <2>1, <3>1, <3>3, <4>1, PutType, ReturnType, FinalizeType
           DEF TypeOK, Abandon
    <3> QED  BY <3>2, <3>3
  <2>2. CASE FinalizeStuck(w)
    <3>1. r \in Rows /\ pc[w] # "idle"
      BY <2>2 DEF TypeOK, FinalizeStuck
    <3>2. CASE ~(Pending(r) /\ Free(r))
      BY <2>2, <3>1, <3>2, ReturnType DEF TypeOK, FinalizeStuck
    <3>3. CASE Pending(r) /\ Free(r)
      BY <2>2, <3>1, <3>3, PendingIsMessage, FinalizeType DEF TypeOK, FinalizeStuck
    <3> QED  BY <3>2, <3>3
  <2>3. CASE RunNetHooks(w)
    BY <2>3, ReturnType DEF TypeOK, RunNetHooks
  <2>4. CASE AbandonWrite(w) \/ FinalizeStuckWrite(w)
    <3>1. PICK m \in Message : FinalizeWrite(w, m)
      BY <2>4, WriteIsPending
    <3>2. r \in Rows /\ Pending(r) /\ pc[w] # "idle"
      BY <2>4, WriteIsPending DEF Locking
    <3>3. End(m, "failed") \in Message
      BY EndLemma DEF Completed
    <3> QED
      BY <3>1, <3>2, <3>3, PutType, GoType, StateWriteType
         DEF TypeOK, FinalizeWrite, Unlock
  <2> QED  BY <1>8, <2>1, <2>2, <2>3, <2>4 DEF NetStep
<1>9. ASSUME NEW w \in Workers, NEW r \in Rows, WatchdogScan(w, r) \/ StuckScan(w, r)
      PROVE  TypeOK'
  BY <1>9, PickType DEF TypeOK, WatchdogScan, StuckScan
<1>10. ASSUME NEW r \in Rows, Cleanup(r)
       PROVE  TypeOK'
  <2>1. \A q \in Rows : msg[q].status \in Completed => End(msg[q], "deleted") \in Message
    BY CompletedIsMessage, EndLemma
  <2> QED  BY <1>10, <2>1 DEF TypeOK, Cleanup, Swept
<1>11. ASSUME NEW r \in Rows, RetryWaitElapses(r) \/ AttemptOverruns(r)
       PROVE  TypeOK'
  <2>1. Pending(r) => /\ [msg[r] EXCEPT !.waiting = FALSE] \in Message
                      /\ [msg[r] EXCEPT !.clock = "overdue"] \in Message
    BY PendingIsMessage DEF Message
  <2> QED  BY <1>11, <2>1, PutType DEF TypeOK, RetryWaitElapses, AttemptOverruns
<1>12. CASE UNCHANGED vars
  BY <1>12 DEF TypeOK, vars
<1> QED
  BY <1>1, <1>2, <1>3, <1>4, <1>5, <1>6, <1>7, <1>8, <1>9, <1>10, <1>11, <1>12
     DEF Next

-----------------------------------------------------------------------------
(***************************************************************************)
(* Which rows a step may touch.                                            *)
(***************************************************************************)

(* A row keeps its instance and transition; an uncompleted row may end and *)
(* a completed one may be deleted, and that is all.                        *)
RowKept(r) ==
  \/ msg'[r] = msg[r]
  \/ /\ msg[r] \in Message /\ msg'[r] \in Message
     /\ msg'[r].inst = msg[r].inst /\ msg'[r].tr = msg[r].tr
     /\ \/ Pending(r) /\ msg'[r].status \in {"pending"} \cup Completed
        \/ /\ msg[r].status \in Completed
           /\ msg'[r].status = "deleted" /\ msg'[r].errors = msg[r].errors

(* A later version of an uncompleted row. *)
Later(r, m) ==
  /\ m \in Message
  /\ m.inst = msg[r].inst /\ m.tr = msg[r].tr
  /\ m.status \in {"pending"} \cup Completed

(* Charging, ending, stamping and the clocks make later versions of a row. *)
LEMMA LaterVersions ==
  ASSUME TypeOK, NEW r \in Rows, Pending(r)
  PROVE  /\ Later(r, Charge(msg[r])) /\ Charge(msg[r]).status = "pending"
         /\ \A s \in Completed : Later(r, End(msg[r], s)) /\ Later(r, End(Charge(msg[r]), s))
         /\ Later(r, [msg[r] EXCEPT !.clock = "fresh", !.charged = FALSE])
         /\ Later(r, [msg[r] EXCEPT !.waiting = FALSE])
         /\ Later(r, [msg[r] EXCEPT !.clock = "overdue"])
<1>1. msg[r] \in Message
  BY PendingIsMessage
<1>2. Later(r, Charge(msg[r])) /\ Charge(msg[r]).status = "pending"
  BY <1>1, ChargeLemma DEF Later, Pending
<1>3. ASSUME NEW s \in Completed
      PROVE  Later(r, End(msg[r], s)) /\ Later(r, End(Charge(msg[r]), s))
  BY <1>1, <1>2, EndLemma DEF Later
<1>4. /\ Later(r, [msg[r] EXCEPT !.clock = "fresh", !.charged = FALSE])
      /\ Later(r, [msg[r] EXCEPT !.waiting = FALSE])
      /\ Later(r, [msg[r] EXCEPT !.clock = "overdue"])
  BY <1>1 DEF Later, Pending, Message
<1> QED  BY <1>2, <1>3, <1>4

(* Writing a later version of one row keeps every row. *)
LEMMA PutKeeps ==
  ASSUME TypeOK, NEW r \in Rows, Pending(r), NEW m, Later(r, m), Put(r, m)
  PROVE  \A q \in Rows : RowKept(q)
  BY PendingIsMessage DEF TypeOK, Put, RowKept, Later

(* Finalizing a row from a safety net keeps every row. *)
LEMMA FinalizeKeeps ==
  ASSUME TypeOK, NEW w \in Workers, task[w] \in Rows, Pending(task[w]),
         NEW m, m = msg[task[w]] \/ m = Charge(msg[task[w]]),
         FinalizeWrite(w, m) \/ \E p \in NetSteps : FinalizeTerminal(w, m, p)
  PROVE  \A q \in Rows : RowKept(q)
<1>1. Later(task[w], End(m, "failed")) /\ Later(task[w], End(m, "superseded"))
  BY LaterVersions DEF Completed
<1>2. CASE UNCHANGED msg
  BY <1>2 DEF RowKept
<1> QED  BY <1>1, <1>2, PutKeeps DEF FinalizeTerminal, FinalizeWrite

(* Every step but an enqueue keeps every row. *)
LEMMA StepKeeps ==
  ASSUME TypeOK, RowLockGuardsAttempt, [Next]_vars,
         ~\E i \in Instances, t \in Transitions, r \in Rows : Enqueue(i, t, r)
  PROVE  \A q \in Rows : RowKept(q)
<1>1. CASE UNCHANGED msg
  BY <1>1 DEF RowKept
<1>2. ASSUME NEW w \in Workers, ChildStep(w) \/ RecordDeath(w) \/ NetStep(w)
      PROVE  \A q \in Rows : RowKept(q)
  <2> DEFINE r == task[w]
  <2>1. pc[w] # "idle"
    BY <1>2 DEF ChildStep, RecordDeath, NetStep, Stamp, SkipAttempt, BeginAttempt,
       Supersede, CannotRestore, RestoreFails, MarkUnrestorable, AttemptSucceeds,
       AttemptFails, AttemptFailsForGood, CutAttemptRaises, RunHooks, ChildExits,
       Abandon, AbandonWrite, FinalizeStuck, FinalizeStuckWrite, RunNetHooks
  <2>2. r \in Rows
    BY <2>1 DEF TypeOK
  <2>3. CASE Pending(r)
    <3>1. /\ Later(r, Charge(msg[r]))
          /\ \A s \in Completed : Later(r, End(msg[r], s)) /\ Later(r, End(Charge(msg[r]), s))
          /\ Later(r, [msg[r] EXCEPT !.clock = "fresh", !.charged = FALSE])
      BY <2>2, <2>3, LaterVersions
    <3>2. CASE ChildStep(w)
      <4>1. \/ UNCHANGED msg
            \/ \E m : Later(r, m) /\ Put(r, m)
        BY <2>3, <3>1, <3>2
           DEF ChildStep, Stamp, SkipAttempt, BeginAttempt, Supersede, CannotRestore,
               RestoreFails, MarkUnrestorable, AttemptSucceeds, AttemptFails,
               AttemptFailsForGood, CutAttemptRaises, RunHooks, ChildExits,
               Completed, Put
      <4> QED  BY <1>1, <2>2, <2>3, <4>1, PutKeeps
    <3>3. CASE RecordDeath(w)
      BY <2>2, <2>3, <3>1, <3>3, PutKeeps DEF RecordDeath, Put
    <3>4. CASE NetStep(w)
      <4>1. CASE Abandon(w)
        BY <1>1, <2>2, <2>3, <3>1, <4>1, PutKeeps, FinalizeKeeps DEF Abandon, NetSteps
      <4>2. CASE FinalizeStuck(w)
        BY <1>1, <2>2, <2>3, <4>2, FinalizeKeeps DEF FinalizeStuck, NetSteps
      <4>3. CASE RunNetHooks(w)
        BY <1>1, <4>3 DEF RunNetHooks
      <4>4. CASE AbandonWrite(w) \/ FinalizeStuckWrite(w)
        BY <2>2, <2>3, <4>4, WriteIsPending, FinalizeKeeps
      <4> QED  BY <3>4, <4>1, <4>2, <4>3, <4>4 DEF NetStep
    <3> QED  BY <1>2, <3>2, <3>3, <3>4
  <2>4. CASE ~Pending(r)
    <3>1. pc[w] \notin Locking
      BY <2>4, LockedIsPending
    <3>2. UNCHANGED msg
      BY <1>2, <2>4, <3>1
         DEF Locking, ChildStep, RecordDeath, NetStep, Stamp, SkipAttempt, BeginAttempt,
             Supersede, CannotRestore, RestoreFails, MarkUnrestorable, AttemptSucceeds,
             AttemptFails, AttemptFailsForGood, CutAttemptRaises, RunHooks,
             ChildExits, Abandon, Abandonable, AbandonWrite, FinalizeStuck,
             FinalizeStuckWrite, RunNetHooks
    <3> QED  BY <1>1, <3>2
  <2> QED  BY <2>3, <2>4
<1>3. ASSUME NEW r \in Rows, Cleanup(r)
      PROVE  \A q \in Rows : RowKept(q)
  <2>1. ASSUME NEW q \in Rows
        PROVE  \/ msg'[q] = msg[q]
               \/ msg[q].status \in Completed /\ msg'[q] = End(msg[q], "deleted")
    BY <1>3 DEF Cleanup, Swept
  <2> QED  BY <2>1, CompletedIsMessage, EndLemma DEF RowKept
<1>4. ASSUME NEW r \in Rows, RetryWaitElapses(r) \/ AttemptOverruns(r)
      PROVE  \A q \in Rows : RowKept(q)
  BY <1>4, LaterVersions, PutKeeps DEF RetryWaitElapses, AttemptOverruns
<1> QED
  BY <1>1, <1>2, <1>3, <1>4
     DEF Next, vars, ExternalWrite, Claim, LoseConnection, ChildDies, WorkerDies,
         WatchdogScan, StuckScan

-----------------------------------------------------------------------------
(***************************************************************************)
(* The conjuncts of Inv, one lemma each.                                   *)
(***************************************************************************)

(* Only an enqueue adds a row, and the unique constraint guards it. *)
LEMMA OneRowStep ==
  ASSUME TypeOK, OneUncompletedRow, RowLockGuardsAttempt, [Next]_vars
  PROVE  OneUncompletedRow'
<1>1. ASSUME NEW i \in Instances, NEW t \in Transitions, NEW r \in Rows,
             Enqueue(i, t, r)
      PROVE  OneUncompletedRow'
  <2>1. \A q \in Rows : q # r => msg'[q] = msg[q]
    BY <1>1 DEF TypeOK, Enqueue, Put
  <2>2. msg'[r].inst = i
    BY <1>1, NewMessageLemma DEF TypeOK, Enqueue, Put
  <2>3. \A q \in Rows : Pending(q) => msg[q].inst # i
    BY <1>1 DEF Enqueue, HasUncompletedRow
  <2> QED  BY <2>1, <2>2, <2>3 DEF OneUncompletedRow, Pending
<1>2. CASE ~\E i \in Instances, t \in Transitions, r \in Rows : Enqueue(i, t, r)
  <2>1. \A q \in Rows : RowKept(q)
    BY <1>2, StepKeeps
  <2>2. \A q \in Rows : Pending(q)' => Pending(q) /\ msg'[q].inst = msg[q].inst
    BY <2>1 DEF RowKept, Pending, Completed
  <2> QED  BY <2>2 DEF OneUncompletedRow
<1> QED  BY <1>1, <1>2

(* A step that changes neither the locks nor who is in a transaction. *)
LEMMA LockKept ==
  ASSUME RowLockGuardsAttempt, UNCHANGED holder,
         \A w \in Workers : (pc'[w] \in Locking <=> pc[w] \in Locking),
         \A w \in Workers : pc[w] \in Locking => task'[w] = task[w],
         \A r \in Rows : Pending(r) /\ ~Free(r) => Pending(r)'
  PROVE  RowLockGuardsAttempt'
  BY ConstantsAssumption DEF RowLockGuardsAttempt, Free

(* A transaction that locks an uncompleted row nobody holds. *)
LEMMA LockTaken ==
  ASSUME TypeOK, RowLockGuardsAttempt, NEW w \in Workers, NEW p \in Locking,
         pc[w] \notin Locking, task[w] \in Rows, Pending(task[w]), Free(task[w]),
         holder' = [holder EXCEPT ![task[w]] = w], Go(w, p), UNCHANGED <<task, msg>>
  PROVE  RowLockGuardsAttempt'
  BY ConstantsAssumption DEF TypeOK, RowLockGuardsAttempt, Go, Free, Pending

(* A transaction that commits what it did to the row it held. *)
LEMMA LockReleased ==
  ASSUME TypeOK, RowLockGuardsAttempt, NEW w \in Workers, NEW p,
         pc[w] \in Locking, p \notin Locking, Go(w, p), UNCHANGED task,
         Unlock(task[w]), NEW m, Put(task[w], m)
  PROVE  RowLockGuardsAttempt'
<1>1. task[w] \in Rows /\ \A q \in Rows : q # task[w] => Pending(q)' = Pending(q)
  BY LockedIsPending DEF TypeOK, Put, Pending
<1> QED
  BY <1>1, ConstantsAssumption DEF TypeOK, RowLockGuardsAttempt, Go, Unlock

(* Writing a row that nobody holds ends no row that somebody holds. *)
LEMMA FreeRowWrite ==
  ASSUME TypeOK, NEW r \in Rows, Free(r), NEW m, Put(r, m)
  PROVE  \A q \in Rows : Pending(q) /\ ~Free(q) => Pending(q)'
  BY DEF TypeOK, Put, Free, Pending

(* A worker outside a transaction that writes at most a free row. *)
LEMMA LoopKeepsLocks ==
  ASSUME TypeOK, RowLockGuardsAttempt, NEW w \in Workers, task[w] \in Rows,
         UNCHANGED holder, pc[w] \notin Locking, pc'[w] \notin Locking,
         \A v \in Workers : v # w => pc'[v] = pc[v] /\ task'[v] = task[v],
         UNCHANGED msg \/ (Free(task[w]) /\ \E m : Put(task[w], m))
  PROVE  RowLockGuardsAttempt'
<1>1. \A q \in Rows : Pending(q) /\ ~Free(q) => Pending(q)'
  BY FreeRowWrite DEF Pending
<1> QED  BY <1>1, LockKept

(* A safety net locks its row for the write, or commits and returns. *)
LEMMA FinalizeLocks ==
  ASSUME TypeOK, RowLockGuardsAttempt, NEW w \in Workers, NEW m,
         NEW p \in Locking, pc[w] \notin Locking, task[w] \in Rows,
         Pending(task[w]), Free(task[w]), FinalizeTerminal(w, m, p)
  PROVE  RowLockGuardsAttempt'
<1>1. CASE /\ holder' = [holder EXCEPT ![task[w]] = w]
           /\ Go(w, p)
           /\ UNCHANGED <<msg, task, outcome>>
  BY <1>1, LockTaken
<1>2. CASE Return(w) /\ UNCHANGED holder /\ \E n : Put(task[w], n)
  <2>1. pc'[w] \notin Locking
    BY <1>2 DEF TypeOK, Return, Go, Locking
  <2>2. \A v \in Workers : v # w => pc'[v] = pc[v] /\ task'[v] = task[v]
    BY <1>2 DEF TypeOK, Return, Go
  <2> QED  BY <1>2, <2>1, <2>2, LoopKeepsLocks
<1> QED  BY <1>1, <1>2 DEF FinalizeTerminal

(* The row lock follows the transactions of attempts and safety nets. *)
LEMMA RowLockStep ==
  ASSUME TypeOK, RowLockGuardsAttempt, [Next]_vars
  PROVE  RowLockGuardsAttempt'
<1>1. ASSUME NEW i \in Instances, NEW t \in Transitions, NEW r \in Rows,
             Enqueue(i, t, r)
      PROVE  RowLockGuardsAttempt'
  <2>1. \A q \in Rows : Pending(q) => Pending(q)'
    BY <1>1 DEF TypeOK, Enqueue, Put, Pending, NoMessage
  <2> QED  BY <1>1, <2>1, LockKept DEF Enqueue
<1>2. ASSUME NEW i \in Instances, NEW s \in ExternalStates, ExternalWrite(i, s)
      PROVE  RowLockGuardsAttempt'
  BY <1>2, LockKept DEF ExternalWrite, Pending
<1>3. ASSUME NEW w \in Workers, Claim(w)
      PROVE  RowLockGuardsAttempt'
  BY <1>3, LockKept DEF TypeOK, Claim, Go, Pending, Locking
<1>4. ASSUME NEW w \in Workers, ChildStep(w)
      PROVE  RowLockGuardsAttempt'
  <2> DEFINE r == task[w]
  <2>0. r \in Rows
    BY <1>4 DEF TypeOK, ChildStep, Stamp, SkipAttempt, BeginAttempt, Supersede,
       CannotRestore, RestoreFails, MarkUnrestorable, AttemptSucceeds, AttemptFails,
       AttemptFailsForGood, CutAttemptRaises, RunHooks, ChildExits
  <2>1. CASE Stamp(w) \/ SkipAttempt(w) \/ Supersede(w) \/ CannotRestore(w)
             \/ RestoreFails(w) \/ MarkUnrestorable(w) \/ CutAttemptRaises(w)
             \/ RunHooks(w)
    <3>1. UNCHANGED msg \/ (Free(r) /\ \E m : Put(r, m))
      BY <2>1 DEF Stamp, SkipAttempt, Supersede, CannotRestore, RestoreFails,
         MarkUnrestorable, CutAttemptRaises, RunHooks, Put
    <3>2. /\ UNCHANGED <<holder, task>>
          /\ pc[w] \notin Locking /\ pc'[w] \notin Locking
          /\ \A v \in Workers : v # w => pc'[v] = pc[v]
      BY <2>1 DEF TypeOK, Stamp, SkipAttempt, Supersede, CannotRestore,
         RestoreFails, MarkUnrestorable, CutAttemptRaises, RunHooks, Go, Locking
    <3> QED  BY <2>0, <3>1, <3>2, LoopKeepsLocks
  <2>2. CASE BeginAttempt(w)
    BY <2>0, <2>2, LockTaken DEF BeginAttempt, Locking
  <2>3. CASE AttemptSucceeds(w) \/ AttemptFails(w) \/ AttemptFailsForGood(w)
    BY <2>3, LockReleased
       DEF AttemptSucceeds, AttemptFails, AttemptFailsForGood, Locking
  <2>4. CASE ChildExits(w)
    <3>1. pc[w] \notin Locking /\ pc'[w] \notin Locking
      BY <2>4 DEF TypeOK, ChildExits, Return, Go, Locking
    <3>2. \A v \in Workers : v # w => pc'[v] = pc[v] /\ task'[v] = task[v]
      BY <2>4 DEF TypeOK, ChildExits, Return, Go
    <3> QED  BY <2>0, <2>4, <3>1, <3>2, LoopKeepsLocks DEF ChildExits
  <2> QED  BY <1>4, <2>1, <2>2, <2>3, <2>4 DEF ChildStep
<1>5. ASSUME NEW w \in Workers, LoseConnection(w) \/ ChildDies(w) \/ WorkerDies(w)
      PROVE  RowLockGuardsAttempt'
  <2>1. /\ holder' = [r \in Rows |-> IF holder[r] = w THEN NoWorker ELSE holder[r]]
        /\ pc'[w] \notin Locking
        /\ \A v \in Workers : v # w => pc'[v] = pc[v] /\ task'[v] = task[v]
        /\ UNCHANGED msg
    BY <1>5 DEF TypeOK, LoseConnection, ChildDies, WorkerDies, DropLocks, Return,
       Go, Locking
  <2> QED
    BY <2>1, ConstantsAssumption DEF TypeOK, RowLockGuardsAttempt, Pending
<1>6. ASSUME NEW w \in Workers, RecordDeath(w) \/ NetStep(w)
      PROVE  RowLockGuardsAttempt'
  <2> DEFINE r == task[w]
  <2>0. r \in Rows
    BY <1>6 DEF TypeOK, RecordDeath, NetStep, Abandon, AbandonWrite, FinalizeStuck,
       FinalizeStuckWrite, RunNetHooks
  <2>1. ASSUME pc[w] \notin Locking, Return(w), UNCHANGED holder,
               UNCHANGED msg \/ (Free(r) /\ \E m : Put(r, m))
        PROVE  RowLockGuardsAttempt'
    <3>1. pc'[w] \notin Locking
      BY <2>1 DEF TypeOK, Return, Go, Locking
    <3>2. \A v \in Workers : v # w => pc'[v] = pc[v] /\ task'[v] = task[v]
      BY <2>1 DEF TypeOK, Return, Go
    <3> QED  BY <2>0, <2>1, <3>1, <3>2, LoopKeepsLocks
  <2>2. CASE RecordDeath(w)
    BY <2>1, <2>2 DEF RecordDeath, Locking, Put
  <2>3. CASE Abandon(w)
    BY <2>0, <2>1, <2>3, FinalizeLocks DEF Abandon, Abandonable, Locking
  <2>4. CASE FinalizeStuck(w)
    BY <2>0, <2>1, <2>4, FinalizeLocks DEF FinalizeStuck, Locking
  <2>5. CASE AbandonWrite(w) \/ FinalizeStuckWrite(w)
    <3>1. PICK m \in Message : FinalizeWrite(w, m)
      BY <2>5, WriteIsPending
    <3>2. pc[w] \in Locking
      BY <2>5, WriteIsPending
    <3> QED  BY <3>1, <3>2, LockReleased DEF FinalizeWrite, Locking
  <2>6. CASE RunNetHooks(w)
    BY <2>1, <2>6 DEF RunNetHooks, Locking
  <2> QED  BY <1>6, <2>2, <2>3, <2>4, <2>5, <2>6 DEF NetStep
<1>7. ASSUME NEW w \in Workers, NEW r \in Rows, WatchdogScan(w, r) \/ StuckScan(w, r)
      PROVE  RowLockGuardsAttempt'
  BY <1>7, LockKept DEF TypeOK, WatchdogScan, StuckScan, Go, Pending, Locking
<1>8. ASSUME NEW r \in Rows, Cleanup(r)
      PROVE  RowLockGuardsAttempt'
  <2>1. \A q \in Rows : Pending(q) => Pending(q)'
    BY <1>8 DEF Cleanup, Swept, Pending, Completed
  <2> QED  BY <1>8, <2>1, LockKept DEF Cleanup
<1>9. ASSUME NEW r \in Rows, RetryWaitElapses(r) \/ AttemptOverruns(r)
      PROVE  RowLockGuardsAttempt'
  <2> DEFINE later == { [msg[r] EXCEPT !.waiting = FALSE],
                        [msg[r] EXCEPT !.clock = "overdue"] }
  <2>0. Pending(r) /\ \A m \in later : m.status = "pending"
    BY <1>9, PendingIsMessage
       DEF RetryWaitElapses, AttemptOverruns, Pending, Message
  <2>1. \A q \in Rows : Pending(q) => Pending(q)'
    BY <1>9, <2>0 DEF TypeOK, RetryWaitElapses, AttemptOverruns, Put, Pending
  <2> QED  BY <1>9, <2>1, LockKept DEF RetryWaitElapses, AttemptOverruns
<1>10. CASE UNCHANGED vars
  BY <1>10, LockKept DEF vars, Pending
<1> QED
  BY <1>1, <1>2, <1>3, <1>4, <1>5, <1>6, <1>7, <1>8, <1>9, <1>10 DEF Next

(* Whoever writes a row holds it or finds it free. *)
LEMMA Writer ==
  ASSUME TypeOK, RowLockGuardsAttempt, NEW w \in Workers,
         ChildStep(w) \/ RecordDeath(w) \/ NetStep(w), msg' # msg
  PROVE  /\ task[w] \in Rows
         /\ Free(task[w]) \/ holder[task[w]] = w
         /\ \E m : Put(task[w], m)
<1>1. CASE ChildStep(w)
  <2>1. pc[w] = "running" => task[w] \in Rows /\ holder[task[w]] = w
    BY LockedIsPending DEF Locking
  <2> QED
    BY <1>1, <2>1
       DEF TypeOK, ChildStep, Stamp, SkipAttempt, BeginAttempt, Supersede,
           CannotRestore, RestoreFails, MarkUnrestorable, AttemptSucceeds,
           AttemptFails, AttemptFailsForGood, CutAttemptRaises, RunHooks, ChildExits, Put
<1>2. CASE RecordDeath(w)
  BY <1>2 DEF TypeOK, RecordDeath, Put
<1>3. CASE NetStep(w)
  <2>1. CASE AbandonWrite(w) \/ FinalizeStuckWrite(w)
    BY <2>1, WriteIsPending DEF FinalizeWrite
  <2>2. CASE Abandon(w) \/ FinalizeStuck(w) \/ RunNetHooks(w)
    BY <2>2 DEF TypeOK, Abandon, Abandonable, FinalizeStuck, FinalizeTerminal, RunNetHooks
  <2> QED  BY <1>3, <2>1, <2>2 DEF NetStep
<1> QED  BY <1>1, <1>2, <1>3

(* Nothing but time changes a row under a transaction that goes on. *)
LEMMA HeldRow ==
  ASSUME TypeOK, RowLockGuardsAttempt, [Next]_vars, NEW w \in Workers,
         pc[w] \in Locking, pc'[w] = pc[w]
  PROVE  /\ task'[w] = task[w]
         /\ \/ msg'[task[w]] = msg[task[w]]
            \/ RetryWaitElapses(task[w]) \/ AttemptOverruns(task[w])
<1>1. task[w] \in Rows /\ Pending(task[w]) /\ holder[task[w]] = w
  BY LockedIsPending
<1>2. ASSUME NEW v \in Workers, ChildStep(v) \/ RecordDeath(v) \/ NetStep(v)
      PROVE  task'[w] = task[w] /\ msg'[task[w]] = msg[task[w]]
  <2>1. v # w
    <3>1. CASE pc[w] = "running"
      BY <1>2, <3>1 DEF TypeOK, ChildStep, Stamp, SkipAttempt, BeginAttempt, Supersede,
         CannotRestore, RestoreFails, MarkUnrestorable, AttemptSucceeds, AttemptFails,
         AttemptFailsForGood, CutAttemptRaises, RunHooks, ChildExits, RecordDeath,
         NetStep, Abandon, AbandonWrite, FinalizeStuck, FinalizeStuckWrite,
         RunNetHooks, Go
    <3>2. CASE pc[w] \in {"watchwrite", "stuckwrite"}
      BY <1>2, <3>2 DEF TypeOK, ChildStep, Stamp, SkipAttempt, BeginAttempt, Supersede,
         CannotRestore, RestoreFails, MarkUnrestorable, AttemptSucceeds, AttemptFails,
         AttemptFailsForGood, CutAttemptRaises, RunHooks, ChildExits, RecordDeath,
         NetStep, Abandon, AbandonWrite, FinalizeStuck, FinalizeStuckWrite,
         FinalizeWrite, RunNetHooks, Go
    <3> QED  BY <3>1, <3>2 DEF Locking
  <2>2. task'[w] = task[w]
    BY <1>2, <2>1 DEF TypeOK, ChildStep, Stamp, SkipAttempt, BeginAttempt, Supersede,
       CannotRestore, RestoreFails, MarkUnrestorable, AttemptSucceeds, AttemptFails,
       AttemptFailsForGood, CutAttemptRaises, RunHooks, ChildExits, RecordDeath,
       NetStep, Abandon, AbandonWrite, FinalizeStuck, FinalizeStuckWrite,
       FinalizeTerminal, FinalizeWrite, RunNetHooks, Return
  <2>3. CASE msg' # msg
    <3>1. task[v] # task[w]
      BY <1>1, <1>2, <2>1, <2>3, Writer, ConstantsAssumption DEF Free
    <3> QED  BY <1>1, <1>2, <2>2, <2>3, <3>1, Writer DEF TypeOK, Put
  <2> QED  BY <2>2, <2>3
<1>3. ASSUME NEW v \in Workers, Claim(v) \/ LoseConnection(v) \/ ChildDies(v) \/ WorkerDies(v)
      PROVE  task'[w] = task[w] /\ msg'[task[w]] = msg[task[w]]
  <2>1. v # w
    BY <1>3 DEF TypeOK, Claim, LoseConnection, ChildDies, WorkerDies, Return, Go, Locking
  <2> QED
    BY <1>3, <2>1 DEF TypeOK, Claim, LoseConnection, ChildDies, WorkerDies, Return
<1>4. ASSUME NEW v \in Workers, NEW r \in Rows, WatchdogScan(v, r) \/ StuckScan(v, r)
      PROVE  task'[w] = task[w] /\ msg'[task[w]] = msg[task[w]]
  BY <1>4 DEF TypeOK, WatchdogScan, StuckScan, Locking
<1>5. ASSUME NEW i \in Instances, NEW t \in Transitions, NEW r \in Rows, Enqueue(i, t, r)
      PROVE  task'[w] = task[w] /\ msg'[task[w]] = msg[task[w]]
  BY <1>1, <1>5 DEF TypeOK, Enqueue, Put, Pending, NoMessage
<1>6. ASSUME NEW r \in Rows, Cleanup(r)
      PROVE  task'[w] = task[w] /\ msg'[task[w]] = msg[task[w]]
  BY <1>1, <1>6 DEF Cleanup, Swept, Pending, Completed
<1>7. ASSUME NEW r \in Rows, RetryWaitElapses(r) \/ AttemptOverruns(r), r # task[w]
      PROVE  task'[w] = task[w] /\ msg'[task[w]] = msg[task[w]]
  BY <1>1, <1>7 DEF TypeOK, RetryWaitElapses, AttemptOverruns, Put
<1>8. ASSUME NEW r \in Rows, RetryWaitElapses(r) \/ AttemptOverruns(r)
      PROVE  UNCHANGED task
  BY <1>8 DEF RetryWaitElapses, AttemptOverruns
<1> QED
  BY <1>2, <1>3, <1>4, <1>5, <1>6, <1>7, <1>8 DEF Next, vars, ExternalWrite

(* Only the watchdog itself locks a row for the write of a last charge.    *)
LEMMA WatchStep ==
  ASSUME TypeOK, RowLockGuardsAttempt, WatchedIsAbandoned, [Next]_vars
  PROVE  WatchedIsAbandoned'
<1> SUFFICES ASSUME NEW w \in Workers, pc'[w] = "watchwrite"
             PROVE  msg'[task'[w]].clock = "overdue" /\ ~msg'[task'[w]].charged
  BY DEF WatchedIsAbandoned
<1>1. CASE pc[w] = "watchwrite"
  <2>1. msg[task[w]].clock = "overdue" /\ ~msg[task[w]].charged
    BY <1>1 DEF WatchedIsAbandoned
  <2>2. task[w] \in Rows /\ msg[task[w]] \in Message
    BY <1>1, LockedIsPending, PendingIsMessage DEF Locking
  <2>3. /\ task'[w] = task[w]
        /\ \/ msg'[task[w]] = msg[task[w]]
           \/ RetryWaitElapses(task[w]) \/ AttemptOverruns(task[w])
    BY <1>1, HeldRow DEF Locking
  <2> QED
    BY <2>1, <2>2, <2>3
       DEF TypeOK, RetryWaitElapses, AttemptOverruns, Put, Message
<1>2. CASE pc[w] # "watchwrite"
  <2>1. ASSUME Abandon(w)
        PROVE  msg'[task'[w]].clock = "overdue" /\ ~msg'[task'[w]].charged
    BY <1>2, <2>1 DEF TypeOK, Abandon, FinalizeTerminal, Abandonable, Return, Go
  <2>2. ASSUME NEW v \in Workers,
               \/ Claim(v) \/ ChildStep(v) \/ LoseConnection(v) \/ ChildDies(v)
               \/ RecordDeath(v) \/ WorkerDies(v) \/ AbandonWrite(v)
               \/ FinalizeStuck(v) \/ FinalizeStuckWrite(v) \/ RunNetHooks(v)
               \/ \E r \in Rows : WatchdogScan(v, r) \/ StuckScan(v, r)
        PROVE  FALSE
    <3>1. PICK p : p # "watchwrite" /\ pc' = [pc EXCEPT ![v] = p]
      BY <2>2 DEF ChildStep, Stamp, SkipAttempt, BeginAttempt, Supersede, CannotRestore,
         RestoreFails, MarkUnrestorable, AttemptSucceeds, AttemptFails,
         AttemptFailsForGood, CutAttemptRaises, RunHooks, ChildExits, Claim,
         LoseConnection, ChildDies, RecordDeath, WorkerDies, AbandonWrite,
         FinalizeStuck, FinalizeStuckWrite, FinalizeTerminal, FinalizeWrite,
         RunNetHooks, WatchdogScan, StuckScan, Return, Go
    <3> QED  BY <1>2, <3>1 DEF TypeOK
  <2>3. ASSUME NEW v \in Workers, v # w, Abandon(v)
        PROVE  FALSE
    BY <1>2, <2>3 DEF TypeOK, Abandon, FinalizeTerminal, Return, Go
  <2>4. CASE UNCHANGED pc
    BY <1>2, <2>4
  <2> QED
    BY <2>1, <2>2, <2>3, <2>4 DEF Next, NetStep, vars, Enqueue, ExternalWrite, Cleanup,
       RetryWaitElapses, AttemptOverruns
<1> QED  BY <1>1, <1>2

(* A row that is over stays over, with the errors it has.                  *)
StaysOver(r) ==
  msg[r].status \in Completed \cup {"deleted"} =>
    /\ msg'[r].status \in {msg[r].status, "deleted"}
    /\ msg'[r].errors = msg[r].errors

(* No worker, safety net or late death record touches a row that is over. *)
LEMMA OverStep ==
  ASSUME TypeOK, RowLockGuardsAttempt, [Next]_vars
  PROVE  \A r \in Rows : StaysOver(r)
<1>1. ASSUME NEW i \in Instances, NEW t \in Transitions, NEW q \in Rows,
             Enqueue(i, t, q)
      PROVE  \A r \in Rows : StaysOver(r)
  BY <1>1 DEF TypeOK, Enqueue, Put, NoMessage, Completed, StaysOver
<1>2. CASE ~\E i \in Instances, t \in Transitions, r \in Rows : Enqueue(i, t, r)
  <2>1. \A r \in Rows : RowKept(r)
    BY <1>2, StepKeeps
  <2> QED  BY <2>1 DEF RowKept, Pending, Completed, StaysOver
<1> QED  BY <1>1, <1>2

(* A step that neither runs hooks nor makes anybody owe them.              *)
LEMMA NoNewHooks ==
  ASSUME TypeOK, HooksAreOwed, HooksRunOnce, UNCHANGED hooks,
         \A r \in Rows : StaysOver(r),
         \A w \in Workers : pc'[w] \in {"hooks", "nethooks"} =>
           pc'[w] = pc[w] /\ task'[w] = task[w] /\ outcome'[w] = outcome[w]
  PROVE  HooksAreOwed' /\ HooksRunOnce'
<1>1. HooksAreOwed'
  <2>1. \A w \in Workers : pc[w] \in {"hooks", "nethooks"} => task[w] \in Rows
    BY DEF TypeOK
  <2> QED  BY <2>1 DEF HooksAreOwed, StaysOver, Completed
<1>2. HooksRunOnce'
  <2>1. \A w \in Workers, r \in Rows : OwesHooks(w, r)' => OwesHooks(w, r)
    BY DEF OwesHooks
  <2> QED  BY <2>1 DEF HooksRunOnce, StaysOver, Completed
<1> QED  BY <1>1, <1>2

(* A worker or safety net that ends an uncompleted row and owes its hooks. *)
LEMMA NewHooks ==
  ASSUME TypeOK, HooksAreOwed, HooksRunOnce, UNCHANGED hooks,
         \A r \in Rows : StaysOver(r),
         NEW w \in Workers, task[w] \in Rows, Pending(task[w]),
         UNCHANGED task,
         \A v \in Workers : v # w => pc'[v] = pc[v] /\ outcome'[v] = outcome[v],
         \/ pc'[w] = "hooks" /\ outcome'[w] = "success" /\ msg'[task[w]].status = "done"
         \/ pc'[w] = "hooks" /\ outcome'[w] = "failure" /\ msg'[task[w]].status = "failed"
         \/ pc'[w] = "nethooks" /\ msg'[task[w]].status = "failed"
  PROVE  HooksAreOwed' /\ HooksRunOnce'
<1>1. HooksAreOwed'
  <2>1. \A v \in Workers : pc[v] \in {"hooks", "nethooks"} => task[v] \in Rows
    BY DEF TypeOK
  <2> QED  BY <2>1 DEF HooksAreOwed, StaysOver, Completed
<1>2. \A v \in Workers : ~OwesHooks(v, task[w])
  BY DEF HooksAreOwed, OwesHooks, Pending
<1>3. hooks[task[w]] = "none"
  BY DEF TypeOK, HooksRunOnce, Pending
<1>4. \A v \in Workers, r \in Rows :
        OwesHooks(v, r)' => OwesHooks(v, r) \/ (v = w /\ r = task[w])
  BY DEF OwesHooks
<1>5. HooksRunOnce'
  BY <1>2, <1>3, <1>4 DEF HooksRunOnce, StaysOver, Completed
<1> QED  BY <1>1, <1>5

(* The hooks that are owed are run, by the one who owes them.              *)
LEMMA HooksPaid ==
  ASSUME TypeOK, HooksAreOwed, HooksRunOnce, UNCHANGED msg,
         NEW w \in Workers, NEW h,
         \/ pc[w] = "hooks" /\ h = outcome[w]
         \/ pc[w] = "nethooks" /\ h = "failure",
         hooks' = [hooks EXCEPT ![task[w]] = h],
         pc'[w] \notin {"hooks", "nethooks"},
         \A v \in Workers : v # w =>
           pc'[v] = pc[v] /\ task'[v] = task[v] /\ outcome'[v] = outcome[v]
  PROVE  HooksAreOwed' /\ HooksRunOnce'
<1>1. task[w] \in Rows
  BY DEF TypeOK
<1>2. HooksAreOwed'
  BY DEF HooksAreOwed
<1>3. \/ h = "success" /\ msg[task[w]].status \in {"done", "deleted"}
      \/ h = "failure" /\ msg[task[w]].status \in {"failed", "deleted"}
  BY DEF HooksAreOwed
<1>4. \A v \in Workers, r \in Rows : OwesHooks(v, r)' => OwesHooks(v, r) /\ v # w
  BY DEF OwesHooks
<1>5. \A v \in Workers : OwesHooks(v, task[w]) => v = w
  BY <1>1 DEF HooksRunOnce, OwesHooks
<1>6. HooksRunOnce'
  BY <1>1, <1>3, <1>4, <1>5 DEF TypeOK, HooksRunOnce
<1> QED  BY <1>2, <1>6

(* Hooks are owed only for what is on the row, and run once.               *)
LEMMA HooksStep ==
  ASSUME TypeOK, RowLockGuardsAttempt, HooksAreOwed, HooksRunOnce, [Next]_vars
  PROVE  HooksAreOwed' /\ HooksRunOnce'
<1>0. \A r \in Rows : StaysOver(r)
  BY OverStep
<1>1. ASSUME NEW i \in Instances, NEW t \in Transitions, NEW r \in Rows,
             Enqueue(i, t, r)
      PROVE  HooksAreOwed' /\ HooksRunOnce'
  BY <1>0, <1>1, NoNewHooks DEF Enqueue
<1>2. ASSUME NEW i \in Instances, NEW s \in ExternalStates, ExternalWrite(i, s)
      PROVE  HooksAreOwed' /\ HooksRunOnce'
  BY <1>0, <1>2, NoNewHooks DEF ExternalWrite
<1>3. ASSUME NEW w \in Workers, NEW p \in Places, Go(w, p), UNCHANGED hooks,
             p \notin {"hooks", "nethooks"},
             \A v \in Workers : v # w => task'[v] = task[v] /\ outcome'[v] = outcome[v]
      PROVE  HooksAreOwed' /\ HooksRunOnce'
  BY <1>0, <1>3, NoNewHooks DEF TypeOK, Go
<1>4. ASSUME NEW w \in Workers, ChildStep(w)
      PROVE  HooksAreOwed' /\ HooksRunOnce'
  <2>1. CASE \/ Stamp(w) \/ SkipAttempt(w) \/ BeginAttempt(w) \/ Supersede(w)
             \/ CannotRestore(w) \/ RestoreFails(w) \/ MarkUnrestorable(w)
             \/ AttemptFails(w) \/ CutAttemptRaises(w) \/ ChildExits(w)
    <3>1. \E p \in Places \ {"hooks", "nethooks"} :
            /\ Go(w, p)
            /\ \A v \in Workers : v # w => task'[v] = task[v] /\ outcome'[v] = outcome[v]
            /\ UNCHANGED hooks
      BY <2>1 DEF TypeOK, Stamp, SkipAttempt, BeginAttempt, Supersede,
         CannotRestore, RestoreFails, MarkUnrestorable, AttemptFails,
         CutAttemptRaises, ChildExits, Return, Places, ChildSteps
    <3> QED  BY <1>3, <3>1
  <2>2. CASE AttemptSucceeds(w)
    <3>1. task[w] \in Rows /\ Pending(task[w])
      BY <2>2, RunningIsPending DEF AttemptSucceeds
    <3>2. msg'[task[w]].status = "done"
      BY <2>2, <3>1, PendingIsMessage, EndLemma
         DEF TypeOK, AttemptSucceeds, Put, Completed
    <3> QED
      BY <1>0, <2>2, <3>1, <3>2, NewHooks DEF TypeOK, AttemptSucceeds, Go
  <2>3. CASE AttemptFailsForGood(w)
    <3>1. task[w] \in Rows /\ Pending(task[w])
      BY <2>3, RunningIsPending DEF AttemptFailsForGood
    <3>2. msg'[task[w]].status = "failed"
      BY <2>3, <3>1, PendingIsMessage, ChargeLemma, EndLemma
         DEF TypeOK, AttemptFailsForGood, Put, Completed
    <3> QED
      BY <1>0, <2>3, <3>1, <3>2, NewHooks DEF TypeOK, AttemptFailsForGood, Go
  <2>4. CASE RunHooks(w)
    <3>1. /\ UNCHANGED <<msg, task, outcome>>
          /\ pc[w] = "hooks" /\ pc'[w] = "exit"
          /\ \A v \in Workers : v # w => pc'[v] = pc[v]
          /\ hooks' = [hooks EXCEPT ![task[w]] = outcome[w]]
      BY <2>4 DEF TypeOK, RunHooks, Go
    <3> QED  BY <3>1, HooksPaid
  <2> QED  BY <1>4, <2>1, <2>2, <2>3, <2>4 DEF ChildStep
<1>5. ASSUME NEW w \in Workers,
             \/ Claim(w) \/ LoseConnection(w) \/ ChildDies(w) \/ RecordDeath(w)
             \/ WorkerDies(w)
      PROVE  HooksAreOwed' /\ HooksRunOnce'
  <2>1. \E p \in Places \ {"hooks", "nethooks"} :
          /\ Go(w, p)
          /\ \A v \in Workers : v # w => task'[v] = task[v] /\ outcome'[v] = outcome[v]
          /\ UNCHANGED hooks
    BY <1>5 DEF TypeOK, Claim, LoseConnection, ChildDies, RecordDeath, WorkerDies,
       Return, Places, ChildSteps
  <2> QED  BY <1>3, <2>1
<1>6. ASSUME NEW w \in Workers, NEW r \in Rows, WatchdogScan(w, r) \/ StuckScan(w, r)
      PROVE  HooksAreOwed' /\ HooksRunOnce'
  <2>1. \E p \in Places \ {"hooks", "nethooks"} :
          /\ Go(w, p)
          /\ \A v \in Workers : v # w => task'[v] = task[v] /\ outcome'[v] = outcome[v]
          /\ UNCHANGED hooks
    BY <1>6 DEF TypeOK, WatchdogScan, StuckScan, Places, NetSteps
  <2> QED  BY <1>3, <2>1
<1>7. ASSUME NEW w \in Workers, NEW m, NEW p \in {"watchwrite", "stuckwrite"},
             FinalizeTerminal(w, m, p), UNCHANGED hooks
      PROVE  HooksAreOwed' /\ HooksRunOnce'
  <2>1. CASE Go(w, p) /\ UNCHANGED <<task, outcome>>
    BY <1>3, <1>7, <2>1 DEF Places, NetSteps
  <2>2. CASE Return(w)
    BY <1>3, <1>7, <2>2 DEF TypeOK, Return, Places
  <2> QED  BY <1>7, <2>1, <2>2 DEF FinalizeTerminal
<1>8. ASSUME NEW w \in Workers, NetStep(w)
      PROVE  HooksAreOwed' /\ HooksRunOnce'
  <2>1. ASSUME Return(w), UNCHANGED hooks
        PROVE  HooksAreOwed' /\ HooksRunOnce'
    BY <1>3, <2>1 DEF TypeOK, Return, Places
  <2>2. CASE Abandon(w)
    BY <1>7, <2>1, <2>2 DEF Abandon
  <2>3. CASE FinalizeStuck(w)
    BY <1>7, <2>1, <2>3 DEF FinalizeStuck
  <2>4. CASE RunNetHooks(w)
    <3>1. /\ UNCHANGED msg
          /\ pc[w] = "nethooks" /\ pc'[w] = "idle"
          /\ \A v \in Workers : v # w =>
               pc'[v] = pc[v] /\ task'[v] = task[v] /\ outcome'[v] = outcome[v]
          /\ hooks' = [hooks EXCEPT ![task[w]] = "failure"]
      BY <2>4 DEF TypeOK, RunNetHooks, Return, Go
    <3> QED  BY <3>1, HooksPaid
  <2>5. CASE AbandonWrite(w) \/ FinalizeStuckWrite(w)
    <3>1. PICK m \in Message : FinalizeWrite(w, m)
      BY <2>5, WriteIsPending
    <3>2. task[w] \in Rows /\ Pending(task[w])
      BY <2>5, WriteIsPending
    <3>3. msg'[task[w]].status = "failed"
      BY <3>1, <3>2, EndLemma DEF TypeOK, FinalizeWrite, Put, Completed
    <3> QED  BY <1>0, <3>1, <3>2, <3>3, NewHooks DEF TypeOK, FinalizeWrite, Go
  <2> QED  BY <1>8, <2>2, <2>3, <2>4, <2>5 DEF NetStep
<1>9. ASSUME NEW r \in Rows, Cleanup(r) \/ RetryWaitElapses(r) \/ AttemptOverruns(r)
      PROVE  HooksAreOwed' /\ HooksRunOnce'
  BY <1>0, <1>9, NoNewHooks DEF Cleanup, RetryWaitElapses, AttemptOverruns
<1>10. CASE UNCHANGED vars
  BY <1>0, <1>10, NoNewHooks DEF vars
<1> QED
  BY <1>1, <1>2, <1>4, <1>5, <1>6, <1>8, <1>9, <1>10 DEF Next

-----------------------------------------------------------------------------
(***************************************************************************)
(* Safety for every value of the constants.                                *)
(***************************************************************************)

(* The invariant holds before the first row exists.                        *)
LEMMA InvInit == Init => Inv
<1> SUFFICES ASSUME Init  PROVE Inv
  OBVIOUS
<1>1. TypeOK
  BY ConstantsAssumption DEF Init, TypeOK, Places
<1>2. \A r \in Rows : ~Pending(r)
  BY DEF Init, Pending, NoMessage
<1>3. RowLockGuardsAttempt
  BY ConstantsAssumption DEF Init, RowLockGuardsAttempt, Locking
<1> QED
  BY <1>1, <1>2, <1>3
     DEF Init, Inv, OneUncompletedRow, WatchedIsAbandoned, HooksAreOwed, HooksRunOnce,
         OwesHooks

(* And every step keeps it.                                                *)
LEMMA InvStep == Inv /\ [Next]_vars => Inv'
  BY TypeStep, OneRowStep, RowLockStep, WatchStep, HooksStep DEF Inv

(* Inv is an invariant of the workers, with no assumption on how many      *)
(* there are, which of them die and how their steps interleave.            *)
THEOREM Invariant == Spec => []Inv
  BY InvInit, InvStep, PTL DEF Spec

(* Type correctness: no interleaving of workers, deaths and safety nets    *)
(* leaves a worker busy with no row or a row half-written.                 *)
THEOREM TypeCorrect == Spec => []TypeOK
  BY Invariant, PTL DEF Inv

(* SELECT ... FOR UPDATE in _run_atomic and the safety nets: the holder of *)
(* a row is in the one open transaction that can end or charge it, and the *)
(* row is uncompleted until then.  An attempt that lost its connection has *)
(* lost both: it runs on, beside the next one, and can commit nothing.     *)
THEOREM RowLock == Spec => []RowLockGuardsAttempt
  BY Invariant, PTL DEF Inv

(* Hooks after the commit: the callbacks of a row are run at most once, by *)
(* one worker or safety net, for the outcome that was committed.           *)
THEOREM HooksOnce == Spec => []HooksRunOnce
  BY Invariant, PTL DEF Inv

(* The is_completed guards of every writer: a completed row is never       *)
(* reopened, ended again or charged.                                       *)
THEOREM CompletedFinal == Spec => CompletedIsFinal
<1>1. Inv /\ [Next]_vars => [\A r \in Rows : msg[r].status \in Completed \cup {"deleted"} =>
                               /\ msg'[r].status \in {msg[r].status, "deleted"}
                               /\ msg'[r].errors = msg[r].errors]_vars
  BY OverStep DEF Inv, StaysOver
<1> QED  BY <1>1, Invariant, PTL DEF Spec, CompletedIsFinal

-----------------------------------------------------------------------------
(***************************************************************************)
(* How far errors_count can pass MAX_ERRORS, for every number of workers.  *)
(*                                                                         *)
(* Only a claim asks for errors_count < MAX_ERRORS.  A worker that claimed *)
(* the row before the limit was reached can still die and charge it, and   *)
(* so can the watchdog for an attempt that left no error.  The proof keeps *)
(* a budget for each uncompleted row: the errors it has and the workers    *)
(* that can still charge it, together, stay below the bound.               *)
(***************************************************************************)

(* The workers whose claim of r is not over: a death in any step of the    *)
(* child, the exit included, is recorded on the row.                       *)
Chargers(r) == {w \in Workers : task[w] = r /\ pc[w] \in ChildSteps \cup {"dead"}}

(* A row nobody charged since its last stamp has room for the watchdog,    *)
(* which is none of its chargers: whoever stamped it did not charge it.    *)
Budget(r) ==
  LET limit == MaxErrors + Cardinality(Workers) IN
  /\ msg[r] # NoMessage => msg[r].errors < limit
  /\ Pending(r) =>
       /\ msg[r].errors + Cardinality(Chargers(r)) < limit
       /\ ~msg[r].charged => msg[r].errors = 0 \/ msg[r].errors + 1 < limit

ErrorsInHand == \A r \in Rows : Budget(r)

-----------------------------------------------------------------------------
(***************************************************************************)
(* Counting workers.                                                       *)
(***************************************************************************)

(* Part of the workers is no more than all of them, and one that leaves    *)
(* makes the rest one fewer.                                               *)
LEMMA CountLemma ==
  ASSUME NEW S \in SUBSET Workers, NEW T \in SUBSET S
  PROVE  /\ Cardinality(Workers) \in Nat
         /\ Cardinality(S) \in Nat
         /\ Cardinality(T) \in Nat
         /\ Cardinality(S) <= Cardinality(Workers)
         /\ Cardinality(T) <= Cardinality(S)
         /\ \A w \in S : w \notin T => Cardinality(T) + 1 <= Cardinality(S)
<1>1. IsFiniteSet(Workers) /\ IsFiniteSet(S) /\ IsFiniteSet(T)
  BY ConstantsAssumption, FS_Subset
<1>2. ASSUME NEW w \in S, w \notin T
      PROVE  Cardinality(T) + 1 <= Cardinality(S)
  <2>1. IsFiniteSet(S \ {w}) /\ Cardinality(S \ {w}) = Cardinality(S) - 1
    BY <1>1, FS_RemoveElement
  <2>2. T \subseteq S \ {w}
    BY <1>2
  <2>3. Cardinality(T) <= Cardinality(S \ {w})
    BY <2>1, <2>2, FS_Subset
  <2> QED  BY <1>1, <2>1, <2>3, FS_CardinalityType
<1> QED  BY <1>1, <1>2, FS_Subset, FS_CardinalityType

(* Somebody who is one of the workers makes at least one.                  *)
LEMMA CountOne ==
  ASSUME NEW S \in SUBSET Workers, NEW w \in S
  PROVE  Cardinality(S) \in Nat /\ Cardinality(S) >= 1
<1>1. Cardinality({}) + 1 <= Cardinality(S) /\ Cardinality({}) \in Nat /\ Cardinality(S) \in Nat
  BY CountLemma
<1> QED  BY <1>1

-----------------------------------------------------------------------------
(***************************************************************************)
(* What can happen to one row in one step.                                 *)
(***************************************************************************)

(* Nobody charges the row, and nobody new claims it or the limit is not    *)
(* reached: the budget holds.                                              *)
LEMMA QuietStep ==
  ASSUME TypeOK, NEW r \in Rows, Budget(r), msg[r] \in Message,
         msg'[r].errors = msg[r].errors,
         Pending(r)' => Pending(r) /\ (msg[r].charged => msg'[r].charged),
         Chargers(r)' \subseteq Chargers(r) \/ msg[r].errors < MaxErrors
  PROVE  Budget(r)'
<1>1. Chargers(r) \in SUBSET Workers /\ Chargers(r)' \in SUBSET Workers
  BY DEF Chargers
<1>2. /\ Cardinality(Workers) \in Nat
      /\ Cardinality(Chargers(r)) \in Nat
      /\ Cardinality(Chargers(r)') \in Nat
      /\ Cardinality(Chargers(r)') <= Cardinality(Workers)
  BY <1>1, CountLemma
<1>3. Chargers(r)' \subseteq Chargers(r) =>
        Cardinality(Chargers(r)') <= Cardinality(Chargers(r))
  BY <1>1, CountLemma
<1>4. msg[r] # NoMessage /\ msg[r].errors \in Nat
  BY DEF Message, NoMessage
<1>5. MaxErrors \in Nat
  BY ConstantsAssumption
<1>6. msg'[r].errors < MaxErrors + Cardinality(Workers)
  BY <1>4 DEF Budget
<1>7. ASSUME Pending(r)'
      PROVE  msg'[r].errors + Cardinality(Chargers(r)') < MaxErrors + Cardinality(Workers)
  BY <1>2, <1>3, <1>4, <1>5, <1>7 DEF Budget
<1>8. ASSUME Pending(r)', ~msg'[r].charged
      PROVE  \/ msg'[r].errors = 0
             \/ msg'[r].errors + 1 < MaxErrors + Cardinality(Workers)
  BY <1>8 DEF Budget
<1> QED  BY <1>6, <1>7, <1>8 DEF Budget

(* The row takes one error: below the limit, or as its end, or from a      *)
(* worker that leaves it.                                                  *)
LEMMA ChargeStep ==
  ASSUME TypeOK, NEW r \in Rows, Budget(r), Pending(r), NEW w \in Workers,
         msg'[r].errors = msg[r].errors + 1,
         Pending(r)' => msg'[r].charged,
         w \in Chargers(r) \/ ~msg[r].charged,
         \/ ~Pending(r)'
         \/ msg'[r].errors < MaxErrors
         \/ w \in Chargers(r) /\ Chargers(r)' \subseteq Chargers(r) \ {w}
  PROVE  Budget(r)'
<1>1. Chargers(r) \in SUBSET Workers /\ Chargers(r)' \in SUBSET Workers
  BY DEF Chargers
<1>2. /\ Cardinality(Workers) \in Nat /\ Cardinality(Workers) >= 1
      /\ Cardinality(Chargers(r)) \in Nat
      /\ Cardinality(Chargers(r)') \in Nat
      /\ Cardinality(Chargers(r)') <= Cardinality(Workers)
      /\ w \in Chargers(r) => Cardinality(Chargers(r)) >= 1
  BY <1>1, CountLemma, CountOne
<1>3. w \in Chargers(r) /\ Chargers(r)' \subseteq Chargers(r) \ {w} =>
        Cardinality(Chargers(r)') + 1 <= Cardinality(Chargers(r))
  BY <1>1, CountLemma
<1>4. msg[r] # NoMessage /\ msg[r].errors \in Nat
  BY PendingIsMessage DEF Message, NoMessage
<1>5. MaxErrors \in Nat /\ MaxErrors >= 1
  BY ConstantsAssumption
<1>6. msg'[r].errors < MaxErrors + Cardinality(Workers)
  BY <1>2, <1>4, <1>5 DEF Budget
<1>7. ASSUME Pending(r)'
      PROVE  msg'[r].errors + Cardinality(Chargers(r)') < MaxErrors + Cardinality(Workers)
  BY <1>2, <1>3, <1>4, <1>5, <1>7 DEF Budget
<1> QED  BY <1>6, <1>7 DEF Budget

(* A worker that claimed the row stamps it: the watchdog may charge it     *)
(* again, and the worker is there to be counted.                           *)
LEMMA StampStep ==
  ASSUME TypeOK, NEW r \in Rows, Budget(r), Pending(r), NEW w \in Chargers(r),
         msg'[r].errors = msg[r].errors,
         Chargers(r)' \subseteq Chargers(r)
  PROVE  Budget(r)'
<1>1. Chargers(r) \in SUBSET Workers /\ Chargers(r)' \in SUBSET Chargers(r)
  BY DEF Chargers
<1>2. /\ Cardinality(Workers) \in Nat
      /\ Cardinality(Chargers(r)) \in Nat /\ Cardinality(Chargers(r)) >= 1
      /\ Cardinality(Chargers(r)') \in Nat
      /\ Cardinality(Chargers(r)') <= Cardinality(Chargers(r))
  BY <1>1, CountLemma, CountOne
<1>3. msg[r] # NoMessage /\ msg[r].errors \in Nat
  BY PendingIsMessage DEF Message, NoMessage
<1>4. MaxErrors \in Nat
  BY ConstantsAssumption
<1>5. msg[r].errors + Cardinality(Chargers(r)) < MaxErrors + Cardinality(Workers)
  BY DEF Budget
<1> QED  BY <1>2, <1>3, <1>4, <1>5 DEF Budget
(* The row is as it was, or still an id that no INSERT has used.           *)
LEMMA UntouchedRow ==
  ASSUME TypeOK, NEW r \in Rows, Budget(r), msg'[r] = msg[r],
         \/ Chargers(r)' \subseteq Chargers(r)
         \/ Pending(r) /\ msg[r].errors < MaxErrors
  PROVE  Budget(r)'
<1>1. CASE msg[r] = NoMessage
  BY <1>1 DEF Budget, Pending, NoMessage
<1>2. CASE msg[r] \in Message
  BY <1>2, QuietStep DEF Pending
<1> QED  BY <1>1, <1>2 DEF TypeOK

(* Only a claim makes a charger, and a worker back in its loop is none.    *)
LEMMA ChargersShrink ==
  ASSUME TypeOK, NEW w \in Workers,
         \A v \in Workers : v # w => pc'[v] = pc[v] /\ task'[v] = task[v],
         pc'[w] \in ChildSteps \cup {"dead"} =>
           pc[w] \in ChildSteps \cup {"dead"} /\ task'[w] = task[w]
  PROVE  \A r \in Rows :
           /\ Chargers(r)' \subseteq Chargers(r)
           /\ pc'[w] = "idle" => Chargers(r)' \subseteq Chargers(r) \ {w}
  BY DEF Chargers, ChildSteps

(* A worker that stays with its row, or drops it, changes one row at most. *)
LEMMA OneRowBudget ==
  ASSUME TypeOK, ErrorsInHand, NEW q \in Rows,
         \A r \in Rows : r # q => msg'[r] = msg[r],
         \A r \in Rows : Chargers(r)' \subseteq Chargers(r),
         Budget(q)'
  PROVE  ErrorsInHand'
<1>1. ASSUME NEW r \in Rows, r # q
      PROVE  Budget(r)'
  BY <1>1, UntouchedRow DEF ErrorsInHand
<1> QED  BY <1>1 DEF ErrorsInHand

(* Nothing is written, and nobody new claims.                              *)
LEMMA QuietBudget ==
  ASSUME TypeOK, ErrorsInHand, UNCHANGED msg,
         \A r \in Rows : Chargers(r)' \subseteq Chargers(r)
  PROVE  ErrorsInHand'
<1>1. ASSUME NEW r \in Rows
      PROVE  Budget(r)'
  BY <1>1, UntouchedRow DEF ErrorsInHand
<1> QED  BY <1>1 DEF ErrorsInHand

(* A row that ends without another error.                                  *)
LEMMA EndBudget ==
  ASSUME TypeOK, ErrorsInHand, NEW q \in Rows, msg[q] \in Message,
         NEW s \in Completed \cup {"deleted"},
         \A r \in Rows : Chargers(r)' \subseteq Chargers(r),
         Put(q, End(msg[q], s))
  PROVE  ErrorsInHand'
<1>1. msg'[q] = End(msg[q], s) /\ \A r \in Rows : r # q => msg'[r] = msg[r]
  BY DEF TypeOK, Put
<1>2. msg'[q].errors = msg[q].errors /\ msg'[q].status = s
  BY <1>1, EndLemma
<1>3. Budget(q) /\ Chargers(q)' \subseteq Chargers(q)
  BY DEF ErrorsInHand
<1>4. Budget(q)'
  BY <1>2, <1>3, QuietStep DEF Pending, Completed
<1> QED  BY <1>1, <1>4, OneRowBudget

(* A row that is charged and ends.                                         *)
LEMMA LastChargeBudget ==
  ASSUME TypeOK, ErrorsInHand, NEW q \in Rows, Pending(q), NEW w \in Workers,
         w \in Chargers(q) \/ ~msg[q].charged,
         NEW s \in Completed,
         \A r \in Rows : Chargers(r)' \subseteq Chargers(r),
         Put(q, End(Charge(msg[q]), s))
  PROVE  ErrorsInHand'
<1>1. msg'[q] = End(Charge(msg[q]), s) /\ \A r \in Rows : r # q => msg'[r] = msg[r]
  BY DEF TypeOK, Put
<1>2. msg'[q].errors = msg[q].errors + 1 /\ msg'[q].status = s
  BY <1>1, PendingIsMessage, ChargeLemma, EndLemma
<1>3. Budget(q)
  BY DEF ErrorsInHand
<1>4. Budget(q)'
  BY <1>2, <1>3, ChargeStep DEF Pending, Completed
<1> QED  BY <1>1, <1>4, OneRowBudget

(* A row that is charged and waits for its next attempt.                   *)
LEMMA RetryBudget ==
  ASSUME TypeOK, ErrorsInHand, NEW q \in Rows, Pending(q), NEW w \in Workers,
         w \in Chargers(q) \/ ~msg[q].charged,
         \/ Charge(msg[q]).errors < MaxErrors
         \/ w \in Chargers(q) /\ Chargers(q)' \subseteq Chargers(q) \ {w},
         \A r \in Rows : Chargers(r)' \subseteq Chargers(r),
         Put(q, Charge(msg[q]))
  PROVE  ErrorsInHand'
<1>1. msg'[q] = Charge(msg[q]) /\ \A r \in Rows : r # q => msg'[r] = msg[r]
  BY DEF TypeOK, Put
<1>2. msg'[q].errors = msg[q].errors + 1 /\ msg'[q].charged
  BY <1>1, PendingIsMessage, ChargeLemma DEF Charge, Message
<1>3. Budget(q)
  BY DEF ErrorsInHand
<1>4. Budget(q)'
  BY <1>1, <1>2, <1>3, ChargeStep
<1> QED  BY <1>1, <1>4, OneRowBudget
-----------------------------------------------------------------------------
(***************************************************************************)
(* One lemma for each kind of step, and the theorem.                       *)
(***************************************************************************)

(* Steps of the child process of an attempt.                               *)
LEMMA ChildBudget ==
  ASSUME TypeOK, RowLockGuardsAttempt, ErrorsInHand, NEW w \in Workers, ChildStep(w)
  PROVE  ErrorsInHand'
<1> DEFINE q == task[w]
<1>1. \A v \in Workers : v # w => pc'[v] = pc[v] /\ task'[v] = task[v]
  BY DEF TypeOK, ChildStep, Stamp, SkipAttempt, BeginAttempt, Supersede, CannotRestore,
         RestoreFails, MarkUnrestorable, AttemptSucceeds, AttemptFails,
         AttemptFailsForGood, CutAttemptRaises, RunHooks, ChildExits, Return, Go
<1>2. q \in Rows /\ w \in Chargers(q)
  BY DEF TypeOK, Chargers, ChildSteps, ChildStep, Stamp, SkipAttempt, BeginAttempt,
         Supersede, CannotRestore, RestoreFails, MarkUnrestorable, AttemptSucceeds,
         AttemptFails, AttemptFailsForGood, CutAttemptRaises, RunHooks, ChildExits
<1>3. pc'[w] \in ChildSteps \cup {"dead"} => task'[w] = task[w]
  BY DEF TypeOK, ChildSteps, ChildStep, Stamp, SkipAttempt, BeginAttempt, Supersede,
         CannotRestore, RestoreFails, MarkUnrestorable, AttemptSucceeds, AttemptFails,
         AttemptFailsForGood, CutAttemptRaises, RunHooks, ChildExits, Return, Go
<1>4. pc[w] \in ChildSteps \cup {"dead"}
  BY <1>2 DEF Chargers
<1>5. \A r \in Rows : Chargers(r)' \subseteq Chargers(r)
  BY <1>1, <1>3, <1>4, ChargersShrink
<1>6. CASE UNCHANGED msg
  BY <1>5, <1>6, QuietBudget
<1>7. CASE Stamp(w)
  <2>1. CASE UNCHANGED msg
    BY <1>6, <2>1
  <2>2. CASE Pending(q) /\ Put(q, [msg[q] EXCEPT !.clock = "fresh", !.charged = FALSE])
    <3>1. PICK r \in Rows : r = q
      BY <1>2
    <3>2. /\ msg'[r] = [msg[r] EXCEPT !.clock = "fresh", !.charged = FALSE]
          /\ \A p \in Rows : p # r => msg'[p] = msg[p]
      BY <2>2, <3>1 DEF TypeOK, Put
    <3>3. msg'[r].errors = msg[r].errors
      BY <2>2, <3>1, <3>2, PendingIsMessage DEF Message
    <3>4. Budget(r)'
      BY <1>2, <1>5, <2>2, <3>1, <3>3, StampStep DEF ErrorsInHand
    <3> QED  BY <1>5, <3>2, <3>4, OneRowBudget
  <2> QED  BY <1>7, <2>1, <2>2 DEF Stamp
<1>8. CASE Supersede(w) \/ MarkUnrestorable(w) \/ AttemptSucceeds(w)
  <2>1. CASE UNCHANGED msg
    BY <1>6, <2>1
  <2>2. CASE /\ Pending(q)
             /\ \/ Put(q, End(msg[q], "superseded"))
                \/ Put(q, End(msg[q], "failed"))
                \/ Put(q, End(msg[q], "done"))
    BY <1>2, <1>5, <2>2, PendingIsMessage, EndBudget DEF Completed
  <2>3. AttemptSucceeds(w) => Pending(q)
    BY RunningIsPending DEF AttemptSucceeds
  <2> QED
    BY <1>8, <2>1, <2>2, <2>3 DEF Supersede, MarkUnrestorable, AttemptSucceeds, Put
<1>9. CASE RestoreFails(w) \/ AttemptFails(w) \/ AttemptFailsForGood(w)
  <2>1. Pending(q)
    BY <1>9, RunningIsPending DEF RestoreFails, AttemptFails, AttemptFailsForGood
  <2>2. Charge(msg[q]).errors = msg[q].errors + 1
    BY <1>2, <2>1, PendingIsMessage, ChargeLemma
  <2>3. \/ Charge(msg[q]).errors < MaxErrors /\ Put(q, Charge(msg[q]))
        \/ Put(q, End(Charge(msg[q]), "failed"))
    BY <1>9, <2>2 DEF RestoreFails, AttemptFails, AttemptFailsForGood
  <2>4. CASE Charge(msg[q]).errors < MaxErrors /\ Put(q, Charge(msg[q]))
    BY <1>2, <1>5, <2>1, <2>4, RetryBudget
  <2>5. CASE Put(q, End(Charge(msg[q]), "failed"))
    BY <1>2, <1>5, <2>1, <2>5, LastChargeBudget DEF Completed
  <2> QED  BY <2>3, <2>4, <2>5
<1> QED
  BY <1>6, <1>7, <1>8, <1>9
     DEF ChildStep, SkipAttempt, BeginAttempt, CannotRestore, CutAttemptRaises,
         RunHooks, ChildExits

(* Lost connections, deaths, and the parent that records one.                                *)
LEMMA DeathBudget ==
  ASSUME TypeOK, ErrorsInHand, NEW w \in Workers,
         LoseConnection(w) \/ ChildDies(w) \/ RecordDeath(w) \/ WorkerDies(w)
  PROVE  ErrorsInHand'
<1> DEFINE q == task[w]
<1>1. \A v \in Workers : v # w => pc'[v] = pc[v] /\ task'[v] = task[v]
  BY DEF TypeOK, LoseConnection, ChildDies, RecordDeath, WorkerDies, Return, Go
<1>2. pc'[w] \in ChildSteps \cup {"dead"} =>
        pc[w] \in ChildSteps \cup {"dead"} /\ task'[w] = task[w]
  BY DEF TypeOK, ChildSteps, LoseConnection, ChildDies, RecordDeath, WorkerDies,
         Return, Go
<1>3. \A r \in Rows :
        /\ Chargers(r)' \subseteq Chargers(r)
        /\ pc'[w] = "idle" => Chargers(r)' \subseteq Chargers(r) \ {w}
  BY <1>1, <1>2, ChargersShrink
<1>4. CASE UNCHANGED msg
  BY <1>3, <1>4, QuietBudget
<1>5. CASE RecordDeath(w) /\ Pending(q)
  <2>1. q \in Rows /\ w \in Chargers(q) /\ pc'[w] = "idle" /\ Put(q, Charge(msg[q]))
    BY <1>5 DEF TypeOK, RecordDeath, Return, Go, Chargers, Put
  <2> QED  BY <1>3, <1>5, <2>1, RetryBudget
<1> QED
  BY <1>4, <1>5 DEF LoseConnection, ChildDies, RecordDeath, WorkerDies

(* The safety nets: the watchdog charges only what is not charged.         *)
LEMMA NetBudget ==
  ASSUME TypeOK, RowLockGuardsAttempt, WatchedIsAbandoned, ErrorsInHand,
         NEW w \in Workers, NetStep(w)
  PROVE  ErrorsInHand'
<1> DEFINE q == task[w]
<1>1. \A v \in Workers : v # w => pc'[v] = pc[v] /\ task'[v] = task[v]
  BY DEF TypeOK, NetStep, Abandon, AbandonWrite, FinalizeStuck, FinalizeStuckWrite,
         RunNetHooks, FinalizeTerminal, FinalizeWrite, Return, Go
<1>2. pc'[w] \notin ChildSteps \cup {"dead"} /\ q \in Rows
  BY DEF TypeOK, NetStep, Abandon, AbandonWrite, FinalizeStuck, FinalizeStuckWrite,
         RunNetHooks, FinalizeTerminal, FinalizeWrite, Return, Go, ChildSteps
<1>3. \A r \in Rows : Chargers(r)' \subseteq Chargers(r)
  BY <1>1, <1>2, ChargersShrink
<1>4. CASE UNCHANGED msg
  BY <1>3, <1>4, QuietBudget
<1>5. ASSUME NEW m, NEW p, FinalizeTerminal(w, m, p), msg' # msg
      PROVE  Put(q, End(m, "failed")) \/ Put(q, End(m, "superseded"))
  BY <1>5 DEF FinalizeTerminal
<1>6. CASE Abandon(w) /\ Abandonable(q) /\ msg' # msg
  <2>1. Pending(q) /\ ~msg[q].charged
    BY <1>6 DEF Abandonable
  <2>2. CASE Charge(msg[q]).errors < MaxErrors /\ Put(q, Charge(msg[q]))
    BY <1>2, <1>3, <2>1, <2>2, RetryBudget
  <2>3. CASE FinalizeTerminal(w, Charge(msg[q]), "watchwrite")
    BY <1>2, <1>3, <1>5, <1>6, <2>1, <2>3, LastChargeBudget DEF Completed
  <2> QED  BY <1>6, <2>2, <2>3 DEF Abandon
<1>7. CASE FinalizeStuck(w) /\ Pending(q) /\ Free(q) /\ msg' # msg
  <2>1. FinalizeTerminal(w, msg[q], "stuckwrite")
    BY <1>7 DEF FinalizeStuck
  <2> QED  BY <1>2, <1>3, <1>5, <1>7, <2>1, PendingIsMessage, EndBudget DEF Completed
<1>8. CASE AbandonWrite(w)
  <2>1. Pending(q)
    BY <1>8, WriteIsPending
  <2>2. ~msg[q].charged /\ Put(q, End(Charge(msg[q]), "failed"))
    BY <1>8 DEF AbandonWrite, FinalizeWrite, WatchedIsAbandoned
  <2> QED  BY <1>2, <1>3, <2>1, <2>2, LastChargeBudget DEF Completed
<1>9. CASE FinalizeStuckWrite(w)
  <2>1. Pending(q) /\ Put(q, End(msg[q], "failed"))
    BY <1>9, WriteIsPending DEF FinalizeStuckWrite, FinalizeWrite
  <2> QED  BY <1>2, <1>3, <2>1, PendingIsMessage, EndBudget DEF Completed
<1> QED
  BY <1>4, <1>6, <1>7, <1>8, <1>9 DEF NetStep, Abandon, FinalizeStuck, RunNetHooks

(* The worker that claims a row found it below the limit.                  *)
LEMMA ClaimBudget ==
  ASSUME TypeOK, ErrorsInHand, NEW w \in Workers, Claim(w)
  PROVE  ErrorsInHand'
<1>1. PICK q \in Rows : /\ Pending(q) /\ msg[q].errors < MaxErrors
                        /\ task' = [task EXCEPT ![w] = q]
  BY DEF Claim, Claimable
<1>2. \A r \in Rows : r # q => Chargers(r)' \subseteq Chargers(r)
  BY <1>1 DEF TypeOK, Claim, Go, Chargers, ChildSteps
<1>3. ASSUME NEW r \in Rows
      PROVE  Budget(r)'
  BY <1>1, <1>2, UntouchedRow DEF ErrorsInHand, Claim
<1> QED  BY <1>3 DEF ErrorsInHand

(* Enqueue puts a row nobody has claimed before in the place of an unused  *)
(* id; whoever still holds that id cannot outnumber the workers.           *)
LEMMA EnqueueBudget ==
  ASSUME TypeOK, ErrorsInHand, NEW i \in Instances, NEW t \in Transitions,
         NEW q \in Rows, Enqueue(i, t, q)
  PROVE  ErrorsInHand'
<1>1. \A r \in Rows : Chargers(r)' = Chargers(r)
  BY DEF Enqueue, Chargers
<1>2. msg'[q] = NewMessage(i, t) /\ \A r \in Rows : r # q => msg'[r] = msg[r]
  BY DEF TypeOK, Enqueue, Put
<1>3. Chargers(q)' \in SUBSET Workers
  BY DEF Chargers
<1>4. /\ Cardinality(Workers) \in Nat /\ Cardinality(Chargers(q)') \in Nat
      /\ Cardinality(Chargers(q)') <= Cardinality(Workers)
  BY <1>3, CountLemma
<1>5. msg'[q].errors = 0
  BY <1>2 DEF NewMessage
<1>6. Budget(q)'
  BY <1>4, <1>5, ConstantsAssumption DEF Budget
<1> QED  BY <1>1, <1>2, <1>6, OneRowBudget

(* Every step keeps the budget of every row.                               *)
LEMMA BudgetStep ==
  ASSUME TypeOK, RowLockGuardsAttempt, WatchedIsAbandoned, ErrorsInHand, [Next]_vars
  PROVE  ErrorsInHand'
<1>1. ASSUME NEW w \in Workers, NEW r \in Rows, WatchdogScan(w, r) \/ StuckScan(w, r)
      PROVE  ErrorsInHand'
  <2>1. \A p \in Rows : Chargers(p)' \subseteq Chargers(p)
    BY <1>1 DEF TypeOK, WatchdogScan, StuckScan, Go, Chargers, ChildSteps
  <2> QED  BY <1>1, <2>1, QuietBudget DEF WatchdogScan, StuckScan
<1>2. ASSUME NEW r \in Rows, Cleanup(r)
      PROVE  ErrorsInHand'
  <2>1. \A p \in Rows : Chargers(p)' \subseteq Chargers(p)
    BY <1>2 DEF Cleanup, Chargers
  <2>2. ASSUME NEW p \in Rows
        PROVE  Budget(p)'
    <3>1. CASE Swept(p, r)
      <4>1. msg[p] \in Message /\ msg'[p] = End(msg[p], "deleted")
        BY <1>2, <3>1, CompletedIsMessage DEF Cleanup, Swept
      <4>2. msg'[p].errors = msg[p].errors /\ msg'[p].status = "deleted"
        BY <4>1, EndLemma
      <4> QED  BY <2>1, <4>1, <4>2, QuietStep DEF ErrorsInHand, Pending
    <3>2. CASE ~Swept(p, r)
      BY <1>2, <2>1, <3>2, UntouchedRow DEF Cleanup, ErrorsInHand
    <3> QED  BY <3>1, <3>2
  <2> QED  BY <2>2 DEF ErrorsInHand
<1>3. ASSUME NEW r \in Rows, RetryWaitElapses(r) \/ AttemptOverruns(r)
      PROVE  ErrorsInHand'
  <2>1. \A p \in Rows : Chargers(p)' \subseteq Chargers(p)
    BY <1>3 DEF RetryWaitElapses, AttemptOverruns, Chargers
  <2>2. /\ \A p \in Rows : p # r => msg'[p] = msg[p]
        /\ \/ msg'[r] = [msg[r] EXCEPT !.waiting = FALSE]
           \/ msg'[r] = [msg[r] EXCEPT !.clock = "overdue"]
    BY <1>3 DEF TypeOK, RetryWaitElapses, AttemptOverruns, Put
  <2>3. Pending(r) /\ msg[r] \in Message
    BY <1>3, PendingIsMessage DEF RetryWaitElapses, AttemptOverruns
  <2>4. msg'[r].errors = msg[r].errors /\ msg'[r].charged = msg[r].charged
    BY <2>2, <2>3 DEF Message
  <2>5. Budget(r)'
    BY <2>1, <2>3, <2>4, QuietStep DEF ErrorsInHand
  <2> QED  BY <2>1, <2>2, <2>5, OneRowBudget
<1>4. ASSUME UNCHANGED <<msg, pc, task>>
      PROVE  ErrorsInHand'
  <2>1. \A p \in Rows : Chargers(p)' \subseteq Chargers(p)
    BY <1>4 DEF Chargers
  <2> QED  BY <1>4, <2>1, QuietBudget
<1>5. (\E i \in Instances, s \in ExternalStates : ExternalWrite(i, s)) \/ UNCHANGED vars
        => UNCHANGED <<msg, pc, task>>
  BY DEF ExternalWrite, vars
<1> QED
  BY <1>1, <1>2, <1>3, <1>4, <1>5, ChildBudget, DeathBudget, NetBudget, ClaimBudget,
     EnqueueBudget DEF Next

(* MAX_ERRORS is a limit up to the number of workers, whatever order they  *)
(* claim, die, are killed and run their nets in: errors_count of a row     *)
(* stays below MAX_ERRORS plus the number of workers.                      *)
THEOREM CrashLoopsEnd == Spec => []ErrorsBounded
<1>1. Init => ErrorsInHand
  BY DEF Init, ErrorsInHand, Budget, Pending, NoMessage
<1>2. Inv /\ ErrorsInHand /\ [Next]_vars => ErrorsInHand'
  BY BudgetStep DEF Inv
<1>3. ErrorsInHand => ErrorsBounded
  BY DEF ErrorsInHand, Budget, ErrorsBounded
<1> QED  BY <1>1, <1>2, <1>3, Invariant, PTL DEF Spec
=============================================================================
