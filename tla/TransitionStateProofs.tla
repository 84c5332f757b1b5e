------------------------ MODULE TransitionStateProofs ------------------------
(***************************************************************************)
(* Theorems about the state column: what a step may do to it, that workers *)
(* never move an instance that its own row does not own, that a parked     *)
(* instance can be explained, and that the rows keep their promise.        *)
(***************************************************************************)
EXTENDS TransitionMessageProofs

(* One uncompleted row ends and no other row changes.                      *)
Ends(r, s) ==
  /\ Pending(r)
  /\ msg'[r] \in Message
  /\ msg'[r].status = s
  /\ msg'[r].inst = msg[r].inst
  /\ msg'[r].tr = msg[r].tr
  /\ \A q \in Rows \ {r} : msg'[q] = msg[q]

(* No row starts, ends or goes.                                            *)
Stays ==
  \A r \in Rows :
    \/ msg'[r] = msg[r]
    \/ /\ Pending(r) /\ msg'[r] \in Message
       /\ msg'[r].status = "pending"
       /\ msg'[r].inst = msg[r].inst
       /\ msg'[r].tr = msg[r].tr

(* All that a worker or a safety net may do to the rows and the column.    *)
WorkerStep ==
  \/ \E r \in Rows : Ends(r, "done") /\ ~Free(r) /\ WriteTarget(r)
  \/ \E r \in Rows : /\ Ends(r, "failed")
                     /\ WriteFailedState(r)
                     /\ UNCHANGED field \/ ~Free(r)
  \/ \E r \in Rows : Ends(r, "superseded") /\ ~StateGuardMatches(r) /\ UNCHANGED field
  \/ Stays /\ UNCHANGED field

(* Replacing an uncompleted row by a later version ends it or keeps it. *)
LEMMA PutEnds ==
  ASSUME TypeOK, NEW r \in Rows, Pending(r), NEW m, Later(r, m), Put(r, m)
  PROVE  \/ Ends(r, m.status) /\ m.status \in Completed
         \/ Stays
  BY DEF TypeOK, Put, Ends, Stays, Later

(* Ending a row, charged or not, makes a later version of it. *)
LEMMA EndedVersion ==
  ASSUME TypeOK, NEW r \in Rows, Pending(r),
         NEW m, m = msg[r] \/ m = Charge(msg[r]), NEW s \in Completed
  PROVE  Later(r, End(m, s)) /\ End(m, s).status = s
<1>1. msg[r] \in Message /\ Charge(msg[r]) \in Message
  BY PendingIsMessage, ChargeLemma
<1>2. m \in Message /\ End(m, s).status = s
  BY <1>1, EndLemma
<1> QED  BY <1>2, LaterVersions

(* A safety net that finalizes a row does what a worker step may do. *)
LEMMA FinalizeEnds ==
  ASSUME TypeOK, NEW w \in Workers, task[w] \in Rows, Pending(task[w]),
         NEW m, m = msg[task[w]] \/ m = Charge(msg[task[w]]),
         \/ FinalizeWrite(w, m) /\ ~Free(task[w])
         \/ UNCHANGED field /\ \E p : FinalizeTerminal(w, m, p)
  PROVE  WorkerStep
<1> DEFINE r == task[w]
<1>1. /\ Later(r, End(m, "failed")) /\ End(m, "failed").status = "failed"
      /\ Later(r, End(m, "superseded")) /\ End(m, "superseded").status = "superseded"
  BY EndedVersion DEF Completed
<1>2. CASE /\ Put(r, End(m, "failed"))
           /\ WriteFailedState(r)
           /\ UNCHANGED field \/ ~Free(r)
  BY <1>1, <1>2 DEF TypeOK, Put, Ends, Later, WorkerStep
<1>3. CASE /\ ~StateGuardMatches(r)
           /\ Put(r, End(m, "superseded"))
           /\ UNCHANGED field
  BY <1>1, <1>3 DEF TypeOK, Put, Ends, Later, WorkerStep
<1>4. CASE UNCHANGED <<msg, field>>
  BY <1>4 DEF WorkerStep, Stays
<1> QED  BY <1>2, <1>3, <1>4 DEF FinalizeTerminal, FinalizeWrite, WriteFailedState

(* Every step is an enqueue, an operator's write, a sweep or one of these. *)
LEMMA StepKinds ==
  ASSUME TypeOK, RowLockGuardsAttempt, [Next]_vars
  PROVE  \/ \E i \in Instances, t \in Transitions, r \in Rows : Enqueue(i, t, r)
         \/ \E i \in Instances, s \in ExternalStates : ExternalWrite(i, s)
         \/ \E r \in Rows : Cleanup(r)
         \/ WorkerStep
<1>1. ASSUME UNCHANGED <<msg, field>>
      PROVE  WorkerStep
  BY <1>1 DEF WorkerStep, Stays
<1>2. ASSUME NEW w \in Workers, ChildStep(w)
      PROVE  WorkerStep
  <2> DEFINE r == task[w]
  <2>1. pc[w] # "idle" /\ r \in Rows
    BY <1>2 DEF TypeOK, ChildStep, Stamp, SkipAttempt, BeginAttempt,
       Supersede, CannotRestore, RestoreFails, MarkUnrestorable, AttemptSucceeds,
       AttemptFails, AttemptFailsForGood, CutAttemptRaises, RunHooks, ChildExits
  <2>2. CASE \/ SkipAttempt(w) \/ BeginAttempt(w) \/ CannotRestore(w)
             \/ CutAttemptRaises(w) \/ RunHooks(w) \/ ChildExits(w)
    BY <1>1, <2>2 DEF SkipAttempt, BeginAttempt, CannotRestore, CutAttemptRaises,
       RunHooks, ChildExits
  <2>3. CASE Stamp(w) \/ Supersede(w) \/ RestoreFails(w) \/ MarkUnrestorable(w)
             \/ AttemptFails(w)
    <3>1. CASE UNCHANGED msg
      BY <1>1, <2>3, <3>1
         DEF Stamp, Supersede, RestoreFails, MarkUnrestorable, AttemptFails
    <3>2. CASE Pending(r)
      <4> DEFINE stamped == [msg[r] EXCEPT !.clock = "fresh", !.charged = FALSE]
      <4>1. ASSUME NEW m, Put(r, m), Later(r, m), m.status \in {"pending", "failed"},
                   UNCHANGED field
            PROVE  WorkerStep
        BY <2>1, <3>2, <4>1, PutEnds DEF WorkerStep, WriteFailedState, Completed
      <4>2. /\ Later(r, Charge(msg[r])) /\ Charge(msg[r]).status = "pending"
            /\ Later(r, stamped)
        BY <2>1, <3>2, LaterVersions
      <4>3. stamped.status = "pending"
        BY <2>1, <3>2, PendingIsMessage DEF Pending, Message
      <4>4. ASSUME NEW m, m = msg[r] \/ m = Charge(msg[r]), NEW s \in Completed
            PROVE  Later(r, End(m, s)) /\ End(m, s).status = s
        BY <2>1, <3>2, <4>4, EndedVersion
      <4> HIDE DEF stamped
      <4>5. CASE Stamp(w)
        <5>1. UNCHANGED field /\ (UNCHANGED msg \/ Put(r, stamped))
          BY <4>5 DEF Stamp, stamped
        <5> QED  BY <1>1, <4>1, <4>2, <4>3, <5>1
      <4>6. CASE Supersede(w)
        <5>1. Put(r, End(msg[r], "superseded")) /\ ~StateGuardMatches(r) /\ UNCHANGED field
          BY <4>6 DEF Supersede
        <5>2. /\ Later(r, End(msg[r], "superseded"))
              /\ End(msg[r], "superseded").status = "superseded"
          BY <4>4 DEF Completed
        <5>3. Ends(r, "superseded")
          BY <2>1, <3>2, <5>1, <5>2 DEF TypeOK, Put, Ends, Later
        <5> QED  BY <2>1, <5>1, <5>3 DEF WorkerStep
      <4>7. CASE RestoreFails(w)
        BY <4>1, <4>2, <4>4, <4>7 DEF RestoreFails, Completed
      <4>8. CASE MarkUnrestorable(w)
        BY <3>2, <4>1, <4>4, <4>8 DEF MarkUnrestorable, Put, Completed
      <4>9. CASE AttemptFails(w)
        BY <4>1, <4>2, <4>9 DEF AttemptFails
      <4> QED  BY <2>3, <4>5, <4>6, <4>7, <4>8, <4>9
    <3>3. CASE ~Pending(r) /\ msg' # msg
      BY <2>3, <3>3, RunningIsPending
         DEF Stamp, Supersede, RestoreFails, MarkUnrestorable, AttemptFails
    <3> QED  BY <3>1, <3>2, <3>3
  <2>4. CASE AttemptSucceeds(w) \/ AttemptFailsForGood(w)
    <3>1. Pending(r) /\ ~Free(r)
      BY <2>4, LockedIsPending, ConstantsAssumption
         DEF AttemptSucceeds, AttemptFailsForGood, Locking, Free
    <3>2. /\ Later(r, End(msg[r], "done")) /\ Later(r, End(Charge(msg[r]), "failed"))
          /\ End(msg[r], "done").status = "done"
          /\ End(Charge(msg[r]), "failed").status = "failed"
      BY <2>1, <3>1, EndedVersion DEF Completed
    <3> QED
      BY <2>1, <2>4, <3>1, <3>2
         DEF TypeOK, AttemptSucceeds, AttemptFailsForGood, Put, Ends, Later, WorkerStep
  <2> QED  BY <1>2, <2>2, <2>3, <2>4 DEF ChildStep
<1>3. ASSUME NEW w \in Workers, RecordDeath(w)
      PROVE  WorkerStep
  <2>1. task[w] \in Rows /\ UNCHANGED field
    BY <1>3 DEF TypeOK, RecordDeath
  <2>2. CASE Pending(task[w])
    <3>1. Later(task[w], Charge(msg[task[w]])) /\ Charge(msg[task[w]]).status = "pending"
      BY <2>1, <2>2, LaterVersions
    <3> QED
      BY <1>3, <2>1, <2>2, <3>1, PutEnds DEF RecordDeath, Put, WorkerStep, Completed
  <2> QED  BY <1>1, <1>3, <2>1, <2>2 DEF RecordDeath
<1>4. ASSUME NEW w \in Workers, NetStep(w)
      PROVE  WorkerStep
  <2>1. task[w] \in Rows
    BY <1>4 DEF TypeOK, NetStep, Abandon, AbandonWrite, FinalizeStuck,
       FinalizeStuckWrite, RunNetHooks
  <2>2. CASE Abandon(w) /\ Pending(task[w])
    <3>1. Later(task[w], Charge(msg[task[w]])) /\ Charge(msg[task[w]]).status = "pending"
      BY <2>1, <2>2, LaterVersions
    <3>2. Put(task[w], Charge(msg[task[w]])) /\ UNCHANGED field => WorkerStep
      BY <2>1, <2>2, <3>1, PutEnds DEF WorkerStep, Completed
    <3> QED  BY <1>1, <2>1, <2>2, <3>2, FinalizeEnds DEF Abandon
  <2>3. CASE FinalizeStuck(w)
    BY <1>1, <2>1, <2>3, FinalizeEnds DEF FinalizeStuck
  <2>4. CASE RunNetHooks(w) \/ (Abandon(w) /\ ~Pending(task[w]))
    BY <1>1, <2>4 DEF RunNetHooks, Abandon, Abandonable
  <2>5. CASE AbandonWrite(w) \/ FinalizeStuckWrite(w)
    <3>1. Pending(task[w]) /\ ~Free(task[w])
      BY <2>5, WriteIsPending, ConstantsAssumption DEF Free
    <3> QED  BY <2>1, <2>5, <3>1, WriteIsPending, FinalizeEnds
  <2> QED  BY <1>4, <2>2, <2>3, <2>4, <2>5 DEF NetStep
<1>5. ASSUME NEW r \in Rows, RetryWaitElapses(r) \/ AttemptOverruns(r)
      PROVE  WorkerStep
  <2>1. Pending(r) /\ UNCHANGED field
    BY <1>5 DEF RetryWaitElapses, AttemptOverruns
  <2>2. msg[r] \in Message
    BY <2>1, PendingIsMessage
  <2>3. /\ [msg[r] EXCEPT !.waiting = FALSE].status = "pending"
        /\ [msg[r] EXCEPT !.clock = "overdue"].status = "pending"
    BY <2>1, <2>2 DEF Pending, Message
  <2> QED
    BY <1>5, <2>1, <2>3, LaterVersions, PutEnds
       DEF RetryWaitElapses, AttemptOverruns, WorkerStep, Completed
<1> QED
  BY <1>1, <1>2, <1>3, <1>4, <1>5
     DEF Next, vars, Claim, LoseConnection, ChildDies, WorkerDies, WatchdogScan,
         StuckScan

-----------------------------------------------------------------------------
(***************************************************************************)
(* The state guard.                                                        *)
(***************************************************************************)

(* Only a transaction whose guard found the instance in place locks a row. *)
LEMMA GuardBeforeLock ==
  ASSUME TypeOK, RowLockGuardsAttempt, [Next]_vars, NEW r \in Rows,
         Pending(r), Free(r), ~StateGuardMatches(r)
  PROVE  holder'[r] = NoWorker
<1>1. CASE UNCHANGED holder
  BY <1>1 DEF Free
<1>2. ASSUME NEW w \in Workers, DropLocks(w)
      PROVE  holder'[r] = NoWorker
  BY <1>2 DEF DropLocks, Free
<1>3. ASSUME NEW w \in Workers, Unlock(task[w])
      PROVE  holder'[r] = NoWorker
  BY <1>3 DEF TypeOK, Unlock, Free
<1>4. ASSUME NEW w \in Workers, holder' = [holder EXCEPT ![task[w]] = w],
             StateGuardMatches(task[w])
      PROVE  holder'[r] = NoWorker
  BY <1>4 DEF TypeOK, Free
<1>5. ASSUME NEW w \in Workers, ChildStep(w)
      PROVE  holder'[r] = NoWorker
  BY <1>1, <1>3, <1>4, <1>5
     DEF ChildStep, Stamp, SkipAttempt, BeginAttempt, Supersede, CannotRestore,
         RestoreFails, MarkUnrestorable, AttemptSucceeds, AttemptFails,
         AttemptFailsForGood, CutAttemptRaises, RunHooks, ChildExits
<1>6. ASSUME NEW w \in Workers, NetStep(w)
      PROVE  holder'[r] = NoWorker
  BY <1>1, <1>3, <1>4, <1>6
     DEF NetStep, Abandon, AbandonWrite, FinalizeStuck, FinalizeStuckWrite,
         FinalizeTerminal, FinalizeWrite, RunNetHooks
<1> QED
  BY <1>1, <1>2, <1>5, <1>6
     DEF Next, vars, Enqueue, ExternalWrite, Claim, LoseConnection, ChildDies,
         RecordDeath, WorkerDies, WatchdogScan, StuckScan, Cleanup, RetryWaitElapses,
         AttemptOverruns

(* _superseded_outcome and the guard of the safety nets: a fix made while  *)
(* no attempt and no finalization holds the row of the instance keeps them *)
(* off, and nothing that happens to the row writes the instance.  Between  *)
(* the guard and the write of a transaction nothing protects a fix.        *)
THEOREM FixWins == Spec => FixBeforeAttemptWins
<1>1. ASSUME Inv, [Next]_vars, NEW r \in Rows,
             Pending(r), Free(r), ~StateGuardMatches(r), msg'[r] # msg[r]
      PROVE  UNCHANGED field
  <2>1. CASE \E i \in Instances, t \in Transitions, q \in Rows : Enqueue(i, t, q)
    BY <1>1, <2>1 DEF Inv, TypeOK, Enqueue, Put, Pending, NoMessage
  <2>2. CASE WorkerStep
    BY <1>1, <2>2 DEF WorkerStep, Ends
  <2> QED
    BY <1>1, <2>1, <2>2, StepKinds DEF Inv, ExternalWrite, Cleanup
<1>2. Inv /\ [Next]_vars =>
        [\A r \in Rows :
           Pending(r) /\ Free(r) /\ ~StateGuardMatches(r) =>
             /\ holder'[r] = NoWorker
             /\ msg'[r] # msg[r] => UNCHANGED field]_vars
  BY <1>1, GuardBeforeLock DEF Inv
<1> QED  BY <1>2, Invariant, PTL DEF Spec, FixBeforeAttemptWins

(* No step of a worker, a safety net or a caller moves an instance that    *)
(* another uncompleted row owns.                                           *)
LEMMA OwnershipStep ==
  ASSUME Inv, PendingRowOwnsState, [Next]_vars, ExternalStates = {}
  PROVE  PendingRowOwnsState'
<1>1. ASSUME NEW i \in Instances, NEW t \in Transitions, NEW r \in Rows,
             Enqueue(i, t, r)
      PROVE  PendingRowOwnsState'
  <2>1. \A q \in Rows : q # r => msg'[q] = msg[q]
    BY <1>1 DEF Inv, TypeOK, Enqueue, Put
  <2>2. /\ msg'[r].inst = i /\ msg'[r].tr = t
    BY <1>1, NewMessageLemma DEF Inv, TypeOK, Enqueue, Put
  <2>3. \A q \in Rows : Pending(q) => msg[q].inst # i /\ msg[q] \in Message
    BY <1>1, PendingIsMessage DEF Inv, Enqueue, HasUncompletedRow
  <2>4. /\ field'[i] = IF InProgress[t] = NoState THEN field[i] ELSE InProgress[t]
        /\ field[i] \in Sources[t]
        /\ \A j \in Instances : j # i => field'[j] = field[j]
    BY <1>1 DEF Inv, TypeOK, Enqueue
  <2>5. StateGuardMatches(r)'
    BY <2>2, <2>4 DEF StateGuardMatches
  <2>6. ASSUME NEW q \in Rows, q # r, Pending(q)'
        PROVE  StateGuardMatches(q)'
    <3>1. Pending(q) /\ StateGuardMatches(q) /\ msg'[q] = msg[q]
      BY <2>1, <2>6 DEF Pending, PendingRowOwnsState
    <3>2. field'[msg[q].inst] = field[msg[q].inst]
      BY <2>3, <2>4, <3>1 DEF Message
    <3> QED  BY <3>1, <3>2 DEF StateGuardMatches
  <2> QED  BY <2>5, <2>6 DEF PendingRowOwnsState
<1>2. ASSUME UNCHANGED field,
             \A r \in Rows : Pending(r)' =>
               Pending(r) /\ msg'[r].inst = msg[r].inst /\ msg'[r].tr = msg[r].tr
      PROVE  PendingRowOwnsState'
  BY <1>2 DEF PendingRowOwnsState, StateGuardMatches
<1>3. ASSUME NEW r \in Rows, NEW s \in Completed, Ends(r, s),
             WriteTarget(r) \/ WriteFailedState(r)
      PROVE  PendingRowOwnsState'
  <2>1. msg[r] \in Message /\ ~Pending(r)'
    BY <1>3, PendingIsMessage DEF Inv, Ends, Pending, Completed
  <2>2. \A j \in Instances : j # msg[r].inst => field'[j] = field[j]
    BY <1>3, <2>1 DEF Inv, TypeOK, WriteTarget, WriteFailedState, Message
  <2>3. ASSUME NEW q \in Rows, Pending(q)'
        PROVE  StateGuardMatches(q)'
    <3>1. q # r /\ Pending(q) /\ StateGuardMatches(q) /\ msg'[q] = msg[q]
      BY <1>3, <2>1, <2>3 DEF Ends, Pending, PendingRowOwnsState
    <3>2. msg[q].inst # msg[r].inst /\ msg[q].inst \in Instances
      BY <1>3, <3>1, PendingIsMessage DEF Inv, Ends, OneUncompletedRow, Message
    <3> QED  BY <2>2, <3>1, <3>2 DEF StateGuardMatches
  <2> QED  BY <2>3 DEF PendingRowOwnsState
<1>4. ASSUME NEW r \in Rows, Cleanup(r)
      PROVE  PendingRowOwnsState'
  <2>1. \A q \in Rows : Pending(q)' => msg'[q] = msg[q]
    <3>1. \A q \in Rows : msg'[q] = msg[q] \/
            (msg[q].status \in Completed /\ msg'[q] = End(msg[q], "deleted"))
      BY <1>4 DEF Cleanup, Swept
    <3>2. \A q \in Rows : msg[q].status \in Completed => End(msg[q], "deleted").status = "deleted"
      BY CompletedIsMessage, EndLemma DEF Inv
    <3> QED  BY <3>1, <3>2 DEF Pending
  <2> QED  BY <1>2, <1>4, <2>1 DEF Cleanup, Pending
<1>5. CASE WorkerStep
  <2>1. CASE Stays /\ UNCHANGED field
    BY <1>2, <2>1 DEF Stays, Pending
  <2>2. ASSUME NEW r \in Rows, Ends(r, "superseded"), UNCHANGED field
        PROVE  PendingRowOwnsState'
    BY <1>2, <2>2 DEF Ends, Pending
  <2> QED  BY <1>3, <1>5, <2>1, <2>2 DEF WorkerStep, Completed
<1> QED
  BY <1>1, <1>4, <1>5, StepKinds DEF Inv

(* _state_guard_matches has no false alarms: while only the workers and    *)
(* callers write the column, every uncompleted row finds its instance      *)
(* where its enqueue left it, whatever fails, crashes or is swept.         *)
THEOREM NoFalseAlarm ==
  ASSUME ExternalStates = {}
  PROVE  Spec => []PendingRowOwnsState
<1>1. Init => PendingRowOwnsState
  BY DEF Init, PendingRowOwnsState, Pending, NoMessage
<1>2. Inv /\ PendingRowOwnsState /\ [Next]_vars => PendingRowOwnsState'
  BY OwnershipStep
<1> QED  BY <1>1, <1>2, Invariant, PTL DEF Spec

-----------------------------------------------------------------------------
(***************************************************************************)
(* The watchdog.                                                           *)
(***************************************************************************)

(* A worker that leaves the watchdog and changed its row found the row     *)
(* free, or holds it, and the attempt abandoned.                           *)
LEMMA WatchdogStep ==
  ASSUME Inv, [Next]_vars, NEW w \in Workers, pc[w] \in {"watch", "watchwrite"},
         pc'[w] # pc[w], msg'[task[w]] # msg[task[w]]
  PROVE  /\ Free(task[w]) \/ holder[task[w]] = w
         /\ msg[task[w]].clock = "overdue" /\ ~msg[task[w]].charged
<1>1. ASSUME Abandon(w)
      PROVE  Free(task[w]) /\ msg[task[w]].clock = "overdue" /\ ~msg[task[w]].charged
  BY <1>1 DEF Abandon, Abandonable
<1>2. ASSUME AbandonWrite(w)
      PROVE  /\ holder[task[w]] = w
             /\ msg[task[w]].clock = "overdue" /\ ~msg[task[w]].charged
  BY <1>2, WriteIsPending DEF Inv, AbandonWrite, WatchedIsAbandoned
<1>3. ASSUME NEW v \in Workers, v # w, NEW p, Go(v, p)
      PROVE  FALSE
  BY <1>3 DEF Inv, TypeOK, Go
<1>4. ASSUME NEW v \in Workers,
             \/ Claim(v) \/ ChildStep(v) \/ LoseConnection(v) \/ ChildDies(v)
             \/ RecordDeath(v) \/ WorkerDies(v)
      PROVE  FALSE
  <2>1. UNCHANGED msg \/ pc[v] \notin {"watch", "watchwrite"}
    BY <1>4 DEF Claim, ChildStep, LoseConnection, ChildDies, RecordDeath, WorkerDies,
       Stamp, SkipAttempt, BeginAttempt, Supersede, CannotRestore, RestoreFails,
       MarkUnrestorable, AttemptSucceeds, AttemptFails, AttemptFailsForGood,
       CutAttemptRaises, RunHooks, ChildExits
  <2>2. \E p : Go(v, p)
    BY <1>4 DEF Claim, ChildStep, LoseConnection, ChildDies, RecordDeath, WorkerDies,
       Stamp, SkipAttempt, BeginAttempt, Supersede, CannotRestore, RestoreFails,
       MarkUnrestorable, AttemptSucceeds, AttemptFails, AttemptFailsForGood,
       CutAttemptRaises, RunHooks, ChildExits, Return
  <2> QED  BY <1>3, <2>1, <2>2
<1>5. ASSUME NEW v \in Workers, NetStep(v)
      PROVE  Abandon(w) \/ AbandonWrite(w)
  <2>1. \E p : Go(v, p)
    BY <1>5 DEF NetStep, Abandon, AbandonWrite, FinalizeStuck, FinalizeStuckWrite,
       FinalizeTerminal, FinalizeWrite, RunNetHooks, Return
  <2>2. v = w
    BY <1>3, <2>1
  <2> QED
    BY <1>5, <2>2 DEF NetStep, FinalizeStuck, FinalizeStuckWrite, RunNetHooks
<1>6. ASSUME NEW v \in Workers, NEW r \in Rows, WatchdogScan(v, r) \/ StuckScan(v, r)
      PROVE  FALSE
  BY <1>6 DEF WatchdogScan, StuckScan
<1> QED
  BY <1>1, <1>2, <1>4, <1>5, <1>6
     DEF Next, vars, Enqueue, ExternalWrite, Cleanup, RetryWaitElapses, AttemptOverruns

(* abandon_timed_out_attempt: however stale the watchdog's scan is, and up *)
(* to the commit of its last charge, it charges only an attempt that       *)
(* outran its budget, left no error and has no open transaction.  Such an  *)
(* attempt may have lost its connection and still run its side-effects.    *)
THEOREM WatchdogSound == Spec => WatchdogChargesAbandonedOnly
<1>1. ASSUME Inv, [Next]_vars, NEW w \in Workers, pc[w] \in {"watch", "watchwrite"},
             pc'[w] # pc[w], msg'[task[w]] # msg[task[w]]
      PROVE  /\ \A v \in Workers \ {w} : ~(pc[v] \in Locking /\ task[v] = task[w])
             /\ msg[task[w]].clock = "overdue" /\ ~msg[task[w]].charged
  <2>1. /\ Free(task[w]) \/ holder[task[w]] = w
        /\ msg[task[w]].clock = "overdue" /\ ~msg[task[w]].charged
    BY <1>1, WatchdogStep
  <2>2. ASSUME NEW v \in Workers \ {w}, pc[v] \in Locking, task[v] = task[w]
        PROVE  FALSE
    <3>1. holder[task[w]] = v
      BY <1>1, <2>2, LockedIsPending DEF Inv
    <3> QED  BY <2>1, <3>1, ConstantsAssumption DEF Free
  <2> QED  BY <2>1, <2>2
<1>2. Inv /\ [Next]_vars =>
        [\A w \in Workers :
           LET r == task[w] IN
           pc[w] \in {"watch", "watchwrite"} /\ pc'[w] # pc[w] /\ msg'[r] # msg[r] =>
             /\ \A v \in Workers \ {w} : ~(pc[v] \in Locking /\ task[v] = r)
             /\ msg[r].clock = "overdue" /\ ~msg[r].charged]_vars
  BY <1>1
<1> QED  BY <1>2, Invariant, PTL DEF Spec, WatchdogChargesAbandonedOnly

-----------------------------------------------------------------------------
(***************************************************************************)
(* The cleanup sweep.                                                      *)
(***************************************************************************)

FailedRow(r, i) == msg[r].status = "failed" /\ msg[r].inst = i

(* An instance with a failure has a newest one: what the sweep looks for.  *)
FailureHasNewest ==
  \A i \in Instances :
    (\E r \in Rows : FailedRow(r, i)) => \E r \in Rows : FailedRow(r, i) /\ NewestFailed(r)

(* The sweep leaves the newest failure, and a new failure is the newest. *)
LEMMA NewestStep ==
  ASSUME Inv, FailureHasNewest, [Next]_vars
  PROVE  FailureHasNewest'
<1>1. ASSUME \A r \in Rows, i \in Instances : FailedRow(r, i)' <=> FailedRow(r, i)
      PROVE  FailureHasNewest'
  <2>1. ASSUME NEW i \in Instances, NEW r \in Rows, FailedRow(r, i), NewestFailed(r)
        PROVE  NewestFailed(r)'
    BY <1>1, <2>1 DEF NewestFailed, FailedRow
  <2> QED  BY <1>1, <2>1 DEF FailureHasNewest
<1>2. ASSUME NEW i \in Instances, NEW t \in Transitions, NEW r \in Rows,
             Enqueue(i, t, r)
      PROVE  FailureHasNewest'
  <2>1. \A q \in Rows, j \in Instances : FailedRow(q, j)' <=> FailedRow(q, j)
    BY <1>2, NewMessageLemma DEF Inv, TypeOK, Enqueue, Put, FailedRow, NoMessage
  <2> QED  BY <1>1, <2>1
<1>3. ASSUME NEW q \in Rows, Cleanup(q)
      PROVE  FailureHasNewest'
  <2>1. ASSUME NEW r \in Rows
        PROVE  /\ NewestFailed(r) => msg'[r] = msg[r]
               /\ \A i \in Instances : FailedRow(r, i)' => FailedRow(r, i)
    <3>1. msg'[r] = msg[r] \/ (Swept(r, q) /\ msg'[r] = End(msg[r], "deleted"))
      BY <1>3 DEF Cleanup
    <3>2. Swept(r, q) => End(msg[r], "deleted").status = "deleted"
      BY CompletedIsMessage, EndLemma DEF Inv, Swept
    <3> QED  BY <3>1, <3>2 DEF Swept, FailedRow
  <2>2. ASSUME NEW i \in Instances, NEW r \in Rows, FailedRow(r, i), NewestFailed(r)
        PROVE  FailedRow(r, i)' /\ NewestFailed(r)'
    <3>1. msg'[r] = msg[r]
      BY <2>1, <2>2
    <3>2. \A p \in Rows : p > r => ~FailedRow(p, i)'
      BY <2>1, <2>2 DEF FailedRow, NewestFailed
    <3> QED  BY <2>2, <3>1, <3>2 DEF FailedRow, NewestFailed
  <2> QED  BY <2>1, <2>2 DEF FailureHasNewest
<1>4. ASSUME NEW r \in Rows, Ends(r, "failed")
      PROVE  FailureHasNewest'
  <2>0. PICK i \in Instances : i = msg[r].inst
    BY <1>4, PendingIsMessage DEF Inv, Ends, Message
  <2>1. /\ \A q \in Rows, j \in Instances :
             q # r \/ j # i => (FailedRow(q, j)' <=> FailedRow(q, j))
        /\ FailedRow(r, i)'
    BY <1>4, <2>0 DEF Ends, FailedRow, Pending
  <2>2. ASSUME NEW j \in Instances, NEW q \in Rows,
               FailedRow(q, j), NewestFailed(q), j # i \/ q > r
        PROVE  FailedRow(q, j)' /\ NewestFailed(q)'
    BY <2>1, <2>2 DEF FailedRow, NewestFailed, Rows
  <2>3. ASSUME \A q \in Rows : q > r => ~FailedRow(q, i)
        PROVE  NewestFailed(r)'
    <3>1. msg'[r].status = "failed" /\ msg'[r].inst = i
      BY <1>4, <2>0 DEF Ends
    <3>2. \A p \in Rows : p > r => ~FailedRow(p, i)'
      BY <2>1, <2>3, ConstantsAssumption DEF Rows
    <3> QED  BY <3>1, <3>2 DEF FailedRow, NewestFailed
  <2>4. CASE \A q \in Rows : q > r => ~FailedRow(q, i)
    <3>1. FailedRow(r, i)' /\ NewestFailed(r)'
      BY <2>1, <2>3, <2>4
    <3>2. ASSUME NEW j \in Instances, j # i, NEW q \in Rows, FailedRow(q, j)'
          PROVE  \E p \in Rows : FailedRow(p, j)' /\ NewestFailed(p)'
      <4>1. FailedRow(q, j)
        BY <2>1, <3>2
      <4>2. PICK p \in Rows : FailedRow(p, j) /\ NewestFailed(p)
        BY <4>1 DEF FailureHasNewest
      <4> QED  BY <2>2, <3>2, <4>2
    <3> QED  BY <2>1, <3>1, <3>2 DEF FailureHasNewest
  <2>5. CASE \E q \in Rows : q > r /\ FailedRow(q, i)
    <3>1. PICK p \in Rows : FailedRow(p, i) /\ NewestFailed(p)
      BY <2>1, <2>5 DEF FailureHasNewest
    <3>2. p > r
      BY <2>5, <3>1, ConstantsAssumption DEF FailedRow, NewestFailed, Rows
    <3> QED  BY <2>1, <2>2, <3>1, <3>2 DEF FailureHasNewest
  <2> QED  BY <2>4, <2>5
<1>5. CASE WorkerStep
  <2>1. ASSUME NEW r \in Rows, NEW s \in {"done", "superseded"}, Ends(r, s)
        PROVE  FailureHasNewest'
    BY <1>1, <2>1 DEF Ends, FailedRow, Pending
  <2>2. CASE Stays
    BY <1>1, <2>2 DEF Stays, FailedRow, Pending
  <2> QED  BY <1>4, <1>5, <2>1, <2>2 DEF WorkerStep
<1>6. ASSUME NEW i \in Instances, NEW s \in ExternalStates, ExternalWrite(i, s)
      PROVE  FailureHasNewest'
  BY <1>1, <1>6 DEF ExternalWrite, FailedRow
<1> QED  BY <1>2, <1>3, <1>5, <1>6, StepKinds DEF Inv

(* No transition starts or succeeds into a state that marks one under way  *)
(* or failed, as in every process of the documentation and the tests.      *)
RestingStates ==
  \A t \in Transitions :
    /\ InitialState \notin {InProgress[t], FailedState[t]}
    /\ \A u \in Transitions :
         Target[u] # NoState => Target[u] \notin {InProgress[t], FailedState[t]}

(* What explains a parked instance, and survives both the end of a row and *)
(* the sweep.                                                              *)
Explained(i) ==
  \/ \E r \in Rows : FailedRow(r, i)
  \/ \E r \in Rows : Pending(r) /\ msg[r].inst = i /\ InProgress[msg[r].tr] = field[i]

ParkedInv == \A i \in Instances : Parked(i) => Explained(i)

(* Whatever parks an instance leaves a row behind that explains it. *)
LEMMA ParkedStep ==
  ASSUME Inv, PendingRowOwnsState, FailureHasNewest, ParkedInv, [Next]_vars,
         ExternalStates = {}, RestingStates
  PROVE  ParkedInv'
<1>1. ASSUME NEW i \in Instances, field'[i] = field[i],
             \A r \in Rows : FailedRow(r, i) => FailedRow(r, i)',
             \A r \in Rows : Pending(r) /\ msg[r].inst = i =>
               /\ Pending(r)' /\ msg'[r].inst = i
               /\ msg'[r].tr = msg[r].tr
      PROVE  Parked(i)' => Explained(i)'
  BY <1>1 DEF ParkedInv, Parked, Explained
<1>2. ASSUME NEW i \in Instances, NEW t \in Transitions, NEW r \in Rows,
             Enqueue(i, t, r)
      PROVE  ParkedInv'
  <2>1. /\ \A q \in Rows : q # r => msg'[q] = msg[q]
        /\ msg[r] = NoMessage
        /\ msg'[r] = NewMessage(i, t)
        /\ \A j \in Instances : j # i => field'[j] = field[j]
        /\ field'[i] = IF InProgress[t] = NoState THEN field[i] ELSE InProgress[t]
        /\ \A q \in Rows : Pending(q) => msg[q].inst # i
    BY <1>2 DEF Inv, TypeOK, Enqueue, Put, HasUncompletedRow
  <2>2. \A q \in Rows, j \in Instances : FailedRow(q, j) => FailedRow(q, j)'
    BY <2>1 DEF FailedRow, NoMessage
  <2>3. ASSUME NEW j \in Instances, j # i \/ InProgress[t] = NoState
        PROVE  Parked(j)' => Explained(j)'
    <3>1. \A q \in Rows : Pending(q) /\ msg[q].inst = j => msg'[q] = msg[q]
      BY <2>1 DEF Pending, NoMessage
    <3> QED  BY <1>1, <2>1, <2>2, <2>3, <3>1 DEF Pending
  <2>4. CASE InProgress[t] # NoState
    <3>1. Explained(i)'
      BY <2>1, <2>4, NewMessageLemma DEF Explained, Pending
    <3> QED  BY <2>3, <3>1 DEF ParkedInv
  <2> QED  BY <2>3, <2>4 DEF ParkedInv
<1>3. ASSUME NEW q \in Rows, Cleanup(q)
      PROVE  ParkedInv'
  <2>1. /\ UNCHANGED field
        /\ \A r \in Rows : NewestFailed(r) \/ Pending(r) => msg'[r] = msg[r]
    BY <1>3 DEF Cleanup, Swept, Pending, Completed
  <2>2. ASSUME NEW i \in Instances, Parked(i)'
        PROVE  Explained(i)'
    <3>1. Explained(i)
      BY <2>1, <2>2 DEF ParkedInv, Parked
    <3>2. CASE \E r \in Rows : FailedRow(r, i)
      <4>1. PICK r \in Rows : FailedRow(r, i) /\ NewestFailed(r)
        BY <3>2 DEF FailureHasNewest
      <4> QED  BY <2>1, <4>1 DEF Explained, FailedRow
    <3>3. CASE ~\E r \in Rows : FailedRow(r, i)
      BY <2>1, <3>1, <3>3 DEF Explained, Pending
    <3> QED  BY <3>2, <3>3
  <2> QED  BY <2>2 DEF ParkedInv
<1>4. ASSUME NEW r \in Rows, NEW s \in {"done", "failed"}, Ends(r, s),
             s = "done" => WriteTarget(r),
             s = "failed" => WriteFailedState(r)
      PROVE  ParkedInv'
  <2>1. msg[r] \in Message
    BY <1>4, PendingIsMessage DEF Inv, Ends
  <2>2. \A i \in Instances : i # msg[r].inst => field'[i] = field[i]
    BY <1>4, <2>1 DEF Inv, TypeOK, WriteTarget, WriteFailedState, Message
  <2>3. ASSUME NEW i \in Instances, i # msg[r].inst
        PROVE  Parked(i)' => Explained(i)'
    BY <1>1, <1>4, <2>2, <2>3 DEF Ends, FailedRow, Pending
  <2>4. ASSUME NEW i \in Instances, i = msg[r].inst, Parked(i)'
        PROVE  Explained(i)'
    <3>1. CASE s = "failed"
      BY <1>4, <2>4, <3>1 DEF Explained, Ends, FailedRow
    <3>2. CASE s = "done" /\ Target[msg[r].tr] # NoState
      <4>1. field'[i] = Target[msg[r].tr] /\ msg[r].tr \in Transitions
        BY <1>4, <2>1, <2>4, <3>2 DEF Inv, TypeOK, WriteTarget, Message
      <4> QED  BY <2>4, <3>2, <4>1 DEF Parked, RestingStates
    <3>3. CASE s = "done" /\ Target[msg[r].tr] = NoState
      <4>1. UNCHANGED field /\ Explained(i)
        BY <1>4, <2>4, <3>3 DEF WriteTarget, ParkedInv, Parked
      <4>2. InProgress[msg[r].tr] = NoState
        BY <2>1, <3>3, TransitionAssumption DEF ActionDeclarable, Message
      <4>3. \A q \in Rows : Pending(q) /\ msg[q].inst = i => q = r
        BY <1>4, <2>4 DEF Inv, OneUncompletedRow, Ends
      <4>4. \E q \in Rows : FailedRow(q, i)
        BY <4>1, <4>2, <4>3, ConstantsAssumption DEF Explained, Inv, TypeOK
      <4> QED  BY <1>4, <4>4 DEF Explained, Ends, FailedRow, Pending
    <3> QED  BY <3>1, <3>2, <3>3
  <2> QED  BY <2>3, <2>4 DEF ParkedInv
<1>5. CASE WorkerStep
  <2>1. ASSUME NEW r \in Rows, Ends(r, "superseded"), ~StateGuardMatches(r)
        PROVE  FALSE
    BY <2>1 DEF PendingRowOwnsState, Ends
  <2>2. CASE Stays /\ UNCHANGED field
    <3>1. ASSUME NEW i \in Instances
          PROVE  Parked(i)' => Explained(i)'
      BY <1>1, <2>2 DEF Stays, FailedRow, Pending
    <3> QED  BY <3>1 DEF ParkedInv
  <2> QED  BY <1>4, <1>5, <2>1, <2>2 DEF WorkerStep
<1> QED  BY <1>2, <1>3, <1>5, StepKinds DEF Inv

(* cleanup_completed_transitions and the failure paths together: while     *)
(* nothing but the library writes the column, an instance parked in an     *)
(* in-progress or failed state always has a row at work on it or a failure *)
(* row that explains it.                                                   *)
THEOREM ParkedHasRow ==
  ASSUME ExternalStates = {}, RestingStates
  PROVE  Spec => []ParkedIsExplained
<1> DEFINE I == PendingRowOwnsState /\ FailureHasNewest /\ ParkedInv
<1>1. Init => I
  <2> SUFFICES ASSUME Init  PROVE I
    OBVIOUS
  <2>1. \A r \in Rows : msg[r].status \notin {"pending", "failed"}
    BY DEF Init, NoMessage
  <2>2. \A i \in Instances : ~Parked(i)
    BY DEF Init, Parked, RestingStates
  <2> QED
    BY <2>1, <2>2 DEF PendingRowOwnsState, Pending, FailureHasNewest, FailedRow, ParkedInv
<1>2. Inv /\ I /\ [Next]_vars => I'
  BY OwnershipStep, NewestStep, ParkedStep
<1>3. I => ParkedIsExplained
  BY DEF ParkedInv, Explained, FailedRow, Pending, ParkedIsExplained
<1> QED
  <2> HIDE DEF I
  <2> QED  BY <1>1, <1>2, <1>3, Invariant, PTL DEF Spec
-----------------------------------------------------------------------------
(***************************************************************************)
(* One column at a time.                                                   *)
(***************************************************************************)

(* The owner of an instance is the transition of its one uncompleted row. *)
LEMMA OwnerOfRow ==
  ASSUME OneUncompletedRow, NEW r \in Rows, Pending(r)
  PROVE  Owner(msg[r].inst) = msg[r].tr
<1>1. \A q \in Rows : Pending(q) /\ msg[q].inst = msg[r].inst <=> q = r
  BY DEF OneUncompletedRow
<1>2. (CHOOSE q \in Rows : Pending(q) /\ msg[q].inst = msg[r].inst) = r
  BY <1>1
<1> QED  BY <1>1, <1>2 DEF Owner, HasUncompletedRow

(* The same after a step. *)
LEMMA OwnerAfterwards ==
  ASSUME OneUncompletedRow', NEW r \in Rows, Pending(r)', NEW i, msg'[r].inst = i
  PROVE  Owner(i)' = msg'[r].tr
<1>1. \A q \in Rows : (Pending(q) /\ msg[q].inst = i)' <=> q = r
  BY DEF OneUncompletedRow
<1>2. (CHOOSE q \in Rows : (Pending(q) /\ msg[q].inst = i)') = r
  BY <1>1
<1> QED  BY <1>1, <1>2 DEF Owner, HasUncompletedRow

(* An instance keeps its owner while the same transition is uncompleted. *)
LEMMA SameOwner ==
  ASSUME OneUncompletedRow, OneUncompletedRow', NEW i \in Instances,
         \A r \in Rows : (Pending(r) /\ msg[r].inst = i)'
                         <=> Pending(r) /\ msg[r].inst = i,
         \A r \in Rows : Pending(r) /\ msg[r].inst = i => msg'[r].tr = msg[r].tr
  PROVE  Owner(i)' = Owner(i)
<1>1. CASE HasUncompletedRow(i)
  <2>1. PICK r \in Rows : Pending(r) /\ msg[r].inst = i
    BY <1>1 DEF HasUncompletedRow
  <2>2. Owner(i) = msg[r].tr
    BY <2>1, OwnerOfRow
  <2>3. Owner(i)' = msg'[r].tr
    BY <2>1, OwnerAfterwards
  <2> QED  BY <2>1, <2>2, <2>3
<1>2. CASE ~HasUncompletedRow(i)
  BY <1>2 DEF HasUncompletedRow, Owner
<1> QED  BY <1>1, <1>2

(* Ending a row gives the column of its instance back and no other column. *)
LEMMA EndGivesBack ==
  ASSUME Inv, Inv', NEW i \in Instances, NEW r \in Rows, NEW s \in Completed,
         Ends(r, s), WriteTarget(r) \/ WriteFailedState(r)
  PROVE  [Column(i)!Next]_(Column(i)!columnVars)
<1> DEFINE j == msg[r].inst
           t == msg[r].tr
<1>1. msg[r] \in Message /\ ~Pending(r)'
  BY PendingIsMessage DEF Inv, Ends, Pending, Completed
<1>2. \A q \in Rows \ {r} : msg'[q] = msg[q]
  BY DEF Ends
<1>3. /\ field'[j] \in {field[j], Target[t], FailedState[t]} \ {NoState}
      /\ \A k \in Instances : k # j => field'[k] = field[k]
  BY <1>1, ConstantsAssumption
     DEF Inv, TypeOK, WriteTarget, WriteFailedState, Message
<1>4. CASE i = j
  <2>1. Owner(i) = t /\ t # NoState
    BY <1>1, <1>4, OwnerOfRow, ConstantsAssumption DEF Inv, Ends, Message
  <2>2. \A q \in Rows : ~(Pending(q) /\ msg[q].inst = i)'
    BY <1>1, <1>2, <1>4 DEF Inv, OneUncompletedRow, Ends, Pending
  <2>3. Owner(i)' = NoState
    BY <2>2 DEF Owner, HasUncompletedRow
  <2>4. Column(i)!GiveBack
    BY <1>3, <1>4, <2>1, <2>3 DEF Column!GiveBack
  <2> QED  BY <2>4 DEF Column!Next
<1>5. CASE i # j
  <2>1. \A q \in Rows : (Pending(q) /\ msg[q].inst = i)' <=> Pending(q) /\ msg[q].inst = i
    BY <1>1, <1>2, <1>5 DEF Pending
  <2>2. \A q \in Rows : Pending(q) /\ msg[q].inst = i => msg'[q].tr = msg[q].tr
    BY <1>2, <1>5
  <2>3. Owner(i)' = Owner(i) /\ field'[i] = field[i]
    BY <1>3, <1>5, <2>1, <2>2, SameOwner DEF Inv
  <2> QED  BY <2>3 DEF Column!columnVars
<1> QED  BY <1>4, <1>5

(* What every step means for the column of one instance. *)
LEMMA ColumnStep ==
  ASSUME Inv, Inv', [Next]_vars, NEW i \in Instances
  PROVE  [Column(i)!Next]_(Column(i)!columnVars)
<1>1. ASSUME field'[i] = field[i],
             \A r \in Rows :
               /\ (Pending(r) /\ msg[r].inst = i)' <=> Pending(r) /\ msg[r].inst = i
               /\ Pending(r) /\ msg[r].inst = i => msg'[r].tr = msg[r].tr
      PROVE  UNCHANGED Column(i)!columnVars
  BY <1>1, SameOwner DEF Inv, Column!columnVars
<1>2. ASSUME NEW j \in Instances, NEW t \in Transitions, NEW r \in Rows,
             Enqueue(j, t, r)
      PROVE  [Column(i)!Next]_(Column(i)!columnVars)
  <2>1. /\ \A q \in Rows : q # r => msg'[q] = msg[q]
        /\ msg'[r].inst = j /\ msg'[r].tr = t /\ msg'[r].status = "pending"
        /\ ~Pending(r)
    BY <1>2, NewMessageLemma DEF Inv, TypeOK, Enqueue, Put, Pending, NoMessage
  <2>2. /\ field'[j] = IF InProgress[t] = NoState THEN field[j] ELSE InProgress[t]
        /\ field[j] \in Sources[t]
        /\ \A k \in Instances : k # j => field'[k] = field[k]
    BY <1>2 DEF Inv, TypeOK, Enqueue
  <2>3. CASE i = j
    <3>1. Owner(i) = NoState
      BY <1>2, <2>3 DEF Enqueue, Owner
    <3>2. Owner(i)' = t
      BY <2>1, <2>3, OwnerAfterwards DEF Inv, Pending
    <3>3. Column(i)!Accept(t) /\ t \in Column(i)!OfKind("background")
      BY <2>2, <2>3, <3>1, <3>2 DEF Column!Accept, Column!OfKind
    <3> QED  BY <3>3 DEF Column!Next
  <2>4. CASE i # j
    BY <1>1, <2>1, <2>2, <2>4 DEF Pending
  <2> QED  BY <2>3, <2>4
<1>3. ASSUME NEW j \in Instances, NEW s \in ExternalStates, ExternalWrite(j, s)
      PROVE  [Column(i)!Next]_(Column(i)!columnVars)
  <2>1. Owner(i)' = Owner(i)
    BY <1>3 DEF ExternalWrite, Owner, HasUncompletedRow, Pending
  <2>2. field'[i] = IF i = j THEN s ELSE field[i]
    BY <1>3 DEF Inv, TypeOK, ExternalWrite
  <2> QED
    BY <2>1, <2>2 DEF Column!Next, Column!Overwrite, Column!columnVars
<1>4. ASSUME NEW q \in Rows, Cleanup(q)
      PROVE  [Column(i)!Next]_(Column(i)!columnVars)
  <2>1. \A r \in Rows :
          \/ msg'[r] = msg[r]
          \/ msg[r].status \in Completed /\ msg'[r] = End(msg[r], "deleted")
    BY <1>4 DEF Cleanup, Swept
  <2>2. \A r \in Rows :
          msg[r].status \in Completed => End(msg[r], "deleted").status = "deleted"
    BY CompletedIsMessage, EndLemma DEF Inv
  <2> QED  BY <1>1, <1>4, <2>1, <2>2 DEF Cleanup, Pending, Completed
<1>5. CASE WorkerStep
  <2>1. CASE Stays /\ UNCHANGED field
    BY <1>1, <2>1 DEF Stays, Pending
  <2>2. ASSUME NEW r \in Rows, Ends(r, "superseded"), UNCHANGED field
        PROVE  WriteFailedState(r)
    BY <2>2 DEF WriteFailedState
  <2> QED  BY <1>5, <2>1, <2>2, EndGivesBack DEF WorkerStep, Completed
<1> QED  BY <1>2, <1>3, <1>4, <1>5, StepKinds DEF Inv

(* Any number of workers, attempts, deaths, safety nets, sweeps and        *)
(* operators leave each instance with a column that one background         *)
(* transition owns from its enqueue to its end, as the gate assumes.       *)
THEOREM WorkersShareColumn == Spec => WorkersOwnColumn
<1>1. Init => \A i \in Instances : Column(i)!Init
  BY DEF Init, Owner, HasUncompletedRow, Pending, NoMessage, Column!Init
<1>2. Inv /\ Inv' /\ [Next]_vars =>
        [\A i \in Instances : [Column(i)!Next]_(Column(i)!columnVars)]_vars
  BY ColumnStep
<1> QED  BY <1>1, <1>2, Invariant, PTL DEF Spec, WorkersOwnColumn

-----------------------------------------------------------------------------
(***************************************************************************)
(* The safety part of the refinement: every step of the rows, workers and  *)
(* safety nets is a step of DurableWork or changes nothing that DurableWork *)
(* can see.  Its liveness is left to TLC.                                  *)
(***************************************************************************)

(* What DurableWork sees of a row. *)
LEMMA WorkOfRow ==
  ASSUME TypeOK, NEW r \in Rows
  PROVE  /\ msg[r] = NoMessage => Work[r] = NoMessage
         /\ msg[r] \in Message =>
              /\ Work[r] # NoMessage
              /\ Work[r].status = msg[r].status
              /\ Work[r].inst = msg[r].inst
              /\ Work[r].tr = msg[r].tr
         /\ Promise!Accepted(r) <=> msg[r] # NoMessage
         /\ Promise!Open(r) <=> Pending(r)
  BY DEF TypeOK, Work, Promise!Accepted, Promise!Open, Pending, Message, NoMessage,
     Completed

(* A row that ends is work that ends. *)
LEMMA EndsWork ==
  ASSUME TypeOK, NEW r \in Rows, NEW s \in Completed, Ends(r, s)
  PROVE  /\ Promise!EndAs(r, s)
         /\ Promise!InPlace(r) <=> StateGuardMatches(r)
         /\ Work[r].inst = msg[r].inst /\ Work[r].tr = msg[r].tr
<1>1. msg[r] \in Message /\ msg[r] # NoMessage /\ msg'[r] # NoMessage
  BY PendingIsMessage DEF Ends, Message, NoMessage, Completed
<1>2. Work[r] = [status |-> msg[r].status, inst |-> msg[r].inst, tr |-> msg[r].tr]
  BY <1>1 DEF Work
<1>3. Work'[r] = [status |-> s, inst |-> msg[r].inst, tr |-> msg[r].tr]
  BY <1>1 DEF Work, Ends
<1>4. Work'[r] = [Work[r] EXCEPT !.status = s]
  BY <1>2, <1>3
<1>5. \A q \in Rows \ {r} : Work'[q] = Work[q]
  BY DEF Work, Ends
<1>6. Work' = [Work EXCEPT ![r].status = s]
  BY <1>4, <1>5 DEF Work
<1>7. Promise!Open(r)
  BY WorkOfRow DEF Ends
<1> QED
  BY <1>2, <1>6, <1>7 DEF Promise!EndAs, Promise!InPlace, StateGuardMatches

(* An enqueue is the acceptance of one piece of work. *)
LEMMA EnqueueAccepts ==
  ASSUME TypeOK, NEW i \in Instances, NEW t \in Transitions, NEW r \in Rows,
         Enqueue(i, t, r)
  PROVE  Promise!Accept(r, i, t)
<1>1. /\ msg[r] = NoMessage
      /\ msg'[r] = NewMessage(i, t)
      /\ \A q \in Rows \ {r} : msg'[q] = msg[q]
  BY DEF TypeOK, Enqueue, Put
<1>2. Work'[r] = [status |-> "pending", inst |-> i, tr |-> t]
  BY <1>1, NewMessageLemma DEF Work, NoMessage
<1>3. \A q \in Rows \ {r} : Work'[q] = Work[q]
  BY <1>1 DEF Work
<1>4. Work' = [Work EXCEPT ![r] = [status |-> "pending", inst |-> i, tr |-> t]]
  BY <1>2, <1>3 DEF Work
<1>5. \A q \in Rows : Promise!Open(q) => Work[q].inst # i
  BY WorkOfRow, PendingIsMessage DEF Enqueue, HasUncompletedRow
<1>6. ~Promise!Accepted(r) /\ \A q \in Rows : q < r => Promise!Accepted(q)
  BY <1>1, WorkOfRow DEF Enqueue
<1>7. field' = [field EXCEPT ![i] = IF InProgress[t] = NoState THEN @ ELSE InProgress[t]]
  BY DEF TypeOK, Enqueue
<1> QED  BY <1>4, <1>5, <1>6, <1>7 DEF Promise!Accept, Enqueue

(* The sweep forgets ended work, but no newest failure. *)
LEMMA CleanupForgets ==
  ASSUME TypeOK, NEW r \in Rows, Cleanup(r)
  PROVE  \E S \in SUBSET Rows : Promise!Forget(S)
<1> DEFINE S == {q \in Rows : Swept(q, r)}
<1>1. ASSUME NEW q \in S
      PROVE  /\ Promise!Accepted(q) /\ Work[q].status \in Promise!Ended
             /\ ~Promise!LastFailure(q)
             /\ Work'[q] = [Work[q] EXCEPT !.status = "deleted"]
  <2>1. msg[q] \in Message /\ msg[q] # NoMessage /\ msg[q].status \in Completed
    BY CompletedIsMessage DEF Swept, Message, NoMessage, Completed
  <2>2. Promise!Accepted(q) /\ Work[q].status \in Promise!Ended
    BY <2>1, WorkOfRow DEF Promise!Ended, Completed
  <2>3. ASSUME Promise!LastFailure(q)  PROVE NewestFailed(q)
    <3>1. msg[q].status = "failed"
      BY <2>1, <2>3, WorkOfRow DEF Promise!LastFailure
    <3>2. ASSUME NEW p \in Rows, p > q, msg[p].status = "failed",
                 msg[p].inst = msg[q].inst
          PROVE  FALSE
      <4>1. msg[p] \in Message
        BY <3>2, CompletedIsMessage DEF Completed
      <4>2. /\ Promise!Accepted(p) /\ Work[p].status = "failed"
            /\ Work[p].inst = Work[q].inst
        BY <2>1, <3>2, <4>1, WorkOfRow DEF Message, NoMessage
      <4> QED  BY <2>3, <3>2, <4>2, ConstantsAssumption DEF Promise!LastFailure, Rows
    <3> QED  BY <3>1, <3>2 DEF NewestFailed
  <2>4. msg'[q] = End(msg[q], "deleted")
    BY DEF Cleanup
  <2>5. End(msg[q], "deleted") # NoMessage
    BY <2>1, EndLemma DEF NoMessage
  <2>6. Work'[q] = [status |-> "deleted", inst |-> msg[q].inst, tr |-> msg[q].tr]
    BY <2>1, <2>4, <2>5, EndLemma DEF Work
  <2>7. Work[q] = [status |-> msg[q].status, inst |-> msg[q].inst, tr |-> msg[q].tr]
    BY <2>1 DEF Work
  <2> QED  BY <2>2, <2>3, <2>6, <2>7 DEF Swept
<1>2. \A q \in Rows \ S : Work'[q] = Work[q]
  BY DEF Cleanup, Work
<1>3. Work' = [q \in Rows |-> IF q \in S THEN [Work[q] EXCEPT !.status = "deleted"]
                                        ELSE Work[q]]
  BY <1>1, <1>2 DEF Work
<1>4. UNCHANGED field
  BY DEF Cleanup
<1>5. Promise!Forget(S)
  BY <1>1, <1>3, <1>4 DEF Promise!Forget
<1> QED  BY <1>5

(* A step that starts and ends no row is a stutter of the promise. *)
LEMMA StaysStutters ==
  ASSUME TypeOK, Stays
  PROVE  Work' = Work
<1>1. ASSUME NEW r \in Rows
      PROVE  Work'[r] = Work[r]
  <2>1. CASE msg'[r] = msg[r]
    BY <2>1 DEF Work
  <2>2. CASE msg'[r] # msg[r]
    <3>1. /\ msg[r] \in Message /\ msg'[r] \in Message
          /\ msg'[r].status = msg[r].status
          /\ msg'[r].inst = msg[r].inst
          /\ msg'[r].tr = msg[r].tr
      BY <2>2, PendingIsMessage DEF Stays, Pending
    <3>2. msg[r] # NoMessage /\ msg'[r] # NoMessage
      BY <3>1 DEF Message, NoMessage, Completed
    <3> QED  BY <3>1, <3>2 DEF Work
  <2> QED  BY <2>1, <2>2
<1> QED  BY <1>1 DEF Work

(* Every step maps to a step of DurableWork or to a stutter. *)
LEMMA PromiseStep ==
  ASSUME Inv, [Next]_vars
  PROVE  [Promise!Next]_(Promise!promiseVars)
<1>1. ASSUME NEW i \in Instances, NEW t \in Transitions, NEW r \in Rows,
             Enqueue(i, t, r)
      PROVE  Promise!Next
  BY <1>1, EnqueueAccepts DEF Inv, Promise!Next
<1>2. ASSUME NEW i \in Instances, NEW s \in ExternalStates, ExternalWrite(i, s)
      PROVE  Promise!Next
  BY <1>2 DEF ExternalWrite, Work, Promise!Next, Promise!Move
<1>3. ASSUME NEW r \in Rows, Cleanup(r)
      PROVE  Promise!Next
  BY <1>3, CleanupForgets DEF Inv, Promise!Next
<1>4. CASE WorkerStep
  <2>1. ASSUME NEW r \in Rows, Ends(r, "done"), WriteTarget(r)
        PROVE  Promise!Done(r)
    <3>1. msg[r] \in Message
      BY <2>1, PendingIsMessage DEF Inv, Ends
    <3>2. field' = [field EXCEPT ![msg[r].inst] =
                      IF Target[msg[r].tr] = NoState THEN @ ELSE Target[msg[r].tr]]
      BY <2>1, <3>1 DEF Inv, TypeOK, WriteTarget, Message
    <3> QED  BY <2>1, <3>2, EndsWork DEF Inv, Completed, Promise!Done
  <2>2. ASSUME NEW r \in Rows, Ends(r, "failed"), WriteFailedState(r)
        PROVE  Promise!Failed(r)
    BY <2>2, EndsWork DEF Inv, Completed, WriteFailedState, Promise!Failed
  <2>3. ASSUME NEW r \in Rows, Ends(r, "superseded"), ~StateGuardMatches(r),
               UNCHANGED field
        PROVE  Promise!Superseded(r)
    BY <2>3, EndsWork DEF Inv, Completed, Promise!Superseded
  <2>4. ASSUME Stays, UNCHANGED field
        PROVE  UNCHANGED Promise!promiseVars
    BY <2>4, StaysStutters DEF Inv, Promise!promiseVars
  <2> QED
    BY <1>4, <2>1, <2>2, <2>3, <2>4 DEF WorkerStep, Promise!Next, Promise!Finish
<1> QED  BY <1>1, <1>2, <1>3, <1>4, StepKinds DEF Inv

(* Workers, retries, locks, deaths, safety nets and the sweep implement    *)
(* what a caller of a background transition was promised: accepted work    *)
(* ends at most once, in one step with its state write, and a superseded   *)
(* or failed row leaves no part of its target behind.                      *)
THEOREM PromiseIsSafe == Spec => Promise!Init /\ [][Promise!Next]_(Promise!promiseVars)
<1>1. Init => Promise!Init
  BY DEF Init, Work, Promise!Init
<1>2. Inv /\ [Next]_vars => [Promise!Next]_(Promise!promiseVars)
  BY PromiseStep
<1> QED  BY <1>1, <1>2, Invariant, PTL DEF Spec
=============================================================================
