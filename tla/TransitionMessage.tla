-------------------------- MODULE TransitionMessage --------------------------
(***************************************************************************)
(* The durable row behind a background transition, and the pull workers    *)
(* that run it.                                                            *)
(*                                                                         *)
(* One committed TransitionMessage row is one accepted background          *)
(* transition.  Several dl_worker processes claim rows from the database,  *)
(* run an attempt in a forked child under the row lock, and run the safety *)
(* nets between attempts.  A step of this module is one committed          *)
(* statement or transaction, or one thing the environment does.            *)
(*                                                                         *)
(* Time is abstracted to what the code compares: whether the retry wait    *)
(* since the last error is over (waiting), whether the current attempt has *)
(* outrun its declared budget (clock), and whether the newest error is not *)
(* older than the newest attempt (charged).                                *)
(***************************************************************************)
EXTENDS Integers, FiniteSets

CONSTANTS
  Workers,         \* the dl_worker processes
  Instances,       \* pairs of a model instance and a process bound to it
  Transitions,     \* the BackgroundTransitions and BackgroundActions
  States,          \* the values of the state column
  Sources,         \* Sources[t]: the declared sources of t
  InProgress,      \* InProgress[t]: in_progress_state, or NoState
  Target,          \* Target[t]: target, or NoState for a BackgroundAction
  FailedState,     \* FailedState[t]: failed_state, or NoState
  Timed,           \* the transitions that declare timeout=
  Queue,           \* Queue[t]: the queue the rows of t carry
  Serves,          \* Serves[w]: the queues worker w was started with
  ExternalStates,  \* what operators and other writers may put in the column
  InitialState,    \* the state of a new instance
  NoState, NoWorker, NoRow,
  MaxErrors,       \* the MAX_ERRORS setting
  MaxRows,         \* bound: how many rows a behaviour may create
  MaxKills         \* bound: how many times a whole worker may be killed

ASSUME ConstantsAssumption ==
  /\ IsFiniteSet(Workers)
  /\ MaxErrors \in Nat \ {0}
  /\ MaxRows \in Nat
  /\ MaxKills \in Nat
  /\ InitialState \in States
  /\ ExternalStates \subseteq States
  /\ Timed \subseteq Transitions
  /\ NoState \notin States \cup Transitions
  /\ NoWorker \notin Workers
  /\ NoRow \notin Nat

(* Transition.__init__ makes the in-progress state a source and refuses a *)
(* failed state equal to it.                                              *)
Declarable(t) ==
  /\ InProgress[t] # NoState => InProgress[t] \in Sources[t]
  /\ FailedState[t] # NoState => FailedState[t] # InProgress[t]

(* BackgroundAction.__init__ takes no target and no in-progress state. *)
ActionDeclarable(t) == Target[t] = NoState => InProgress[t] = NoState

ASSUME TransitionAssumption ==
  /\ Sources \in [Transitions -> SUBSET States]
  /\ InProgress \in [Transitions -> States \cup {NoState}]
  /\ Target \in [Transitions -> States \cup {NoState}]
  /\ FailedState \in [Transitions -> States \cup {NoState}]
  /\ \A t \in Transitions : Declarable(t) /\ ActionDeclarable(t)

(* Row ids in the order of creation: created and pk agree. *)
Rows == 1..MaxRows

VARIABLES
  msg,      \* the rows
  field,    \* the persisted state of each instance
  holder,   \* who holds the lock of each row
  pc,       \* where each worker is
  task,     \* the row each worker is busy with
  outcome,  \* what the atomic block of the current attempt committed
  hooks,    \* which hooks have run for each row
  kills     \* how many times a worker was killed

vars == <<msg, field, holder, pc, task, outcome, hooks, kills>>

(* is_completed, and ended_in_failure for "failed". *)
Completed == {"done", "failed", "superseded"}

Message ==
  [ status  : {"pending", "deleted"} \cup Completed,
    inst    : Instances,
    tr      : Transitions,
    errors  : Nat,
    waiting : BOOLEAN,
    clock   : {"unstarted", "fresh", "overdue"},
    charged : BOOLEAN ]

(* A row id no INSERT has used yet. *)
NoMessage == [status |-> "absent"]

(***************************************************************************)
(* The child process runs claimed .. exit; cut is an attempt whose side-   *)
(* effects go on after its connection, its transaction and its row lock    *)
(* are gone; dead is the parent after waitpid returned a non-zero status.  *)
(* The safety nets in the worker loop scan (watch, stuck), finalize a row  *)
(* they hold (watchwrite, stuckwrite) and run its callbacks (nethooks).    *)
(***************************************************************************)
ChildSteps ==
  {"claimed", "stamped", "running", "cut", "unrestorable", "hooks", "exit"}
NetSteps == {"watch", "watchwrite", "stuck", "stuckwrite", "nethooks"}
Places == {"idle", "dead"} \cup ChildSteps \cup NetSteps

(* The places in an open transaction that holds the lock of the row. *)
Locking == {"running", "watchwrite", "stuckwrite"}

TypeOK ==
  /\ msg \in [Rows -> Message \cup {NoMessage}]
  /\ field \in [Instances -> States]
  /\ holder \in [Rows -> Workers \cup {NoWorker}]
  /\ pc \in [Workers -> Places]
  /\ task \in [Workers -> Rows \cup {NoRow}]
  /\ \A w \in Workers : pc[w] # "idle" => task[w] \in Rows
  /\ outcome \in [Workers -> {"none", "retry", "success", "failure"}]
  /\ hooks \in [Rows -> {"none", "success", "failure"}]
  /\ kills \in Nat

Pending(r) == msg[r].status = "pending"

(* Mutant: no SELECT ... FOR UPDATE, so that a held row looks free. *)
LockIgnored(r) == TRUE

(* SELECT ... FOR UPDATE would find nobody holding r. *)
Free(r) == holder[r] = NoWorker

(* The partial unique constraint dl_bg_one_uncompleted_per_process. *)
HasUncompletedRow(i) == \E r \in Rows : Pending(r) /\ msg[r].inst = i

NewMessage(i, t) ==
  [ status |-> "pending", inst |-> i, tr |-> t, errors |-> 0,
    waiting |-> FALSE, clock |-> "unstarted", charged |-> FALSE ]

Init ==
  /\ msg = [r \in Rows |-> NoMessage]
  /\ field = [i \in Instances |-> InitialState]
  /\ holder = [r \in Rows |-> NoWorker]
  /\ pc = [w \in Workers |-> "idle"]
  /\ task = [w \in Workers |-> NoRow]
  /\ outcome = [w \in Workers |-> "none"]
  /\ hooks = [r \in Rows |-> "none"]
  /\ kills = 0

-----------------------------------------------------------------------------
(* Helpers. *)

Go(w, place) == pc' = [pc EXCEPT ![w] = place]

(* Mutant: the row is forgotten before the step is over. *)
ForgetTask(w) ==
  /\ task' = [task EXCEPT ![w] = NoRow]
  /\ UNCHANGED <<pc, outcome>>

(* The worker is back in its loop. *)
Return(w) ==
  /\ Go(w, "idle")
  /\ task' = [task EXCEPT ![w] = NoRow]
  /\ outcome' = [outcome EXCEPT ![w] = "none"]

Put(r, m) == msg' = [msg EXCEPT ![r] = m]

(* The transaction that locked r is over. *)
Unlock(r) == holder' = [holder EXCEPT ![r] = NoWorker]

(* The connection of w is gone, and every lock it held with it. *)
DropLocks(w) ==
  holder' = [r \in Rows |-> IF holder[r] = w THEN NoWorker ELSE holder[r]]

(* record_error, and the conditional UPDATE of _record_child_death. *)
Charge(m) == [m EXCEPT !.errors = @ + 1, !.waiting = TRUE, !.charged = TRUE]

(* Mutant: is_completed is missing from the update_fields of the save. *)
EndNotSaved(m, status) == m

(* mark_as_completed and mark_as_superseded. *)
End(m, status) == [m EXCEPT !.status = status]

(* _state_guard_matches: does the column hold what enqueue left behind? *)
StateGuardMatches(r) ==
  LET t == msg[r].tr
      current == field[msg[r].inst]
  IN  IF InProgress[t] # NoState THEN current = InProgress[t]
                                 ELSE current \in Sources[t]

(* Mutant: the row is completed and the target is never written. *)
NoTargetWrite(r) == UNCHANGED field

(* The target write of an attempt; a BackgroundAction writes nothing. *)
WriteTarget(r) ==
  field' = IF Target[msg[r].tr] = NoState
           THEN field
           ELSE [field EXCEPT ![msg[r].inst] = Target[msg[r].tr]]

(* The failed_state write: a database that rejects it blocks nothing. *)
WriteFailedState(r) ==
  \/ UNCHANGED field
  \/ /\ FailedState[msg[r].tr] # NoState
     /\ field' = [field EXCEPT ![msg[r].inst] = FailedState[msg[r].tr]]

(* Mutant: no errors_count < MAX_ERRORS in the visibility rule. *)
ClaimableForEver(w, r) ==
  /\ Pending(r) /\ ~msg[r].waiting
  /\ Queue[msg[r].tr] \in Serves[w]

(* _claimable: the one place the visibility rule is written. *)
Claimable(w, r) ==
  /\ Pending(r)
  /\ Queue[msg[r].tr] \in Serves[w]
  /\ msg[r].errors < MaxErrors
  /\ ~msg[r].waiting

-----------------------------------------------------------------------------
(* The callers. *)

(***************************************************************************)
(* BackgroundTransition.change_state commits the row and the in-progress   *)
(* state together.  The unique constraint admits one uncompleted row for   *)
(* an instance and the recheck after the INSERT admits it from a source    *)
(* state.                                                                  *)
(***************************************************************************)
Enqueue(i, t, r) ==
  /\ msg[r] = NoMessage
  /\ \A q \in Rows : q < r => msg[q] # NoMessage
  /\ ~HasUncompletedRow(i)
  /\ field[i] \in Sources[t]
  /\ Put(r, NewMessage(i, t))
  /\ field' = IF InProgress[t] = NoState
              THEN field
              ELSE [field EXCEPT ![i] = InProgress[t]]
  /\ UNCHANGED <<holder, pc, task, outcome, hooks, kills>>

(* An operator or another writer sets the state column by hand. *)
ExternalWrite(i, s) ==
  /\ s # field[i]
  /\ field' = [field EXCEPT ![i] = s]
  /\ UNCHANGED <<msg, holder, pc, task, outcome, hooks, kills>>

-----------------------------------------------------------------------------
(* One attempt. *)

(***************************************************************************)
(* claim_next takes the oldest visible row of the worker's queues that     *)
(* nobody holds.  Its lock is released when its short transaction ends;    *)
(* the attempt locks the row again later.                                  *)
(***************************************************************************)
Claim(w) ==
  /\ pc[w] = "idle"
  /\ \E r \in Rows :
       /\ Claimable(w, r) /\ Free(r)
       /\ \A q \in Rows : q < r => ~(Claimable(w, q) /\ Free(q))
       /\ task' = [task EXCEPT ![w] = r]
  /\ Go(w, "claimed")
  /\ UNCHANGED <<msg, field, holder, outcome, hooks, kills>>

(***************************************************************************)
(* stamp_attempt_started commits on its own; a held, completed or deleted  *)
(* row makes the child exit silently.                                      *)
(***************************************************************************)
Stamp(w) ==
  LET r == task[w] IN
  /\ pc[w] = "claimed"
  /\ \/ /\ Pending(r) /\ Free(r)
        /\ Put(r, [msg[r] EXCEPT !.clock = "fresh", !.charged = FALSE])
        /\ Go(w, "stamped")
     \/ /\ ~(Pending(r) /\ Free(r))
        /\ Go(w, "exit")
        /\ UNCHANGED msg
  /\ UNCHANGED <<field, holder, task, outcome, hooks, kills>>

(* _lock_uncompleted_row found the row held, completed or gone. *)
SkipAttempt(w) ==
  /\ pc[w] = "stamped"
  /\ ~(Pending(task[w]) /\ Free(task[w]))
  /\ Go(w, "exit")
  /\ UNCHANGED <<msg, field, holder, task, outcome, hooks, kills>>

(* The row is locked, restored and its instance is where enqueue left it. *)
BeginAttempt(w) ==
  /\ pc[w] = "stamped"
  /\ Pending(task[w]) /\ Free(task[w])
  /\ StateGuardMatches(task[w])
  /\ holder' = [holder EXCEPT ![task[w]] = w]
  /\ Go(w, "running")
  /\ UNCHANGED <<msg, field, task, outcome, hooks, kills>>

(* The state guard found the instance moved: that other change wins. *)
Supersede(w) ==
  /\ pc[w] = "stamped"
  /\ Pending(task[w]) /\ Free(task[w])
  /\ ~StateGuardMatches(task[w])
  /\ Put(task[w], End(msg[task[w]], "superseded"))
  /\ Go(w, "exit")
  /\ UNCHANGED <<field, holder, task, outcome, hooks, kills>>

(* The restore failed in a way no retry can help; the block rolls back. *)
CannotRestore(w) ==
  /\ pc[w] = "stamped"
  /\ Pending(task[w]) /\ Free(task[w])
  /\ Go(w, "unrestorable")
  /\ UNCHANGED <<msg, field, holder, task, outcome, hooks, kills>>

(***************************************************************************)
(* _mark_unrestorable_completed, a statement of its own after the rollback *)
(* released the lock.  The UPDATE waits for whoever holds the row by then. *)
(***************************************************************************)
MarkUnrestorable(w) ==
  LET r == task[w] IN
  /\ pc[w] = "unrestorable"
  /\ Free(r)
  /\ msg' = IF Pending(r) THEN [msg EXCEPT ![r] = End(@, "failed")] ELSE msg
  /\ Go(w, "exit")
  /\ UNCHANGED <<field, holder, task, outcome, hooks, kills>>

(* _handle_restore_failure: counted like any failure, but nothing to fail. *)
RestoreFails(w) ==
  LET r == task[w]
      m == Charge(msg[r])
  IN
  /\ pc[w] = "stamped"
  /\ Pending(r) /\ Free(r)
  /\ Put(r, IF m.errors < MaxErrors THEN m ELSE End(m, "failed"))
  /\ outcome' = [outcome EXCEPT
                   ![w] = IF m.errors < MaxErrors THEN "retry" ELSE "none"]
  /\ Go(w, "exit")
  /\ UNCHANGED <<field, holder, task, hooks, kills>>

(* The side-effects and the target write succeed and commit with the row. *)
AttemptSucceeds(w) ==
  LET r == task[w] IN
  /\ pc[w] = "running"
  /\ WriteTarget(r)
  /\ Put(r, End(msg[r], "done"))
  /\ Unlock(r)
  /\ outcome' = [outcome EXCEPT ![w] = "success"]
  /\ Go(w, "hooks")
  /\ UNCHANGED <<task, hooks, kills>>

(* Mutant: failed_state is written although retries are left. *)
AttemptFailsMarked(w) ==
  LET r == task[w] IN
  /\ pc[w] = "running"
  /\ msg[r].errors + 1 < MaxErrors
  /\ WriteFailedState(r)
  /\ Put(r, Charge(msg[r]))
  /\ Unlock(r)
  /\ outcome' = [outcome EXCEPT ![w] = "retry"]
  /\ Go(w, "exit")
  /\ UNCHANGED <<task, hooks, kills>>

(* A failed attempt with retries left rolls back and leaves one error. *)
AttemptFails(w) ==
  LET r == task[w] IN
  /\ pc[w] = "running"
  /\ msg[r].errors + 1 < MaxErrors
  /\ Put(r, Charge(msg[r]))
  /\ Unlock(r)
  /\ outcome' = [outcome EXCEPT ![w] = "retry"]
  /\ Go(w, "exit")
  /\ UNCHANGED <<field, task, hooks, kills>>

(***************************************************************************)
(* The last allowed failure, or one declared permanent at any count: the   *)
(* row ends in failure whether or not failed_state can be written.         *)
(***************************************************************************)
AttemptFailsForGood(w) ==
  LET r == task[w] IN
  /\ pc[w] = "running"
  /\ WriteFailedState(r)
  /\ Put(r, End(Charge(msg[r]), "failed"))
  /\ Unlock(r)
  /\ outcome' = [outcome EXCEPT ![w] = "failure"]
  /\ Go(w, "hooks")
  /\ UNCHANGED <<task, hooks, kills>>

(* Callbacks, next_transition or failure callbacks, after the commit. *)
RunHooks(w) ==
  /\ pc[w] = "hooks"
  /\ hooks' = [hooks EXCEPT ![task[w]] = outcome[w]]
  /\ Go(w, "exit")
  /\ UNCHANGED <<msg, field, holder, task, outcome, kills>>

ChildExits(w) ==
  /\ pc[w] = "exit"
  /\ Return(w)
  /\ UNCHANGED <<msg, field, holder, hooks, kills>>

(***************************************************************************)
(* The database drops the connection of a slow attempt: the transaction is *)
(* rolled back and the row is free, and the side-effects go on unaware.    *)
(***************************************************************************)
LoseConnection(w) ==
  /\ pc[w] = "running"
  /\ DropLocks(w)
  /\ Go(w, "cut")
  /\ UNCHANGED <<msg, field, task, outcome, hooks, kills>>

(***************************************************************************)
(* Django opens no new connection inside an atomic block: the next query,  *)
(* at the latest the accounting of the attempt, raises, so does every      *)
(* query that would record the failure, and the child exits with status 1. *)
(***************************************************************************)
CutAttemptRaises(w) ==
  /\ pc[w] = "cut"
  /\ Go(w, "dead")
  /\ UNCHANGED <<msg, field, holder, task, outcome, hooks, kills>>

(* The child is killed, or raises for a lost connection at any other step. *)
ChildDies(w) ==
  /\ pc[w] \in ChildSteps
  /\ DropLocks(w)
  /\ Go(w, "dead")
  /\ UNCHANGED <<msg, field, task, outcome, hooks, kills>>

(* Mutant: the UPDATE without is_completed = FALSE. *)
RecordDeathOnAnyRow(w) ==
  /\ pc[w] = "dead"
  /\ Free(task[w])
  /\ msg' = [msg EXCEPT ![task[w]] = Charge(@)]
  /\ Return(w)
  /\ UNCHANGED <<field, holder, hooks, kills>>

(* _record_child_death by the parent: one UPDATE, which waits for a holder. *)
RecordDeath(w) ==
  LET r == task[w] IN
  /\ pc[w] = "dead"
  /\ Free(r)
  /\ msg' = IF Pending(r) THEN [msg EXCEPT ![r] = Charge(@)] ELSE msg
  /\ Return(w)
  /\ UNCHANGED <<field, holder, hooks, kills>>

(***************************************************************************)
(* Parent and child are killed together and nobody is left to record it.   *)
(* A safety net that raises ends the same way: its transaction rolls back  *)
(* and the loop goes on.  After its parent alone is killed, a child is a   *)
(* worker of its own whose death nobody records.                           *)
(***************************************************************************)
WorkerDies(w) ==
  /\ kills < MaxKills
  /\ pc[w] # "idle"
  /\ kills' = kills + 1
  /\ DropLocks(w)
  /\ Return(w)
  /\ UNCHANGED <<msg, field, hooks>>

-----------------------------------------------------------------------------
(* The safety nets, run by a worker between attempts. *)

(* The scan of watchdog_stale_attempts: it locks nothing. *)
WatchdogScan(w, r) ==
  /\ pc[w] = "idle"
  /\ Pending(r) /\ msg[r].clock = "overdue"
  /\ task' = [task EXCEPT ![w] = r]
  /\ Go(w, "watch")
  /\ UNCHANGED <<msg, field, holder, outcome, hooks, kills>>

(* Mutants: a re-check that forgets one of its conditions. *)
AbandonableWhenCompleted(r) == Free(r) /\ msg[r].clock = "overdue" /\ ~msg[r].charged
AbandonableWhenCharged(r) == Pending(r) /\ Free(r) /\ msg[r].clock = "overdue"

(* abandon_timed_out_attempt decides again, on the row it has locked. *)
Abandonable(r) ==
  /\ Pending(r) /\ Free(r)
  /\ msg[r].clock = "overdue"
  /\ ~msg[r].charged

(* Mutant: the state guard is left out of the safety nets. *)
FinalizeUnguarded(w, m, place) ==
  /\ holder' = [holder EXCEPT ![task[w]] = w]
  /\ Go(w, place)
  /\ UNCHANGED <<msg, task, outcome>>

(***************************************************************************)
(* The first half of _finalize_terminal_from_watchdog, on the locked row   *)
(* whose record is m.  An instance that was moved supersedes the row, and  *)
(* a row that cannot be restored ends with no state write and no           *)
(* callbacks.  Otherwise the net goes on to the write and keeps the lock;  *)
(* the guard locks the row of the instance no more than an attempt does.   *)
(***************************************************************************)
FinalizeTerminal(w, m, place) ==
  LET r == task[w] IN
  \/ /\ StateGuardMatches(r)
     /\ holder' = [holder EXCEPT ![r] = w]
     /\ Go(w, place)
     /\ UNCHANGED <<msg, task, outcome>>
  \/ /\ ~StateGuardMatches(r)
     /\ Put(r, End(m, "superseded"))
     /\ Return(w)
     /\ UNCHANGED holder
  \/ /\ Put(r, End(m, "failed"))
     /\ Return(w)
     /\ UNCHANGED holder

(* Its second half: the failed_state write and the end of the row commit. *)
FinalizeWrite(w, m) ==
  LET r == task[w] IN
  /\ WriteFailedState(r)
  /\ Put(r, End(m, "failed"))
  /\ Unlock(r)
  /\ Go(w, "nethooks")
  /\ UNCHANGED <<task, outcome, hooks, kills>>

(* abandon_timed_out_attempt; the charge of a last error commits with it. *)
Abandon(w) ==
  LET r == task[w]
      m == Charge(msg[r])
  IN
  /\ pc[w] = "watch"
  /\ \/ /\ Abandonable(r)
        /\ m.errors >= MaxErrors
        /\ FinalizeTerminal(w, m, "watchwrite")
     \/ /\ Abandonable(r)
        /\ m.errors < MaxErrors
        /\ Put(r, m)
        /\ Return(w)
        /\ UNCHANGED holder
     \/ /\ ~Abandonable(r)
        /\ Return(w)
        /\ UNCHANGED <<msg, holder>>
  /\ UNCHANGED <<field, hooks, kills>>

AbandonWrite(w) ==
  /\ pc[w] = "watchwrite"
  /\ FinalizeWrite(w, Charge(msg[task[w]]))

(* Mutant: the limit is off by one. *)
StuckScanPastLimit(w, r) ==
  /\ pc[w] = "idle"
  /\ Pending(r) /\ msg[r].errors > MaxErrors
  /\ task' = [task EXCEPT ![w] = r]
  /\ Go(w, "stuck")
  /\ UNCHANGED <<msg, field, holder, outcome, hooks, kills>>

(* The scan of detect_stuck_transitions for rows past MAX_ERRORS. *)
StuckScan(w, r) ==
  /\ pc[w] = "idle"
  /\ Pending(r) /\ msg[r].errors >= MaxErrors
  /\ task' = [task EXCEPT ![w] = r]
  /\ Go(w, "stuck")
  /\ UNCHANGED <<msg, field, holder, outcome, hooks, kills>>

(* finalize_stuck_attempt. *)
FinalizeStuck(w) ==
  LET r == task[w] IN
  /\ pc[w] = "stuck"
  /\ \/ /\ Pending(r) /\ Free(r)
        /\ FinalizeTerminal(w, msg[r], "stuckwrite")
     \/ /\ ~(Pending(r) /\ Free(r))
        /\ Return(w)
        /\ UNCHANGED <<msg, holder>>
  /\ UNCHANGED <<field, hooks, kills>>

FinalizeStuckWrite(w) ==
  /\ pc[w] = "stuckwrite"
  /\ FinalizeWrite(w, msg[task[w]])

(* The failure callbacks of a row a safety net finalized. *)
RunNetHooks(w) ==
  /\ pc[w] = "nethooks"
  /\ hooks' = [hooks EXCEPT ![task[w]] = "failure"]
  /\ Return(w)
  /\ UNCHANGED <<msg, field, holder, kills>>

(***************************************************************************)
(* cleanup_completed_transitions with a cutoff just after r, on the rows   *)
(* of r's instance: the newest failure row stays as the explanation.       *)
(***************************************************************************)
NewestFailed(q) ==
  /\ msg[q].status = "failed"
  /\ \A p \in Rows : p > q =>
       ~(msg[p].status = "failed" /\ msg[p].inst = msg[q].inst)

(* Mutant: every completed row before the cutoff goes. *)
SweptWithFailures(q, r) ==
  /\ q <= r
  /\ msg[q].status \in Completed
  /\ msg[q].inst = msg[r].inst

Swept(q, r) ==
  /\ q <= r
  /\ msg[q].status \in Completed
  /\ msg[q].inst = msg[r].inst
  /\ ~NewestFailed(q)

Cleanup(r) ==
  /\ msg[r].status \in Completed
  /\ \E q \in Rows : Swept(q, r)
  /\ msg' = [q \in Rows |-> IF Swept(q, r) THEN End(msg[q], "deleted") ELSE msg[q]]
  /\ UNCHANGED <<field, holder, pc, task, outcome, hooks, kills>>

-----------------------------------------------------------------------------
(* Time. *)

(* RETRY_MINUTES have passed since the last error of r. *)
RetryWaitElapses(r) ==
  /\ Pending(r) /\ msg[r].waiting
  /\ Put(r, [msg[r] EXCEPT !.waiting = FALSE])
  /\ UNCHANGED <<field, holder, pc, task, outcome, hooks, kills>>

(* timeout_seconds have passed since the newest attempt of r started. *)
AttemptOverruns(r) ==
  /\ Pending(r) /\ msg[r].clock = "fresh"
  /\ msg[r].tr \in Timed
  /\ Put(r, [msg[r] EXCEPT !.clock = "overdue"])
  /\ UNCHANGED <<field, holder, pc, task, outcome, hooks, kills>>

-----------------------------------------------------------------------------
ChildStep(w) ==
  \/ Stamp(w) \/ SkipAttempt(w)
  \/ BeginAttempt(w) \/ Supersede(w) \/ CannotRestore(w) \/ RestoreFails(w)
  \/ MarkUnrestorable(w)
  \/ AttemptSucceeds(w) \/ AttemptFails(w) \/ AttemptFailsForGood(w)
  \/ CutAttemptRaises(w) \/ RunHooks(w) \/ ChildExits(w)

NetStep(w) ==
  \/ Abandon(w) \/ AbandonWrite(w)
  \/ FinalizeStuck(w) \/ FinalizeStuckWrite(w)
  \/ RunNetHooks(w)

Next ==
  \/ \E i \in Instances, t \in Transitions, r \in Rows : Enqueue(i, t, r)
  \/ \E i \in Instances, s \in ExternalStates : ExternalWrite(i, s)
  \/ \E w \in Workers :
       \/ Claim(w) \/ ChildStep(w) \/ LoseConnection(w) \/ ChildDies(w)
       \/ RecordDeath(w) \/ WorkerDies(w) \/ NetStep(w)
  \/ \E w \in Workers, r \in Rows : WatchdogScan(w, r) \/ StuckScan(w, r)
  \/ \E r \in Rows : Cleanup(r) \/ RetryWaitElapses(r) \/ AttemptOverruns(r)

Spec == Init /\ [][Next]_vars

(***************************************************************************)
(* Fairness.  Side-effects and hooks return, a parent reaps its child, and *)
(* RETRY_MINUTES pass.  The loop of run_worker asks for a row and runs the *)
(* due nets again and again, so neither is passed over for ever: strong    *)
(* fairness, since a worker in the middle of one cannot start the other.   *)
(* Nothing is assumed of callers, lost connections, deaths, kills,         *)
(* timeouts or the sweep.                                                  *)
(***************************************************************************)
Fairness ==
  /\ \A w \in Workers :
       /\ WF_vars(ChildStep(w))
       /\ WF_vars(RecordDeath(w))
       /\ WF_vars(NetStep(w))
       /\ SF_vars(Claim(w))
       /\ SF_vars(\E r \in Rows : StuckScan(w, r))
  /\ \A r \in Rows : WF_vars(RetryWaitElapses(r))

FairSpec == Spec /\ Fairness

(* The same loop when a side-effect may hang for ever with its connection. *)
HangFairness ==
  /\ \A w \in Workers :
       /\ WF_vars(pc[w] # "running" /\ ChildStep(w))
       /\ WF_vars(RecordDeath(w))
       /\ WF_vars(NetStep(w))
       /\ SF_vars(Claim(w))
       /\ SF_vars(\E r \in Rows : StuckScan(w, r))
       /\ SF_vars(\E r \in Rows : WatchdogScan(w, r))
  /\ \A r \in Rows : WF_vars(RetryWaitElapses(r))

HangSpec == Spec /\ HangFairness

-----------------------------------------------------------------------------
(* Safety. *)

(* The row lock of _run_atomic and of the safety nets: who holds the lock  *)
(* of a row is in the open transaction that alone can still commit an end  *)
(* or an error for it, and the row is uncompleted until that transaction   *)
(* is over.  An attempt that lost its connection runs on without the lock, *)
(* beside the next attempt of its row, and can commit nothing.             *)
RowLockGuardsAttempt ==
  \A w \in Workers, r \in Rows :
    /\ holder[r] = w <=> pc[w] \in Locking /\ task[w] = r
    /\ holder[r] = w => Pending(r)

(* MAX_ERRORS against crash loops: every worker that already claimed a row *)
(* may still charge it once after the row reached its limit, but no more.  *)
ErrorsBounded ==
  \A r \in Rows :
    msg[r] # NoMessage => msg[r].errors < MaxErrors + Cardinality(Workers)

(* Hooks run after the commit they report, for the outcome that was        *)
(* committed, and no two workers or safety nets ever owe or run the hooks  *)
(* of the same row.  A superseded row runs none.                           *)
OwesHooks(w, r) == pc[w] \in {"hooks", "nethooks"} /\ task[w] = r

HooksRunOnce ==
  \A r \in Rows :
    /\ hooks[r] = "success" => msg[r].status \in {"done", "deleted"}
    /\ hooks[r] = "failure" => msg[r].status \in {"failed", "deleted"}
    /\ \A w \in Workers : OwesHooks(w, r) =>
         /\ hooks[r] = "none"
         /\ \A v \in Workers : OwesHooks(v, r) => v = w

(* What the cleanup sweep and the failure paths promise an operator: while *)
(* nothing else writes the column, an instance that sits in an in-progress *)
(* or failed state has a row that is still at work on it, or a failure row *)
(* that explains it and that no sweep deletes.                             *)
Parked(i) ==
  \E t \in Transitions : field[i] \in {InProgress[t], FailedState[t]}

ParkedIsExplained ==
  \A i \in Instances : Parked(i) =>
    \E r \in Rows : /\ msg[r].status \in {"pending", "failed"}
                    /\ msg[r].inst = i

(* The state guard has no false alarms: while nothing else writes the      *)
(* column, an uncompleted row always finds its instance where enqueue left *)
(* it, over any number of failed attempts, crashes and safety-net runs.    *)
PendingRowOwnsState ==
  \A r \in Rows : Pending(r) => StateGuardMatches(r)

(***************************************************************************)
(* Action properties.                                                      *)
(***************************************************************************)

(* The guards on is_completed: a completed row is never reopened, never    *)
(* ends a second time and never takes a late error from a dead child, a    *)
(* watchdog or an unrestorable attempt; a sweep may only delete it.        *)
CompletedIsFinal ==
  [][\A r \in Rows : msg[r].status \in Completed \cup {"deleted"} =>
       /\ msg'[r].status \in {msg[r].status, "deleted"}
       /\ msg'[r].errors = msg[r].errors]_vars

(* The re-check of abandon_timed_out_attempt under the row lock: however   *)
(* stale the scan, and up to the commit of a last failed_state write, a    *)
(* timeout error is charged only to an attempt that outran its budget,     *)
(* left no error and can commit nothing any more.  It may still run its    *)
(* side-effects: the watchdog cannot tell a crashed attempt from a slow    *)
(* one that lost its connection.                                           *)
WatchdogChargesAbandonedOnly ==
  [][\A w \in Workers :
       LET r == task[w] IN
       pc[w] \in {"watch", "watchwrite"} /\ pc'[w] # pc[w] /\ msg'[r] # msg[r] =>
         /\ \A v \in Workers \ {w} : ~(pc[v] \in Locking /\ task[v] = r)
         /\ msg[r].clock = "overdue" /\ ~msg[r].charged]_vars

(* The state guard: a fix made while neither an attempt nor a finalization *)
(* holds the row of an instance is final for that row.  None of them       *)
(* starts on the moved instance, and whatever is done to the row leaves    *)
(* the column alone.  A fix made later, between the guard and the write of *)
(* an attempt or of a safety net, is not protected.                        *)
FixBeforeAttemptWins ==
  [][\A r \in Rows :
       Pending(r) /\ Free(r) /\ ~StateGuardMatches(r) =>
         /\ holder'[r] = NoWorker
         /\ msg'[r] # msg[r] => UNCHANGED field]_vars

-----------------------------------------------------------------------------
(* Liveness and refinement. *)

(* Retries, the death record and the stuck finalizer together: an accepted *)
(* row is always brought to an end, through failures, child deaths and a   *)
(* bounded number of worker kills.                                         *)
EveryRowCompletes == \A r \in Rows : Pending(r) ~> ~Pending(r)

(* What is left of a row without its errors, clocks, locks and hooks. *)
Work ==
  [r \in Rows |->
     IF msg[r] = NoMessage THEN NoMessage
     ELSE [status |-> msg[r].status, inst |-> msg[r].inst, tr |-> msg[r].tr]]

Promise == INSTANCE DurableWork WITH NoWork <- NoMessage, work <- Work

(* The workers, retries, locks and safety nets implement the promise that  *)
(* accepted work ends exactly once, together with its state write.         *)
KeepsPromise == Promise!Spec

(* The transition of the uncompleted row of an instance. *)
Owner(i) ==
  IF HasUncompletedRow(i)
  THEN msg[CHOOSE r \in Rows : Pending(r) /\ msg[r].inst = i].tr
  ELSE NoState

Column(i) ==
  INSTANCE OwnedColumn WITH
    Kind <- [t \in Transitions |-> "background"], NoTransition <- NoState,
    owner <- Owner(i), field <- field[i]

(* To each instance, all the workers and safety nets together look like    *)
(* the one short worker that the gate in StateLock reckons with: whatever  *)
(* they do to its rows, its column has one owner from enqueue to end.      *)
WorkersOwnColumn ==
  /\ \A i \in Instances : Column(i)!Init
  /\ [][\A i \in Instances : [Column(i)!Next]_(Column(i)!columnVars)]_vars

-----------------------------------------------------------------------------
(* Statements of the documentation that the code does not keep.            *)

(* runner.py:17-20 and README.md:1200: on a mismatch the side-effects or   *)
(* the failed_state write are skipped, so a manual fix is never            *)
(* overwritten.  The guard reads the column once, when the attempt or the  *)
(* finalization starts; a fix made between that and the write is lost.     *)
ManualFixNeverOverwritten ==
  [][\A r \in Rows :
       Pending(r) /\ ~StateGuardMatches(r) /\ msg'[r] # msg[r]
         => UNCHANGED field]_vars

(* README.md:1215: an attempt that hangs while keeping its connection is   *)
(* the watchdog's job.  The watchdog passes over every row a worker holds. *)
HungAttemptIsAbandoned ==
  \A r \in Rows :
    Pending(r) /\ msg[r].clock = "overdue" /\ ~msg[r].charged
      ~> ~Pending(r) \/ msg[r].charged \/ msg[r].clock = "fresh"
=============================================================================
