------------------------------ MODULE StateLock ------------------------------
(***************************************************************************)
(* The gate in front of the state column of one model instance and one     *)
(* process: the cache lock, the persisted state re-read under it, and the  *)
(* uncompleted TransitionMessage row.                                      *)
(*                                                                         *)
(* Callers are web requests or tasks.  A caller drives a synchronous       *)
(* Transition, an Action or the enqueue of a BackgroundTransition, in      *)
(* autocommit or inside an open atomic block.  The database is read        *)
(* committed: a caller sees committed values, and a write to a row waits   *)
(* for the transaction that has already written it.  The worker is reduced *)
(* to what it does to the column; module TransitionMessage has its detail. *)
(***************************************************************************)
CONSTANTS
  Callers,
  Transitions,
  Kind,            \* Kind[t]: "sync", "action" or "background"
  States,
  Sources,         \* Sources[t]: the declared sources
  InProgress,      \* InProgress[t]: in_progress_state, or NoState
  Target,          \* Target[t]: target, or NoState for an action
  FailedState,     \* FailedState[t]: failed_state, or NoState
  InitialState,
  InAtomic,        \* what callers may drive inside an open atomic block
  DeferUnlock,     \* the DEFER_UNLOCK_UNTIL_COMMIT setting
  RunsOutliveLock, \* whether a run may take longer than LOCK_TIMEOUT
  NoState, NoTransition, NoCaller

ASSUME ConstantsAssumption ==
  /\ Kind \in [Transitions -> {"sync", "action", "background"}]
  /\ Sources \in [Transitions -> SUBSET States]
  /\ InProgress \in [Transitions -> States \cup {NoState}]
  /\ Target \in [Transitions -> States \cup {NoState}]
  /\ FailedState \in [Transitions -> States \cup {NoState}]
  /\ InitialState \in States
  /\ InAtomic \subseteq Transitions
  /\ DeferUnlock \in BOOLEAN /\ RunsOutliveLock \in BOOLEAN
  /\ NoState \notin States
  /\ NoTransition \notin Transitions
  /\ NoCaller \notin Callers

(***************************************************************************)
(* What Transition.__init__ lets a process declare: in_progress_state is   *)
(* background-only and is made a source, failed_state differs from it, and *)
(* a sync Transition has a target.                                         *)
(***************************************************************************)
Declarable(t) ==
  /\ InProgress[t] # NoState =>
       /\ Kind[t] = "background"
       /\ InProgress[t] \in Sources[t]
       /\ FailedState[t] # InProgress[t]
  /\ Kind[t] = "sync" => Target[t] # NoState

ASSUME TransitionAssumption == \A t \in Transitions : Declarable(t)

VARIABLES
  lock,     \* whose token is in the cache
  field,    \* the committed state
  row,      \* the transition of the committed uncompleted row
  attempt,  \* whether a worker runs an attempt of that row
  pc,       \* where each caller is
  op,       \* what each caller drives
  block,    \* whether each caller is inside an open atomic block
  wrote,    \* the uncommitted state write of each caller
  made      \* the uncommitted row of each caller

vars == <<lock, field, row, attempt, pc, op, block, wrote, made>>

(***************************************************************************)
(* locked and checked: between the lock and the gate.  inserted and        *)
(* rechecked: in _enqueue_atomic.  probing and failing: a failed Action    *)
(* under the lock.  release and delete: in unlock.  deferred and ended:    *)
(* the run is over and its atomic block still open.  gone: a request that  *)
(* ended without releasing the lock it took.                               *)
(***************************************************************************)
Places == {"idle", "locked", "checked", "running", "inserted", "rechecked",
           "acting", "probing", "failing", "release", "delete",
           "deferred", "ended", "gone"}

TypeOK ==
  /\ lock \in Callers \cup {NoCaller}
  /\ field \in States
  /\ row \in Transitions \cup {NoTransition}
  /\ attempt \in BOOLEAN
  /\ pc \in [Callers -> Places]
  /\ op \in [Callers -> Transitions \cup {NoTransition}]
  /\ \A c \in Callers : pc[c] # "idle" => op[c] \in Transitions
  /\ block \in [Callers -> BOOLEAN]
  /\ wrote \in [Callers -> States \cup {NoState}]
  /\ made \in [Callers -> Transitions \cup {NoTransition}]

Init ==
  /\ lock = NoCaller
  /\ field = InitialState
  /\ row = NoTransition
  /\ attempt = FALSE
  /\ pc = [c \in Callers |-> "idle"]
  /\ op = [c \in Callers |-> NoTransition]
  /\ block = [c \in Callers |-> FALSE]
  /\ wrote = [c \in Callers |-> NoState]
  /\ made = [c \in Callers |-> NoTransition]

-----------------------------------------------------------------------------
(* Helpers. *)

Go(c, place) == pc' = [pc EXCEPT ![c] = place]

(* What the body of a call leaves alone while it only moves on. *)
OnlyMoves == UNCHANGED <<lock, field, row, attempt, op, block, wrote, made>>

(* Mutant: the previous run's transition is kept. *)
BeginUnnamed(c, t) == UNCHANGED <<op, block>>

Begin(c, t) ==
  /\ op' = [op EXCEPT ![c] = t]
  /\ \E b \in BOOLEAN : /\ b => t \in InAtomic
                        /\ block' = [block EXCEPT ![c] = b]

(* Mutant: cache.set, which takes a key that is already there. *)
LockOverwritten == TRUE

(* cache.add: State.lock succeeds for one caller. *)
LockFree == lock = NoCaller

(* Another transaction has written the instance row and is still open. *)
ColumnFree(c) == \A d \in Callers : d # c => wrote[d] = NoState

(* Mutant: the write opens a transaction that nobody closes. *)
WriteLeftOpen(c, s) ==
  /\ ColumnFree(c)
  /\ wrote' = [wrote EXCEPT ![c] = s]
  /\ UNCHANGED field

(* set_state: the write commits at once, or with the caller's block. *)
Write(c, s) ==
  /\ ColumnFree(c)
  /\ IF block[c]
     THEN wrote' = [wrote EXCEPT ![c] = s] /\ UNCHANGED field
     ELSE field' = s /\ UNCHANGED wrote

(* Mutants: the release never waits for the commit, or always does. *)
ReleasedAtOnce(c, deferrable) == "release"
ReleasedLate(c, deferrable) ==
  IF DeferUnlock /\ block[c] THEN "deferred" ELSE "release"

(* _release_lock: only a write that landed in an open block is deferred. *)
Released(c, deferrable) ==
  IF deferrable /\ DeferUnlock /\ block[c] THEN "deferred" ELSE "release"

(* Out of the call: back to the caller's block, if one is open. *)
AfterRun(c) == IF block[c] THEN "ended" ELSE "idle"

(* Gone without an unlock: only LOCK_TIMEOUT frees a key that was left. *)
Left(c) == IF lock = c THEN "gone" ELSE "idle"

-----------------------------------------------------------------------------
(* Transition.change_state and BackgroundTransition.change_state. *)

(* A caller who finds the lock taken is rejected and changes nothing. *)
Acquire(c, t) ==
  /\ pc[c] = "idle"
  /\ Kind[t] # "action"
  /\ LockFree
  /\ lock' = c
  /\ Begin(c, t)
  /\ Go(c, "locked")
  /\ UNCHANGED <<field, row, attempt, wrote, made>>

(* Mutant: the state is only compared before the lock was taken. *)
CheckSourceSkipped(c) ==
  /\ pc[c] = "locked"
  /\ Go(c, "checked")
  /\ OnlyMoves

(* _ensure_db_state_in_sources reads the committed state under the lock. *)
CheckSource(c) ==
  /\ pc[c] = "locked"
  /\ Go(c, IF field \in Sources[op[c]] THEN "checked" ELSE "release")
  /\ OnlyMoves

(* _ensure_no_background_in_flight, a second query after the first. *)
CheckRow(c) ==
  /\ pc[c] = "checked"
  /\ Kind[op[c]] = "sync"
  /\ Go(c, IF row = NoTransition THEN "running" ELSE "release")
  /\ OnlyMoves

(* The INSERT waits for another open INSERT and fails on a committed row. *)
InsertRow(c) ==
  /\ pc[c] = "checked"
  /\ Kind[op[c]] = "background"
  /\ \A d \in Callers : made[d] = NoTransition
  /\ \/ /\ row = NoTransition
        /\ made' = [made EXCEPT ![c] = op[c]]
        /\ Go(c, "inserted")
     \/ /\ row # NoTransition
        /\ Go(c, "release")
        /\ UNCHANGED made
  /\ UNCHANGED <<lock, field, row, attempt, op, block, wrote>>

(* Mutant: the state is not read again after the INSERT. *)
RecheckNothing(c) ==
  /\ pc[c] = "inserted"
  /\ Go(c, "rechecked")
  /\ OnlyMoves

(* SourceStateChanged rolls the new row back. *)
Recheck(c) ==
  /\ pc[c] = "inserted"
  /\ \/ /\ field \in Sources[op[c]]
        /\ Go(c, "rechecked")
        /\ UNCHANGED made
     \/ /\ field \notin Sources[op[c]]
        /\ Go(c, "release")
        /\ made' = [made EXCEPT ![c] = NoTransition]
  /\ UNCHANGED <<lock, field, row, attempt, op, block, wrote>>

(***************************************************************************)
(* The in_progress_state write ends _enqueue_atomic.  In autocommit the    *)
(* row and the state commit together; inside the caller's block both stay  *)
(* uncommitted, and the lock is released all the same.                     *)
(***************************************************************************)
Mark(c) ==
  /\ pc[c] = "rechecked"
  /\ IF InProgress[op[c]] = NoState
     THEN UNCHANGED <<field, wrote>>
     ELSE Write(c, InProgress[op[c]])
  /\ IF block[c]
     THEN UNCHANGED <<row, made>>
     ELSE row' = op[c] /\ made' = [made EXCEPT ![c] = NoTransition]
  /\ Go(c, "release")
  /\ UNCHANGED <<lock, attempt, op, block>>

(* The database rejects in_progress_state: everything is rolled back. *)
MarkRejected(c) ==
  /\ pc[c] = "rechecked"
  /\ InProgress[op[c]] # NoState
  /\ made' = [made EXCEPT ![c] = NoTransition]
  /\ Go(c, "release")
  /\ UNCHANGED <<lock, field, row, attempt, op, block, wrote>>

(* complete_transition. *)
Complete(c) ==
  /\ pc[c] = "running"
  /\ Write(c, Target[op[c]])
  /\ Go(c, Released(c, TRUE))
  /\ UNCHANGED <<lock, row, attempt, op, block, made>>

(* complete_transition with a target the database rejects, or              *)
(* fail_transition without a failed_state that could be written.           *)
NothingWritten(c) ==
  /\ pc[c] \in {"running", "failing"}
  /\ Go(c, Released(c, FALSE))
  /\ OnlyMoves

(* fail_transition, of a Transition under its lock or of an Action that    *)
(* took the lock for it, writes failed_state.                              *)
WriteFailedState(c) ==
  /\ pc[c] \in {"running", "failing"}
  /\ FailedState[op[c]] # NoState
  /\ Write(c, FailedState[op[c]])
  /\ Go(c, Released(c, TRUE))
  /\ UNCHANGED <<lock, row, attempt, op, block, made>>

-----------------------------------------------------------------------------
(* Action. *)

(* The side-effects of an Action run without the lock. *)
Act(c, t) ==
  /\ pc[c] = "idle"
  /\ Kind[t] = "action"
  /\ Begin(c, t)
  /\ Go(c, "acting")
  /\ UNCHANGED <<lock, field, row, attempt, wrote, made>>

(* Success, a failure without failed_state, or a failure under a lock that *)
(* somebody else holds: nothing is written.                                *)
ActionEnds(c) ==
  /\ pc[c] = "acting"
  /\ Go(c, AfterRun(c))
  /\ OnlyMoves

ActionFails(c) ==
  /\ pc[c] = "acting"
  /\ FailedState[op[c]] # NoState
  /\ LockFree
  /\ lock' = c
  /\ Go(c, "probing")
  /\ UNCHANGED <<field, row, attempt, op, block, wrote, made>>

(* Mutant: the probe for an uncompleted row is left out. *)
ProbeNothing(c) ==
  /\ pc[c] = "probing"
  /\ Go(c, "failing")
  /\ OnlyMoves

(* An uncompleted row, or a probe that raised: the write is skipped. *)
Probe(c) ==
  /\ pc[c] = "probing"
  /\ \/ row = NoTransition /\ Go(c, "failing")
     \/ Go(c, "release")
  /\ OnlyMoves

-----------------------------------------------------------------------------
(* State.unlock. *)

CompareToken(c) ==
  /\ pc[c] = "release"
  /\ Go(c, IF lock = c THEN "delete" ELSE AfterRun(c))
  /\ OnlyMoves

DeleteKey(c) ==
  /\ pc[c] = "delete"
  /\ lock' = NoCaller
  /\ Go(c, AfterRun(c))
  /\ UNCHANGED <<field, row, attempt, op, block, wrote, made>>

-----------------------------------------------------------------------------
(* The caller's block, and the environment. *)

CloseBlock(c) ==
  /\ block' = [block EXCEPT ![c] = FALSE]
  /\ wrote' = [wrote EXCEPT ![c] = NoState]
  /\ made' = [made EXCEPT ![c] = NoTransition]

(* A deferred unlock runs from transaction.on_commit. *)
Commit(c) ==
  /\ pc[c] \in {"ended", "deferred"}
  /\ field' = IF wrote[c] = NoState THEN field ELSE wrote[c]
  /\ row' = IF made[c] = NoTransition THEN row ELSE made[c]
  /\ CloseBlock(c)
  /\ Go(c, IF pc[c] = "deferred" THEN "release" ELSE "idle")
  /\ UNCHANGED <<lock, attempt, op>>

(* A deferred unlock is dropped with the block. *)
Rollback(c) ==
  /\ pc[c] \in {"ended", "deferred"}
  /\ CloseBlock(c)
  /\ Go(c, Left(c))
  /\ UNCHANGED <<lock, field, row, attempt, op>>

(* The process of the caller dies: its block rolls back, its key stays. *)
Crash(c) ==
  /\ pc[c] \notin {"idle", "gone"}
  /\ CloseBlock(c)
  /\ Go(c, Left(c))
  /\ UNCHANGED <<lock, field, row, attempt, op>>

(* LOCK_TIMEOUT has passed since the key was set. *)
Expire(c) ==
  /\ lock = c
  /\ pc[c] = "gone" \/ RunsOutliveLock
  /\ lock' = NoCaller
  /\ pc' = IF pc[c] = "gone" THEN [pc EXCEPT ![c] = "idle"] ELSE pc
  /\ UNCHANGED <<field, row, attempt, op, block, wrote, made>>

-----------------------------------------------------------------------------
(* The worker. *)

(* _state_guard_matches. *)
StateGuardMatches ==
  IF InProgress[row] # NoState THEN field = InProgress[row]
                               ELSE field \in Sources[row]

BeginAttempt ==
  /\ row # NoTransition /\ ~attempt
  /\ StateGuardMatches
  /\ attempt' = TRUE
  /\ UNCHANGED <<lock, field, row, pc, op, block, wrote, made>>

(* Superseded, or ended by a safety net without a state write. *)
EndRow ==
  /\ row # NoTransition /\ ~attempt
  /\ row' = NoTransition
  /\ UNCHANGED <<lock, field, attempt, pc, op, block, wrote, made>>

(* The attempt rolls back and will be retried. *)
RetryAttempt ==
  /\ attempt
  /\ attempt' = FALSE
  /\ UNCHANGED <<lock, field, row, pc, op, block, wrote, made>>

(* The row completes together with its target or failed_state, if any. *)
EndAttempt ==
  /\ attempt
  /\ attempt' = FALSE
  /\ row' = NoTransition
  /\ \/ /\ \A c \in Callers : wrote[c] = NoState
        /\ field' \in {Target[row], FailedState[row]} \ {NoState}
     \/ UNCHANGED field
  /\ UNCHANGED <<lock, pc, op, block, wrote, made>>

-----------------------------------------------------------------------------
CallStep(c) ==
  \/ CheckSource(c) \/ CheckRow(c)
  \/ InsertRow(c) \/ Recheck(c) \/ Mark(c) \/ MarkRejected(c)
  \/ Complete(c) \/ NothingWritten(c) \/ WriteFailedState(c)
  \/ ActionEnds(c) \/ ActionFails(c) \/ Probe(c)
  \/ CompareToken(c) \/ DeleteKey(c)

Next ==
  \/ \E c \in Callers, t \in Transitions : Acquire(c, t) \/ Act(c, t)
  \/ \E c \in Callers :
       CallStep(c) \/ Commit(c) \/ Rollback(c) \/ Crash(c) \/ Expire(c)
  \/ BeginAttempt \/ EndRow \/ RetryAttempt \/ EndAttempt

Spec == Init /\ [][Next]_vars

(* A run waits in the database, under its key, for an open block: for one  *)
(* that wrote the instance row, or for one that inserted a row.            *)
Waiting(c) ==
  \/ pc[c] \in {"rechecked", "running", "failing"} /\ ~ColumnFree(c)
  \/ /\ pc[c] = "checked" /\ Kind[op[c]] = "background"
     /\ \E d \in Callers : made[d] # NoTransition

(***************************************************************************)
(* Side-effects and queries return, except one that waits for a block: it  *)
(* waits as long as that block is open, and nothing refuses it meanwhile.  *)
(* A caller closes the block it opened, and a key whose owner is gone      *)
(* expires.  Nothing is assumed of workers.                                *)
(***************************************************************************)
Fairness ==
  \A c \in Callers :
    /\ WF_vars(~Waiting(c) /\ CallStep(c))
    /\ WF_vars(Commit(c) \/ Rollback(c))
    /\ WF_vars(Expire(c))

FairSpec == Spec /\ Fairness

-----------------------------------------------------------------------------
(* Properties. *)

Running(c) == pc[c] = "running"

(* README.md:1124, two requests that race on the same instance cannot both *)
(* win: while a synchronous run is past the gate, no other run, enqueue,   *)
(* failed Action or worker has a claim on the instance, committed or not.  *)
OneRacerWins ==
  \A c \in Callers : Running(c) =>
    /\ row = NoTransition
    /\ \A d \in Callers \ {c} :
         ~Running(d) /\ wrote[d] = NoState /\ made[d] = NoTransition

(* The revalidation under the lock closes the window between resolving a   *)
(* transition and locking the state (transition.py:236): from the gate to  *)
(* its own write, a synchronous run stays on one of its source states.     *)
RunKeepsSource ==
  \A c \in Callers : Running(c) => field \in Sources[op[c]]

(* A key in the cache belongs to a run that still needs it, or to a        *)
(* request that is gone; a release waits for the commit only when a state  *)
(* write does, so that a rollback of nothing locks nobody out.             *)
LockIsAccountedFor ==
  \A c \in Callers :
    /\ lock = c => pc[c] \notin {"idle", "acting", "ended"}
    /\ pc[c] = "deferred" => wrote[c] # NoState

(* What DEFER_UNLOCK_UNTIL_COMMIT is worth to those who hold the key: the  *)
(* write of a block is kept under the key of its caller, so that no other  *)
(* run and no worker ever comes to wait for that block, and no circle of   *)
(* waits on key, instance row and unique constraint can begin.             *)
NobodyWaits ==
  /\ \A c \in Callers : ~Waiting(c)
  /\ attempt => \A c \in Callers : wrote[c] = NoState

(* The worker owns the state field until the row completes: neither a      *)
(* synchronous run, nor the failed_state of an Action, nor another enqueue *)
(* changes the column while an uncompleted row is committed.               *)
RowOwnsField ==
  [][row # NoTransition /\ field' # field => row' = NoTransition]_vars

(* The recheck after the INSERT: however long the INSERT waited for the    *)
(* row before it, a row is only ever committed for an instance that stands *)
(* on one of the sources of its transition.                                *)
EnqueueFromSource ==
  [][row' \notin {row, NoTransition} => field \in Sources[row']]_vars

(* All of it together: lock, blocks, two gates and the enqueue implement a *)
(* column that one actor at a time moves, each from where it may; the      *)
(* writes and rows of a block count when they commit.                      *)
Column == INSTANCE OwnedColumn WITH owner <- row, ExternalStates <- {}

ColumnIsOwned == Column!Spec

(* No path leaks the lock: through rejections, failures, refused writes,   *)
(* deferred releases and crashes, a key that is set is released, or        *)
(* expires because the request that set it is gone.                        *)
LockIsReleased == \A c \in Callers : lock = c ~> lock # c
=============================================================================
