# A verification project for django-logic

django-logic moves the state of Django model instances through declared
transitions. Synchronous transitions run in the request; background transitions
are durable rows that worker processes claim from the database. This directory
holds TLA+ models of the parts where processes, transactions, caches and crashes
meet, TLC configurations that check them on small instances, and TLAPS proofs of
their main properties for all instances.

Paths such as `runner.py` are short for `src/django_logic/background/runner.py`
(also `pull.py`, `safety_nets.py`, `models.py`, `transitions.py`,
`serializers.py`) and `src/django_logic/transition.py` (also `state.py`,
`process.py`, `commands.py`). `PROJECT.json` maps every definition to its lines.

## 1. The system

| Component | State it keeps | Operations | Talks to |
|---|---|---|---|
| State and cache lock (`state.py`) | a key with a token and a TTL per instance and process; the state column | `lock` (`cache.add`), `unlock` (compare, then delete), `set_state`, `get_persisted_state` | cache, database |
| Transition, Action (`transition.py`) | nothing of its own; the token is on the `State` object | `change_state`, the gate under the lock, `complete_transition`, `fail_transition`, `_release_lock` | State, rows, hooks |
| Command bundles (`commands.py`) | the registry of deferred unlocks on the connection | side-effects, callbacks, next_transition; savepoints around hooks | `transaction.on_commit` |
| TransitionMessage rows (`models.py`) | one row per accepted background transition: errors, times, outcome | `record_error`, `mark_as_completed`, `stamp_attempt_started`, `retry_status`; one uncompleted row per instance and process | workers, gate |
| Background enqueue (`transitions.py`) | - | lock, check, INSERT, recheck, in-progress write, unlock | rows, State |
| Serializer (`serializers.py`) | the JSON column of a row | `serialize_kwargs`, `deserialize_kwargs`, `restore_user` | enqueue, attempt |
| Worker attempt (`runner.py`) | the row lock of the attempt | restore, state guard, side-effects, outcome, hooks; `abandon_timed_out_attempt`, `finalize_stuck_attempt` | rows, column |
| Pull workers (`pull.py`) | a forked child per attempt; a listening connection | `claim_next`, run in a child, `_record_child_death`, the loop, `_wait_for_work` | rows, safety nets |
| Safety nets (`safety_nets.py`) | - | visibility rule, watchdog, stuck detection, cleanup sweep | rows, runner |
| Process tree and dispatch (`process.py`) | class trees, bound processes | walk, resolve an action name, record owner and class; restore them later | everything above |
| Dispatcher (`dispatch.py`) | - | NOTIFY after the commit, `in_flight`; sync mode | rows, workers |
| Settings and checks (`conf.py`, `settings.py`, `checks.py`) | read once at boot | validation | the constants of the models |
| Logging, observability, migrations, testing package | - | - | not modelled (section 7) |

**What is hard here.** A claim gives up its lock before the attempt takes it
again. A scan of a safety net locks nothing. A child can die before or after its
commit, alone or with its parent, or go on without its connection and its lock.
A guard reads the column and a later statement writes it. Hooks run after the
commit. The gate makes two
queries that are not one. The cache lock, the row lock, the unique constraint and
open transactions are four kinds of exclusion with four lifetimes. A callback
that rolls back takes on_commit entries with it, and so does an entry that raises. A row waits across deployments
and changes of data and still has to find its transition and its arguments. A
notification gets lost, and the poll, the retry wait, the budget of an attempt,
the nets and the caller's own clock each have a period of their own.
`PROJECT.json` ("hazards") lists these at their lines, with the properties that
watch them.

**What makes each part correct.** Gate: one run at a time has a claim on an
instance, it starts from a source state, nobody waits for a block under a key,
and the key is always released. Rows: whoever can still commit something for a row
holds its lock; a row is completed once, charged a bounded number of
times, and its hooks run at most once for the outcome that was committed. State
column: one actor at a time owns it, from the gate to the last retry, and a manual
fix survives if it comes before the state guard. Safety nets: they charge and end
only what can commit nothing any more, and
never delete the explanation of a parked instance. Liveness: every accepted row
ends. Clock: an idle worker asks within a known gap, and a caller is told "stranded" only of a
row that nobody retries. Registry: an unlock is never early and never lost through
a hook. Lookup: the worker runs the transition the call chose, or none. Serializer:
the hooks of a worker get what the hooks of the call would have got, or somebody
was warned, or the loss is on a short list of silent ones.

## 2. The modules

| Module | Models | Uses |
|---|---|---|
| `TransitionMessage` | rows, enqueue as one step, workers, attempts, deaths, safety nets, operators | `DurableWork`, `OwnedColumn` (INSTANCE) |
| `DurableWork` | abstract: what a background transition promises, with no workers, locks or retries | |
| `OwnedColumn` | abstract: what everybody may assume of the state column of one instance | |
| `StateLock` | the cache lock, the gate, the enqueue step by step, actions, open blocks; the worker reduced to its effect on the column | `OwnedColumn` (INSTANCE) |
| `DeferredUnlocks` | the registry of deferred unlocks over nested atomic blocks | |
| `ActionLookup` | name resolution at the call and at restore, over versions of the code | |
| `PullClock` | the worker loop, lost wake-ups, restarts, the nets' period and `retry_status`, on one clock | |
| `KwargsWire` | the arguments of a call through the JSON column to the hooks of an attempt | `TreeRecursion` (INSTANCE) |
| `TreeRecursion` | functions that call themselves for the parts of a tree, and the theorem that they satisfy their own equation | |
| `MC...` | instances for TLC | one per module with runs |
| `...Proofs` | theorems (section 5) | |

### TransitionMessage

A step is one committed statement or transaction, or one thing the environment
does. `msg[r]` is the row: `status` stands for `is_completed`, `superseded` and
`ended_in_failure`; `errors` for `errors_count`; times are abstracted to the
comparisons the code makes: `waiting` (newer than RETRY_MINUTES), `clock` (the
attempt has outrun its budget) and `charged` (the newest error is not older than
the newest attempt). `holder` is the row lock, `pc`/`task`/`outcome` the worker,
its child and what the atomic block committed. Actions: `Enqueue`; `Claim`,
`Stamp`, `BeginAttempt`, `SkipAttempt`, `Supersede`, `CannotRestore`,
`MarkUnrestorable`, `RestoreFails`, `AttemptSucceeds`, `AttemptFails`,
`AttemptFailsForGood`, `RunHooks`, `ChildExits` for the attempt;
`LoseConnection`, `CutAttemptRaises`, `ChildDies`, `RecordDeath`, `WorkerDies` for
lost connections and deaths; `WatchdogScan`, `Abandon`, `AbandonWrite`,
`StuckScan`, `FinalizeStuck`, `FinalizeStuckWrite`, `RunNetHooks`, `Cleanup` for the
nets; `RetryWaitElapses`, `AttemptOverruns`, `ExternalWrite` for time and operators.

An attempt that loses its connection (runner.py:196-206, models.py:380-384) is at
`cut`: its transaction is rolled back, its row lock is gone and another worker or
the watchdog may have the row, while its side-effects go on. It can commit nothing:
Django opens no new connection inside an atomic block, so its next query raises, and
so does the accounting of that failure; the child exits with status 1 and the parent
records a death. (runner.py:201-204 says that its later `mark_as_completed` may
complete the row.) So "holds the row lock" and "can still commit for the row" are
the same thing, and "holds the row lock" and "still runs" are not;
`RowLockGuardsAttempt` and `WatchdogChargesAbandonedOnly` say the first.

The safety nets finalize in two steps, because `_finalize_terminal_from_watchdog`
reads the column (runner.py:416) and writes `failed_state` (446-450) in two
statements under read committed, with a lock on the row and none on the instance. A
fix committed between the two is overwritten, like one made during the side-effects
of an attempt. `FixBeforeAttemptWins` is about fixes made while nobody holds the
row, and `MC_ManualFix` shows what happens to the others.

### StateLock

`pc[c]` is where a caller is between `lock` and `unlock`; `block`, `wrote` and
`made` are its open atomic block with the state write and the row that are not
committed yet. The database is read committed. A caller that dies leaves its key
(`gone`) until the TTL. `InAtomic`, `DeferUnlock`, `RunsOutliveLock` say what the
project does: drive transitions inside its own blocks, set
`DEFER_UNLOCK_UNTIL_COMMIT`, have runs longer than LOCK_TIMEOUT. `Declarable`, here
and in `TransitionMessage`, is what the constructors accept. `Waiting` is a caller
whose write or INSERT the database does not answer while the block of another
caller is open.

### The two abstract specifications

`DurableWork`: work is accepted once, ends once as done, failed or superseded, and
the state column changes in the step that ends it. `TransitionMessage` maps a row
to its status, instance and transition and forgets errors, clocks, locks and hooks
(`KeepsPromise`).

`OwnedColumn` ties the two detailed models together. `StateLock` has every step of
a caller and a worker of four steps; `TransitionMessage` has every step of a worker
and an enqueue of one step, and no synchronous runs. Each needs that the other side
behaves like its short stand-in. `OwnedColumn` says what that means for the column
of one instance: nobody owns it and foreground runs move it from their sources, or
one background transition owns it from its acceptance to its end and no foreground
run moves it. `StateLock` implements it with `owner <- row` (`ColumnIsOwned`), and
`TransitionMessage` implements it once per instance with `owner` the transition of
the uncompleted row (`WorkersOwnColumn`). Writes inside an open block count when
they commit.

### DeferredUnlocks

`onCommit` is Django's `run_on_commit`, `registry` is `_dl_deferred_unlocks`, and
each open block remembers the length of both when it was opened. Hooks (callbacks
and follow-ups) and the project's own atomic blocks differ in what a rollback does.
The entries are registered without `robust=True` (transition.py:393,
commands.py:69), so `Commit(n)` runs only the first `n` of them when one raises: an
unlock that does not reach the cache, or an entry of the project. A release of
`_release_dropped` that fails is contained and misses its own lock only. `lost` is
what nobody will release any more.

### ActionLookup

`Reached` is the set of classes a walk visits; a call's walk (`Walked`) stops at
classes that are not valid, the worker's (`Tree`) does not. `row` holds what the
database row holds (name, owner, class) and, as history, the transition that was
chosen, the version of the code and whether a follow-up enqueued it. `code` is the
version each side runs, so deployments can fall between a call and its attempt.

### PullClock

One row, a clock that ticks only while every worker sleeps, runs an attempt or is
down, and the times the code stores: `started_at`, `last_error_dt`, `modified`,
`errors_count`, `timeout_seconds`. `loop[w]` is where a worker is in `run_worker`
(`ask`, `claimed`, `attempt`, `dead`, `nets`, `listen`, `sleep`, or `cut` and
`down` after a lost connection or a kill), `until` when its wait or its pass of the
nets ends, `netsAt` its `last_safety_net`. A pass of the nets takes up to `NetRun`,
because the nets run the project's failure callbacks in the loop: the watchdog scans
first (`StartNets`), comes to the row some time later (`RunNets`) and the pass ends
later still (`EndNets`). A NOTIFY reaches any subset of the listeners. Callers ask
`RetryStatus` by the clock of their own host and, inside a transaction, keep the
row lock that their probe took (`ProbeInBlock`). `asked` and `freed` are history.

### KwargsWire

A Python value is a tree of kinds, scalar texts and labelled children; a key that
is no string is a label of its own. A tree carries the kinds and the dict keys that
occur anywhere in it, so the scans of `serialize_kwargs` are set intersections, and
the texts of its datetimes and times. `IsoText` is what `isoformat()` keeps of such a
text: the offset of a `ZoneInfo` but not the zone, and nothing of `fold`
(serializers.py:18-21). `RoundTrip` therefore promises the value up to string keys
and `IsoText`, and `LossIsKnown` lists the losses nobody is warned of (`Silent`).
`Reserved` and `Rejected` are `serialize_kwargs` with its warnings and refusals,
`Encode` the tagging, `JsonObject` what JSON does to the keys of a dict (`Survivor`
when two keys become one), `Decode` what a worker of some version makes of the
column, `Restored` the user and the context. Users may be deleted and workers of
two versions may attempt the same row in any order.

`encode_value` and `decode_value` call themselves for the parts of a value.
`Encoded` and `Decoded` are their bodies, given the results for the parts, and
`Encode` and `Decode` are the functions that instances of `TreeRecursion` build from
them; `Textual` (a value as JSON could keep it) and `Reading!Fold` (the readings an
older worker may give) are the reference definitions, built the same way. The
assumptions say what a value is (built from its parts in finitely many levels; only
hashable things in sets), what JSON does to keys, that the engine's own names are
plain strings, and that every deployed version knows the escape of dicts.

## 3. The runs

| Run | Instance | What it shows |
|---|---|---|
| `MC_Rows` | 2 workers, 2 instances, 2 rows, MAX_ERRORS 2, 1 kill | who can commit for a row holds its lock, errors bounded, hooks at most once, completed rows final, sound watchdog, no false alarms of the state guard, parked instances explained; each instance implements `OwnedColumn` |
| `MC_Promise` | 2 fair workers, 1 row, a marking transition, an unmarked one and an action, an operator who writes `draft` or `approved`, from which the last two are enqueued | the workers implement `DurableWork`; every row ends; a fix made while nobody holds the row survives |
| `MC_Gate` | 3 callers, two synchronous transitions, an action, a background export | one winner of a race, sources hold until the write, keys accounted for, the worker owns the field, rows start from sources, nobody waits for the block of another, all of it implements `OwnedColumn`; every key is released or expires |
| `MC_Deferred` | 2 instances, 3 levels of blocks, 4 runs | no unlock is early; a lock is left only by what loses it; the registry is drained by every commit that gets to its second entry |
| `MC_Lookup` | 5 classes, 5 transitions, 4 versions, conditions that flip | the worker restores what was chosen, refuses, or takes the only namesake |
| `MC_Clock` | a worker that serves the row and may be killed, one that only runs the nets, a caller | an idle worker has asked within the gap of the code, which is longer than the documented one; a quiet long attempt is not called stranded, nor is a row that somebody retries; the watchdog acts before the gate gives up |
| `MC_Kwargs` | every value up to three levels over a few scalars and keys, times with a zone or a fold up to two, alone and next to reserved keywords; two versions of workers | nothing the column rejects reaches it, values come back as JSON and `isoformat()` keep them, other losses were warned about or are listed, an older worker never misreads |

Each property of these runs has a mutant in `PROJECT.json`: a slip in the code
that makes TLC report that property.

Five runs end in a counterexample. Each states what a document or comment says:

| Run | Statement | What happens |
|---|---|---|
| `MC_ManualFix` | runner.py:17-20, a manual fix is never overwritten | the guard reads the column once; a fix made while side-effects run is overwritten by the target. The nets have the same window between runner.py:416 and 446-450, where README.md:1200 says that a watchdog never overwrites a fix |
| `MC_Hang` | README.md:1215, an attempt that hangs with its connection is the watchdog's job | the watchdog gives up on every row whose lock is held |
| `MC_GateOrder` | transition.py:246-247, the query under the lock closes the window | state is read before the row; a worker that completes a transition without `in_progress_state` in between is seen by neither |
| `MC_EnqueueInBlock` | README.md:1124, two racing requests cannot both win | an enqueue inside an open block releases the key before its row is committed, also with deferred unlocks |
| `MC_FollowUp` | process.py:392-395, the worker restores the exact transition | a follow-up keeps the `process_class` of the call before it but is resolved on the bound process; the worker searches another tree and runs a namesake |

Smaller observations, visible in the models or met while writing them, have no run:

- A worker that claimed a row before another worker's failure runs the next attempt
  without the retry wait (pull.py:13-15 promises the wait; nothing re-checks it
  under the row lock).
- A child killed after its failure was committed is charged a second time by its
  parent (pull.py:119-120 says such a child left no error).
- `unlock` compares and deletes in two calls to the cache, so a run that outlives
  LOCK_TIMEOUT can delete a later run's key, which README.md:1169 rules out and the
  docstring at state.py:99-102 admits. All checks of the gate assume
  `RunsOutliveLock = FALSE`.
- README.md:1208 and pull.py:46-47 promise an ask every POLL_SECONDS. psycopg 3
  (pyproject.toml:60) has connections without `poll()`, which `_wait_for_work` calls
  after its select: the exception leads to the fallback, so an idle worker asks every
  2 x POLL_SECONDS and a wake-up is followed by a sleep (`PollGap`, `DriverPolls`).
  With any driver the wait begins after the nets and the callbacks they ran, so the
  gap between two asks grows by that pass. `AskedInTime` is what is left: it dates
  the wait from the last ask or the last pass of the nets, allows `PollGap`, and
  gives a worker whose connection broke two polls to leave.
- runner.py:201-204 lets an attempt that dropped its lock complete the row later; with
  Django's connections inside an atomic block it cannot (`CutAttemptRaises`).
- A lock can outlive a transaction that committed: an on_commit entry that raises
  drops the unlocks behind it, which README.md:1177 describes for rollbacks only
  (`NoLockLeftBehind`, with `lost`).
- serializers.py:5-7 says that a side-effect receives the same types whether its
  transition is synchronous or background; lines 18-21 of the same docstring name
  the zone and the fold of a time as exceptions, about which nobody is warned.
- The probe of `worker_holds_row` inside the caller's own transaction keeps the row
  lock until that transaction ends, although its docstring (models.py:185-187) says
  it keeps none; a second caller then takes the first for a worker.
- An attempt that was killed quietly after more than the window reads "stranded"
  until the next claim (`freed` in `ServedIsRetried`).
- The serializer drops a user without a primary key without a word, turns
  namedtuples and enums into their base types, and wraps all keyword arguments when
  one of them is called `__dl_type__`, after which runner.py:975 finds no
  `process_class` in the stored dict.
- Number settings have a minimum and no maximum (`AcceptedSettings`); a huge
  MAX_ERRORS overflows a `timedelta` at safety_nets.py:131-139 in a worker that
  booted.

## 4. Bounds, and why they are enough; fairness

*TransitionMessage.* Two workers give every race on one row: claim against claim,
attempt against net, parent against child. Two rows of one instance give an
enqueue after a completion, a late worker on an old row, and the sweep beside
new work; two rows of two instances give a step that touches the wrong column.
MAX_ERRORS 2 has a first failure, a last one and a charge past the limit. One kill
strikes at every step. `MaxRows` and `MaxKills` only bound the environment.
Deadlock is not checked there: when all rows are used and completed the model may
stop. Workers and instances are interchangeable in `MC_Rows`, which checks no
liveness, so it uses their symmetry.

*StateLock.* Three callers let a third arrive at an instance that two others left
in any combination of places, one with a key, one in an open block and one on its way
to either. There is one instance and one run per block, so that a circle of waits has
to go through this key, this row and this constraint; circles over the keys of
several instances, driven in one block in different orders, are not modelled.
Enqueues are kept out of open blocks (`AllButExport`), because with them the
exclusion fails (`MC_EnqueueInBlock`).

*DeferredUnlocks.* Three levels nest a hook in a block in a hook; four runs put an
entry before, inside and after a window, with one left over from a rollback.
*ActionLookup.* One row and one follow-up per side at a time; the trees have a
diamond, a rename, a removal and a cycle, and three transitions share a name.

*PullClock.* One row, because every comparison is about one row. The numbers keep
the order of the shipped ones (POLL_SECONDS 5, SAFETY_NET_SECONDS 60, slack 5
minutes, floor 15 minutes) at the edge of `TimingAssumption`: Poll 1 without
`poll()` (gap 2), NetRun 1, NetPeriod 2, RetryWait 1, MaxErrors 2, Slack 5 and Floor
6. The shipped numbers leave 3:50 for one pass of the nets with its callbacks and for
the difference of the clocks; callbacks that take longer break the assumption, and
with it the promise of the slack. Time is not bounded; `ClockView` shows TLC ages
instead of dates, each cut off beyond the largest span any guard or property
compares it with (`Cap` = 10 where a budget of 3 plus the slack is the largest), so
the state space is finite and no behaviour is cut. The caller's clock is the
workers' there (`McAhead`); only the proofs cover a difference. There is one caller,
so that nobody takes a caller that holds the row for a worker.

*KwargsWire.* Three levels put every tag inside every container inside every
container, and a dict that looks like a tagged value at each of them; `Encode` and
`Decode` look at one level at a time. `IsoText` takes a zoned noon to a noon with an
offset and a folded time to one without; the times sit at most one container deep,
because what happens to a scalar does not depend on where it sits. The older version
misses one scalar and one container tag.

Fairness of `TransitionMessage` (`FairSpec`): side-effects and hooks return, a
parent reaps its child, RETRY_MINUTES pass (weak fairness); the loop of
`run_worker` claims and runs its nets again and again, so `Claim` and `StuckScan`
are strongly fair (a worker in the middle of one cannot start the other, so weak
fairness would assume nothing). Callers, lost connections, deaths, kills, timeouts
and the sweep have none. `HangSpec` is the same loop without the assumption that side-effects
return. Fairness of `StateLock`: a call that does not wait
for somebody's block takes its next step (`WF_vars(~Waiting(c) /\ CallStep(c))`), a
caller closes the block it opened, and the key of a dead caller expires. A call that
waits is promised nothing, not even a rejection, so `LockIsReleased` fails if such a
wait never ends. Workers have none. `PullClock` needs
none: what a fair loop would do in time is a safety property of the clock.

## 5. The proofs

All theorems hold for every value of the constants that satisfies the `ASSUME`s
in the modules: what `Transition.__init__`, the class validator and the boot-time
checks accept.

| Theorem | Statement |
|---|---|
| `TransitionMessageProofs`: `TypeCorrect`, `RowLock`, `HooksOnce`, `CompletedFinal` | the invariants of `MC_Rows` by these names, from `Invariant` |
| `TransitionStateProofs`: `FixWins`, `WatchdogSound` | action properties, from the same invariant |
| `TransitionStateProofs`: `WorkersShareColumn` | `WorkersOwnColumn`: the rows implement `OwnedColumn` per instance, with any outside writers |
| `TransitionStateProofs`: `NoFalseAlarm`, `ParkedHasRow` | under `ExternalStates = {}` (and, for the second, initial and target states that no transition parks in) |
| `TransitionStateProofs`: `PromiseIsSafe` | the initial states and steps of `DurableWork` are implemented |
| `TransitionMessageProofs`: `CrashLoopsEnd` | `ErrorsBounded`, for any finite number of workers |
| `StateLockProofs`: `TypeCorrect`, `LockAccounted` | the gate, for any callers, with runs that outlive their keys and enqueues in open blocks |
| `StateLockProofs`: `OneWinner`, `NoWaits` | under `Exclusive`: no run outlives its key, writes in open blocks defer their unlock, no enqueue in an open block |
| `StateLockProofs`: `WorkerOwnsField` | under `Owning`: as `Exclusive`, but without deferred unlocks if every background transition has an in-progress state |
| `StateLockProofs`: `EnqueueAdmits` | under `Admitting`: as `Exclusive`, but enqueues in open blocks are fine if they mark their instance |
| `StateLockProofs`: `SourceKept`, `GateOwnsColumn` | under `Exclusive` and `Marked`: every background transition has an in-progress state, and it is a source of no synchronous transition. The code enforces neither half; the second theorem is the refinement to `OwnedColumn` |
| `DeferredUnlocksProofs`: `TypeCorrect`, `WritesStayLocked`, `LeftLocksWereLost`, `RegistryIsDrained` | the registry, for any nesting of blocks, number of runs and commits cut short, from `Invariant`; the last for commits whose first two entries run |
| `ActionLookupProofs`: `TypeCorrect`, `NoWrongSibling`, `CallRunsWanted` | the lookup, for all trees, conditions and deployments |
| `ActionLookupProofs`: `FollowUpsRunWanted` | `RestoresWhatWasEnqueued`, the statement `MC_FollowUp` refutes, under `OneTree`: the bound class lies in the tree of every class a call can enter through |
| `PullClockProofs`: `TypeCorrect`, `PollFloor`, `SlowIsNotLost`, `StrandedIsUnserved`, `SlackCoversNets` | the clock, from `Invariant`, for all periods, clock differences and run times of the nets that satisfy `TimingAssumption` |
| `KwargsWireProofs`: `NothingUnstorableReaches`, `HooksGetWhatWasPassed`, `LossesAreKnown`, `NoVersionMisreads` | the properties of `MC_Kwargs`, for values of any depth and width, any keys, any `IsoText` and any mix of versions, from `KwargsInvariant` |
| `KwargsWireProofs`: `StoredFormIsUnique` | values that are stored alike have the same `Textual` form; they are equal if their keys are strings and their times have no zone or fold |
| `TreeRecursion`: `Folds` | the equation of every recursive function above |

*Why the invariants are what they are.* Two uncompleted rows of one instance are
ruled out by the unique constraint that `Enqueue` quotes; the proofs need it as a part
of `Inv` and do not list it as a result. `HooksRunOnce` is not inductive: a worker
at its hooks must be the only one that owes them, on a completed row; the
invariant says who owes which hooks and that nobody owes them twice. "The state
guard has no false alarms" needs that a row and its column move together, which is
proved step by step through `WorkerStep`, the four things any worker or net may do
to a row; `PromiseIsSafe`, `FixWins` and `WorkersShareColumn` reuse that
classification. The explanation of a parked instance needs that the newest failure
row of an instance survives the sweep, hence an order on rows.

*The error count.* A row at MAX_ERRORS is claimed no more, but workers that already
have it may each charge it once. `Chargers(r)` is the set of workers that still
can, and `ErrorsInHand` bounds errors plus the size of that set by a budget: a
claim adds a worker while the row is below its limit, and a charge takes one out.
The argument is by finite-set cardinalities, hence the finite `Workers`.

*The gate.* `GateInv` ties the key to the places that hold it, uncommitted writes
to a held key, and an open INSERT to the absence of another row; `SourceInv` adds
that a pending row keeps the column where no synchronous run starts, and that what
a run read stays true until its write commits. For the refinement `WriteInv` says
what a deferred write may contain. The hypotheses are not conveniences:
`MC_EnqueueInBlock` and `MC_GateOrder` are what happens without two of their parts,
a run that outlives its key simply has no exclusion, and TLC finds a
counterexample to `OneRacerWins`, `RunKeepsSource` or `ColumnIsOwned` for every part
that is dropped. `Marked` needs its second half as well: a run that
starts from the in-progress state of a transition reads that state before it asks for
the row, as in `MC_GateOrder`. What needs less is proved from less. Where the key comes from, who
may delete it and who is gone (`LockAccounted`) needs nothing. A row starts from its
source (`AdmitInv`) as long as the write that marks the instance, or the key, lasts
until the commit. A worker owns the column (`OwnInv`) as long as either a deferred
unlock or an in-progress state keeps the next run out.

*The registry.* Four parts carry `UncommittedWriteIsLocked`: tokens are never
reused (`Tokens`), the entry that empties the registry is second in
`run_on_commit` and no block opened between the first entry and it
(`ClearQueuedSecond`), inner blocks opened later (`Nested`), and the window of a
block holds exactly what was queued since it opened (`Windows`).

*The lookup.* The chosen transition is history, and the invariant ties it to the
three names the row records; that a call's walk stays within the worker's
(`WalkedInTree`) follows because a set closed under all nesting is closed under the
nesting of valid classes. A follow-up is resolved under the bound class and
enqueued with the class of the call before it. `PathInv` says which classes that can
be: one a call enters through or a bound one, of the version that enqueues. If the
bound class is below each of them, trees are transitive (`TreeTransitive`) and the
worker finds the owner. Projects with one process class per `process_name` satisfy
`OneTree`; `MC_FollowUp` has two.

*The serializer.* `KwargsInv` says that the row is the stored form of an accepted
call with its warnings, and that what the hooks saw is what became of that row. The
rest is about recursive functions on values. The library's induction theorems take
an operator and cannot be instantiated, but `TreeRecursion` takes the set of trees,
their parts and the step as constants. A recursive function is a CHOOSE, of which
nothing is known until its equation is shown to have a solution; solutions on sets
closed under parts agree and can be joined, and a smallest tree outside of all of
them could be added to one, so there is a solution on all trees (`Folds`). Claims about all values
are then proved by a smallest counterexample, a value that breaks the claim while
its parts keep it (`SmallestValue`): that storing makes only storable trees
(`StoredIsStorable`), that a current worker reads back the textual value
(`CurrentReadsBack`), that an older one reads or shows every part
(`EveryVersionReads`), and that string keys lose nothing (`StringKeysKeepAll`).
`StoredFormIsUnique` follows: whatever tags a caller's dict imitates, it is not
stored as the value it imitates.

*Nobody waits.* A caller that writes or inserts holds the key, and a block that is
still open holds the key of its own caller for each of its writes, so under
`Exclusive` the two cannot be different callers; a worker that runs has a row, which
the recheck after the INSERT and the gate keep away from open writes.

*The clock.* The invariant dates every wait, every ask and every pass of the nets
(a wait ends within Poll, or 2 Poll, of the ask or the pass of the nets before it,
and a pass within NetRun of its scan), and relates the times
on the row to those dates: if a row reads "stranded" while a serving worker sleeps,
the worker's ask is younger than the window, so it would have claimed the row had
the lock been free.

## 6. Only model-checked

Liveness (`EveryRowCompletes`, `LockIsReleased`, the liveness of `KeepsPromise`):
fairness and ENABLED are beyond the prover. The statements of the runs that end in
a counterexample, except `RestoresWhatWasEnqueued`, for which section 5 has the
condition. Every other property of a run is a theorem.

## 7. Not modelled

- Sync mode (`dispatch.py`, `run_pending`): the attempt runs in the thread of its
  caller, with the steps of `TransitionMessage` and no interleaving of its own. An
  attempt inside the savepoint of a hook is therefore not covered.
- Two processes with different names on one state field (process.py:585): locks and
  rows are per process, so each has a gate of its own over a shared column.
- `is_valid` before the lock in `StateLock`: the gate repeats what matters.
- The never-started report (safety_nets.py:118-150): it only logs. It can name a
  row whose child died before its stamp.
- A database that does not answer the probe of `worker_holds_row`: the caller then
  goes by time alone (models.py:265-268).
- A database failure inside `_mark_unrestorable_completed` that is swallowed: the
  row stays and is tried again, which is a later attempt of the model.
- `unlock` by a `State` without a token, a manual repair.
- Circles of waits over the keys of several instances in one block, and blocks in
  which a caller drives several runs: `StateLock` has one instance and one run per
  block, `DeferredUnlocks` one connection.
- Two database aliases: rows and instances are assumed to commit together, in one
  database.
- `Supersede` and the superseding half of `FinalizeTerminal` read the guard and end the
  row in one step: the column is not written in between, and a fix that comes later
  loses nothing to them.
- An orphaned child, whose parent alone was killed, is a worker of its own whose death
  nobody records; the model does not tie it to a worker that was restarted.
- A lost connection before the row lock is taken, or while a net has it, ends the
  step like a death or an exception; only `running` has time for anything else.
- Two elements of a set whose `isoformat()` is the same would be one element when the
  set is read; the model keeps both.
- Subclasses of the serializer's types, and payloads nothing in the code writes.
- The order of callables inside a bundle, hook-signature checks, conditions and
  permissions beyond their result in `ActionLookup`.
- Settings beyond the accepted numbers, checks, logging, observability, migrations,
  the testing package: boot-time reads, log lines and helpers that decide nothing
  at run time.

## 8. Order of construction, and what could follow

Built in the order of importance: `TransitionMessage` with `DurableWork` and its
proofs, `StateLock` with its proofs, `DeferredUnlocks`, `ActionLookup`, then
`PullClock`, `KwargsWire`, the proofs of the registry, the clock and the error
count, `OwnedColumn` as the bridge between the gate and the workers, and
`TreeRecursion` with the proofs of the serializer.

What could follow, in this order:

1. `HookChain`: callbacks and follow-ups of a worker composed with the gate, for
   chains that enqueue the next row while the previous one completes.
2. Sync mode inside open blocks and hooks, with its inline retries.
3. Two processes on one state field, to say which of the properties of the gate
   survive a shared column.
