------------------------------ MODULE PullClock ------------------------------
(***************************************************************************)
(* The worker loop of pull.py and the question "is this row still being    *)
(* retried?" of models.py, on one clock.                                   *)
(*                                                                         *)
(* Workers sleep between asks, wake-ups get lost, the retry wait, the      *)
(* budget of an attempt and the safety nets each have a period of their    *)
(* own, and a caller that meets an uncompleted row compares its own clock  *)
(* with the times on the row and probes the row lock.  What an attempt     *)
(* does to the instance is TransitionMessage's; here there is one row of   *)
(* one instance and process, and a query takes no time.                    *)
(***************************************************************************)
EXTENDS Integers

CONSTANTS
  Workers,    \* the dl_worker processes
  Serving,    \* those started with the queue of the row
  Killable,   \* those that are killed and restarted with their attempt
  Callers,    \* the requests that meet the row at a gate or in in_flight()
  Ahead,      \* Ahead[c]: how far the clock of c's host is in front
  Timeouts,   \* what the row may carry as timeout_seconds
  DriverPolls,\* the database driver has the poll() that _wait_for_work calls
  NetRun,     \* bound: how long one pass of the nets and its callbacks take
  Poll, NetPeriod, RetryWait, MaxErrors, Slack, Floor,
  NoOne

(* A null timestamp, or a null timeout_seconds. *)
Never == -1

(* Mutant: the span of one wait instead of the whole retry pipeline. *)
WindowOfOneWait == RetryWait

(* The whole retry pipeline's span, floored. *)
Window == LET span == RetryWait * (MaxErrors + 1)
          IN  IF span < Floor THEN Floor ELSE span

(* The longest an idle worker goes without asking the database. *)
PollGap == IF DriverPolls THEN Poll ELSE 2 * Poll

(* What validate_on_ready accepts at boot: each number has a minimum, and   *)
(* none has a maximum.                                                     *)
AcceptedSettings ==
  /\ MaxErrors \in Nat \ {0}
  /\ RetryWait \in Nat

ASSUME ConstantsAssumption ==
  /\ AcceptedSettings
  /\ Serving \subseteq Workers /\ Killable \subseteq Workers
  /\ Workers \cap Callers = {}
  /\ NoOne \notin Workers \cup Callers
  /\ DriverPolls \in BOOLEAN
  /\ Timeouts \subseteq Nat \cup {Never}
  /\ Ahead \in [Callers -> Nat]
  /\ {Poll, NetPeriod} \subseteq Nat \ {0}
  /\ {NetRun, Slack, Floor} \subseteq Nat

(* What POLL_SECONDS 5, SAFETY_NET_SECONDS 60, the slack of 5 minutes and  *)
(* the floor of 15 minutes satisfy while a pass of the nets and the        *)
(* difference of the clocks stay below 3:50 together.                      *)
ASSUME TimingAssumption ==
  \A c \in Callers :
    /\ 2 * (PollGap + NetRun + Ahead[c]) <= Floor
    /\ NetPeriod + PollGap + NetRun + Ahead[c] <= Slack

VARIABLES
  now,
  row,      \* the TransitionMessage
  holder,   \* who holds its row lock
  loop,     \* where each worker is in run_worker
  ran,      \* ran_any of the current pass
  until,    \* when the select, the sleep or the nets of a worker end
  netsAt,   \* last_safety_net
  asked,    \* history: when a worker last asked for a row
  freed     \* history: when the row lock was last lost or given back with
            \* nothing written on the row

vars == <<now, row, holder, loop, ran, until, netsAt, asked, freed>>
history == <<asked, freed>>

Time == Nat \cup {Never}

Row == [ status   : {"absent", "pending", "completed"},
         started  : Time,   \* started_at
         error    : Time,   \* last_error_dt
         modified : Nat,
         errors   : Nat,
         timeout  : Time ]

(* Places a worker leaves at once, and places where time passes: a pass of *)
(* the nets before and after it comes to the row, and the waits.           *)
Busy == {"ask", "claimed", "dead", "nets"}
InNets == {"scanned", "nethooks"}
Waiting == {"listen", "sleep"}
Places == Busy \cup InNets \cup Waiting \cup {"attempt", "cut", "down"}

TypeOK ==
  /\ now \in Nat
  /\ row \in Row
  /\ holder \in Workers \cup Callers \cup {NoOne}
  /\ loop \in [Workers -> Places]
  /\ ran \in [Workers -> BOOLEAN]
  /\ until \in [Workers -> Nat]
  /\ netsAt \in [Workers -> Time]
  /\ asked \in [Workers -> Time]
  /\ freed \in Time

Init ==
  /\ now = 0
  /\ row = [status |-> "absent", started |-> Never, error |-> Never,
            modified |-> 0, errors |-> 0, timeout |-> Never]
  /\ holder = NoOne
  /\ loop = [w \in Workers |-> "ask"]
  /\ ran = [w \in Workers |-> FALSE]
  /\ until = [w \in Workers |-> 0]
  /\ netsAt = [w \in Workers |-> Never]
  /\ asked = [w \in Workers |-> Never]
  /\ freed = Never

-----------------------------------------------------------------------------
(* Helpers. *)

Pending == row.status = "pending"
Free == holder = NoOne

(* _claimable, for the queues worker w serves. *)
Claimable(w) ==
  /\ Pending
  /\ w \in Serving
  /\ row.errors < MaxErrors
  /\ row.error = Never \/ row.error < now - RetryWait

(* Mutant: the column counts the retries that are left. *)
ChargeLeft(m) == [m EXCEPT !.errors = @ - 1, !.error = now, !.modified = now]

(* record_error, and the UPDATE of _record_child_death. *)
Charge(m) == [m EXCEPT !.errors = @ + 1, !.error = now, !.modified = now]

(* The end of a row: its target, failed_state and hooks are not kept here. *)
Complete(m) == [m EXCEPT !.status = "completed"]
CompleteAtMax(m) == IF m.errors >= MaxErrors THEN Complete(m) ELSE m

Due(w) == netsAt[w] = Never \/ now - netsAt[w] >= NetPeriod

Go(w, place) == loop' = [loop EXCEPT ![w] = place]

(* run_once returned True: the nets break a long drain when they are due. *)
AfterAttempt(w) ==
  /\ ran' = [ran EXCEPT ![w] = TRUE]
  /\ Go(w, IF Due(w) THEN "nets" ELSE "ask")

(* Mutant: an idle worker waits for its next safety nets. *)
WaitsForNets(w) ==
  /\ \E place \in Waiting : Go(w, place)
  /\ until' = [until EXCEPT ![w] = now + NetPeriod]
  /\ ran' = [ran EXCEPT ![w] = FALSE]

(***************************************************************************)
(* _wait_for_work: LISTEN and select, or a plain sleep on a connection     *)
(* that cannot listen.                                                     *)
(***************************************************************************)
WaitForWork(w) ==
  /\ \E place \in Waiting : Go(w, place)
  /\ until' = [until EXCEPT ![w] = now + Poll]
  /\ ran' = [ran EXCEPT ![w] = FALSE]

(* The end of a pass: another one at once if it ran anything. *)
EndPass(w) ==
  \/ /\ ran[w]
     /\ Go(w, "ask")
     /\ ran' = [ran EXCEPT ![w] = FALSE]
     /\ UNCHANGED until
  \/ ~ran[w] /\ WaitForWork(w)

-----------------------------------------------------------------------------
(* The worker loop. *)

(* claim_next found the row. *)
Claim(w) ==
  /\ loop[w] = "ask"
  /\ Claimable(w) /\ Free
  /\ asked' = [asked EXCEPT ![w] = now]
  /\ Go(w, "claimed")
  /\ UNCHANGED <<now, row, holder, ran, until, netsAt, freed>>

(* claim_next returned None. *)
FindNothing(w) ==
  /\ loop[w] = "ask"
  /\ ~(Claimable(w) /\ Free)
  /\ asked' = [asked EXCEPT ![w] = now]
  /\ \/ Due(w) /\ Go(w, "nets") /\ UNCHANGED <<ran, until>>
     \/ ~Due(w) /\ EndPass(w)
  /\ UNCHANGED <<now, row, holder, netsAt, freed>>

(***************************************************************************)
(* The child stamps the row and takes its lock; a held or completed row    *)
(* makes it exit at once.                                                  *)
(***************************************************************************)
StartAttempt(w) ==
  /\ loop[w] = "claimed"
  /\ \/ /\ Pending /\ Free
        /\ row' = [row EXCEPT !.started = now, !.modified = now]
        /\ holder' = w
        /\ Go(w, "attempt")
        /\ UNCHANGED ran
     \/ /\ ~(Pending /\ Free)
        /\ AfterAttempt(w)
        /\ UNCHANGED <<row, holder>>
  /\ UNCHANGED <<now, until, netsAt, history>>

(* The attempt commits its success or its error and gives the lock back. *)
FinishAttempt(w) ==
  /\ loop[w] = "attempt"
  /\ \/ row' = Complete(row)
     \/ row' = CompleteAtMax(Charge(row))
  /\ holder' = NoOne
  /\ AfterAttempt(w)
  /\ UNCHANGED <<now, until, netsAt, history>>

(* The child dies, before its stamp or during the attempt. *)
ChildDies(w) ==
  /\ loop[w] \in {"claimed", "attempt"}
  /\ Go(w, "dead")
  /\ holder' = IF holder = w THEN NoOne ELSE holder
  /\ freed' = IF holder = w THEN now ELSE freed
  /\ UNCHANGED <<now, row, ran, until, netsAt, asked>>

RecordDeath(w) ==
  /\ loop[w] = "dead"
  /\ row' = IF Pending THEN Charge(row) ELSE row
  /\ AfterAttempt(w)
  /\ UNCHANGED <<now, holder, until, netsAt, history>>

(* abandon_timed_out_attempt: past its budget, not held, not charged yet. *)
Abandoned ==
  /\ Pending /\ Free
  /\ row.started # Never /\ row.timeout # Never
  /\ row.started + row.timeout < now
  /\ row.error < row.started

(* A pass of the nets starts with the scan of the watchdog. *)
StartNets(w) ==
  /\ loop[w] = "nets"
  /\ Go(w, "scanned")
  /\ until' = [until EXCEPT ![w] = now + NetRun]
  /\ UNCHANGED <<now, row, holder, ran, netsAt, history>>

(* When the scan was made. *)
ScannedAt(w) == until[w] - NetRun

(***************************************************************************)
(* The watchdog, then the stuck finalizer come to the row, after rows that *)
(* took their time.  The watchdog decides again on what it has locked, and *)
(* may have missed what was not overdue at the scan.                       *)
(***************************************************************************)
RunNets(w) ==
  /\ loop[w] = "scanned"
  /\ \E m \in {row, Charge(row)} :
       /\ m # row => Abandoned
       /\ m = row => ~(Abandoned /\ row.started + row.timeout < ScannedAt(w))
       /\ row' = IF Pending /\ Free THEN CompleteAtMax(m) ELSE m
  /\ Go(w, "nethooks")
  /\ UNCHANGED <<now, holder, ran, until, netsAt, history>>

(* The callbacks of what the nets ended have run; last_safety_net is set. *)
EndNets(w) ==
  /\ loop[w] = "nethooks"
  /\ netsAt' = [netsAt EXCEPT ![w] = now]
  /\ EndPass(w)
  /\ UNCHANGED <<now, row, holder, history>>

(***************************************************************************)
(* The select returned.  Without poll() on the connection the code goes on *)
(* to its fallback and sleeps as well.                                     *)
(***************************************************************************)
SelectReturns(w) ==
  /\ loop[w] = "listen" /\ until[w] <= now
  /\ IF DriverPolls
     THEN Go(w, "ask") /\ UNCHANGED until
     ELSE Go(w, "sleep") /\ until' = [until EXCEPT ![w] = now + Poll]
  /\ UNCHANGED <<now, row, holder, ran, netsAt, history>>

(* The listening connection breaks: the fallback sleeps, the next query    *)
(* raises, and the process exits.                                          *)
ConnectionBreaks(w) ==
  /\ loop[w] = "listen"
  /\ Go(w, "cut")
  /\ until' = [until EXCEPT ![w] = now + Poll]
  /\ UNCHANGED <<now, row, holder, ran, netsAt, history>>

WakeUp(w) ==
  /\ until[w] <= now
  /\ \/ loop[w] = "sleep" /\ Go(w, "ask")
     \/ loop[w] = "cut" /\ Go(w, "down")
  /\ UNCHANGED <<now, row, holder, ran, until, netsAt, history>>

(* A worker is killed with its child; its row lock goes with it. *)
Kill(w) ==
  /\ w \in Killable /\ loop[w] # "down"
  /\ Go(w, "down")
  /\ holder' = IF holder = w THEN NoOne ELSE holder
  /\ freed' = IF holder = w THEN now ELSE freed
  /\ UNCHANGED <<now, row, ran, until, netsAt, asked>>

(* The platform starts it again; last_safety_net starts long ago. *)
Restart(w) ==
  /\ loop[w] = "down"
  /\ Go(w, "ask")
  /\ ran' = [ran EXCEPT ![w] = FALSE]
  /\ netsAt' = [netsAt EXCEPT ![w] = Never]
  /\ UNCHANGED <<now, row, holder, until, history>>

-----------------------------------------------------------------------------
(* The callers. *)

(***************************************************************************)
(* Enqueue commits the row and notifies.  The notification reaches some of *)
(* the workers that listen: it is best effort, and nobody else hears it.   *)
(***************************************************************************)
Enqueue(t) ==
  /\ row.status = "absent"
  /\ row' = [row EXCEPT !.status = "pending", !.modified = now, !.timeout = t]
  /\ \E H \in SUBSET {w \in Workers : loop[w] = "listen"} :
       until' = [w \in Workers |-> IF w \in H THEN now ELSE until[w]]
  /\ UNCHANGED <<now, holder, loop, ran, netsAt, history>>

Clock(c) == now + Ahead[c]

(* Mutant: the budget without the grace of the watchdog's next pass. *)
InBudgetWithoutSlack(c) ==
  /\ row.started # Never /\ row.timeout # Never
  /\ Clock(c) < row.started + row.timeout

(* A running attempt inside its declared budget, plus slack. *)
InBudget(c) ==
  /\ row.started # Never /\ row.timeout # Never
  /\ Clock(c) < row.started + row.timeout + Slack

Newest == IF row.started > row.modified THEN row.started ELSE row.modified

InWindow(c) == Clock(c) - Newest <= Window

(* Mutant: the probe of a database without row locks. *)
NeverHeld(c) == FALSE

(* worker_holds_row: FOR UPDATE NOWAIT fails on the lock of another        *)
(* transaction, and succeeds on one of the caller's own.  Here it always   *)
(* gets an answer; without one retry_status goes by time alone.            *)
WorkerHoldsRow(c) == holder \notin {NoOne, c}

RetryStatus(c) ==
  IF ~Pending THEN "none"
  ELSE IF InBudget(c) \/ InWindow(c) \/ WorkerHoldsRow(c) THEN "retrying"
  ELSE "stranded"

(***************************************************************************)
(* The probe of a caller inside an open transaction.  Its savepoint is     *)
(* released, not rolled back, so the lock it took stays with the caller's  *)
(* transaction; outside of one the probe leaves nothing behind.            *)
(***************************************************************************)
ProbeInBlock(c) ==
  /\ RetryStatus(c) = "stranded"
  /\ Free
  /\ holder' = c
  /\ UNCHANGED <<now, row, loop, ran, until, netsAt, history>>

EndBlock(c) ==
  /\ holder = c
  /\ holder' = NoOne
  /\ freed' = now
  /\ UNCHANGED <<now, row, loop, ran, until, netsAt, asked>>

(* Time passes while every worker is at a place where it can. *)
Tick ==
  /\ \A w \in Workers :
       /\ loop[w] \notin Busy
       /\ loop[w] \in InNets \cup Waiting \cup {"cut"} => now < until[w]
  /\ now' = now + 1
  /\ UNCHANGED <<row, holder, loop, ran, until, netsAt, history>>

WorkerStep(w) ==
  \/ Claim(w) \/ FindNothing(w) \/ StartAttempt(w) \/ FinishAttempt(w)
  \/ ChildDies(w) \/ RecordDeath(w)
  \/ StartNets(w) \/ RunNets(w) \/ EndNets(w)
  \/ SelectReturns(w) \/ ConnectionBreaks(w) \/ WakeUp(w)
  \/ Kill(w) \/ Restart(w)

Next ==
  \/ \E w \in Workers : WorkerStep(w)
  \/ \E t \in Timeouts : Enqueue(t)
  \/ \E c \in Callers : ProbeInBlock(c) \/ EndBlock(c)
  \/ Tick

Spec == Init /\ [][Next]_vars

-----------------------------------------------------------------------------
(* A lost notification costs one wait.  README.md:1208 and pull.py:46-47   *)
(* promise an ask every POLL_SECONDS.  What the code keeps is less: the    *)
(* wait begins after the nets and the callbacks they run, a driver without *)
(* poll() sleeps after its select as well, and a worker whose connection   *)
(* broke exits after the fallback and asks when it is restarted.           *)
IdleSince(w) == IF asked[w] < netsAt[w] THEN netsAt[w] ELSE asked[w]

AskedInTime ==
  \A w \in Workers :
    /\ loop[w] \in Waiting => now - IdleSince(w) <= PollGap
    /\ loop[w] = "cut" => now - IdleSince(w) <= 2 * Poll

(* retry_status: an attempt that runs quietly for longer than the window,  *)
(* with or without a budget, is slow and not lost.                         *)
HeldIsRetrying ==
  \A w \in Workers, c \in Callers :
    loop[w] = "attempt" => RetryStatus(c) = "retrying"

(* retry_status: nobody is told that nothing retries the row while a       *)
(* worker that serves its queue is idle and has retries left to run; only  *)
(* what held the row lock when that worker asked can have hidden it.       *)
ServedIsRetried ==
  \A w \in Serving, c \in Callers :
    /\ loop[w] \in Waiting
    /\ Free
    /\ row.errors < MaxErrors
    /\ RetryStatus(c) = "stranded"
    => freed >= asked[w]

(* RETRY_SLACK: the gate does not give up on an attempt that the watchdog  *)
(* has yet to charge, as long as one worker runs the nets on time; only    *)
(* what held the row lock in its last pass can have hidden it.             *)
WatchdogFirst ==
  \A w \in Workers, c \in Callers :
    loop[w] \in Waiting /\ Abandoned /\ RetryStatus(c) = "stranded"
    => freed >= netsAt[w] - NetRun
=============================================================================
