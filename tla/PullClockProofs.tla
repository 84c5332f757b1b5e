--------------------------- MODULE PullClockProofs ---------------------------
(***************************************************************************)
(* Theorems of PullClock for any number of workers and callers, any skew   *)
(* and any settings that satisfy TimingAssumption.                         *)
(***************************************************************************)
EXTENDS PullClock, TLAPS

(***************************************************************************)
(* Arithmetic of the settings.                                             *)
(***************************************************************************)

(* A driver that lacks poll() at most doubles the wait. *)
LEMMA PollGapLemma == PollGap \in Nat /\ Poll \in Nat /\ Poll > 0 /\ Poll <= PollGap
  BY ConstantsAssumption DEF AcceptedSettings, ConstantsAssumption, PollGap

LEMMA SpanLemma ==
  ASSUME NEW a \in Nat, NEW b \in Nat, b > 0
  PROVE  a * (b + 1) \in Nat /\ 2 * a <= a * (b + 1)
<1>1. b - 1 \in Nat
  OBVIOUS
<1>2. a * (b - 1) \in Nat
  BY <1>1
<1>3. a * (b + 1) = 2 * a + a * (b - 1)
  OBVIOUS
<1> QED
  BY <1>2, <1>3

(* The window spans one retry wait, a pass of the nets, an idle gap and the *)
(* skew.                                                                   *)
LEMMA WindowLemma ==
  ASSUME NEW c \in Callers
  PROVE  Window \in Nat /\ RetryWait + PollGap + NetRun + Ahead[c] <= Window
<1> DEFINE span == RetryWait * (MaxErrors + 1)
<1>1. RetryWait \in Nat /\ MaxErrors \in Nat /\ MaxErrors > 0 /\ Floor \in Nat
  BY ConstantsAssumption DEF AcceptedSettings, ConstantsAssumption
<1>2. span \in Nat /\ 2 * RetryWait <= span
  BY <1>1, SpanLemma
<1>3. 2 * (PollGap + NetRun + Ahead[c]) <= Floor
  BY TimingAssumption DEF TimingAssumption
<1>4. Ahead[c] \in Nat /\ NetRun \in Nat
  BY ConstantsAssumption DEF AcceptedSettings, ConstantsAssumption
<1>5. Window = IF span < Floor THEN Floor ELSE span
  BY DEF Window
<1> HIDE DEF span
<1> QED
  BY <1>1, <1>2, <1>3, <1>4, <1>5, PollGapLemma

-----------------------------------------------------------------------------
(***************************************************************************)
(* What the helpers do to a row.                                           *)
(***************************************************************************)

LEMMA ChargeLemma ==
  ASSUME NEW m \in Row, now \in Nat
  PROVE  /\ Charge(m) \in Row
         /\ Charge(m).status = m.status
         /\ Charge(m).started = m.started
         /\ Charge(m).timeout = m.timeout
         /\ Charge(m).error = now
         /\ Charge(m).modified = now
<1> DEFINE n == [m EXCEPT !.errors = @ + 1]
           k == [n EXCEPT !.error = now]
<1>1. n \in Row /\ n.status = m.status /\ n.started = m.started /\ n.timeout = m.timeout
  BY DEF Row
<1>2. k \in Row /\ k.status = n.status /\ k.started = n.started
        /\ k.timeout = n.timeout /\ k.error = now
  <2> HIDE DEF n
  <2> QED  BY <1>1 DEF Row, Time
<1>3. Charge(m) = [k EXCEPT !.modified = now]
  BY DEF Charge, Row
<1> HIDE DEF n, k
<1> QED
  BY <1>1, <1>2, <1>3 DEF Row

(* Ending a row changes nothing but its status. *)
LEMMA CompleteLemma ==
  ASSUME NEW m \in Row
  PROVE  /\ Complete(m) \in Row
         /\ Complete(m).status = "completed"
         /\ Complete(m).started = m.started
         /\ Complete(m).timeout = m.timeout
         /\ Complete(m).error = m.error
         /\ Complete(m).modified = m.modified
         /\ CompleteAtMax(m) \in {m, Complete(m)}
  BY DEF Complete, CompleteAtMax, Row

(***************************************************************************)
(* The five things a step may do to the row.                               *)
(***************************************************************************)
SameTimes == row'.started = row.started /\ row'.timeout = row.timeout
             /\ row'.error = row.error /\ row'.modified = row.modified

Born == /\ row.status = "absent" /\ row'.status = "pending"
        /\ row'.started = row.started /\ row'.error = row.error
        /\ row'.modified = now

Stamped == /\ Pending /\ Pending' /\ ~Free'
           /\ row'.started = now /\ row'.modified = now
           /\ row'.error = row.error /\ row'.timeout = row.timeout

Charged == /\ Pending /\ row'.status \in {"pending", "completed"}
           /\ row'.started = row.started /\ row'.timeout = row.timeout
           /\ row'.error = now /\ row'.modified = now

Ended == row.status # "absent" /\ row'.status = "completed" /\ SameTimes

RowStep == row' = row \/ Born \/ Stamped \/ Charged \/ Ended

(* An attempt holds the row lock of a row that is not completed. *)
AttemptHolds ==
  \A w \in Workers : loop[w] = "attempt" => holder = w /\ Pending

LEMMA RowSteps ==
  ASSUME TypeOK, AttemptHolds, [Next]_vars
  PROVE  row' \in Row /\ RowStep
<1>1. row \in Row /\ now \in Nat
  BY DEF TypeOK
<1>2. CASE UNCHANGED row
  BY <1>1, <1>2 DEF RowStep
<1>3. ASSUME NEW w \in Workers, StartAttempt(w), Pending, Free,
             row' = [row EXCEPT !.started = now, !.modified = now], holder' = w
      PROVE  row' \in Row /\ RowStep
  <2>1. w # NoOne
    BY ConstantsAssumption DEF AcceptedSettings, ConstantsAssumption
  <2> QED
    BY <1>1, <1>3, <2>1 DEF Row, Time, Pending, Free, RowStep, Stamped
<1>4. ASSUME NEW w \in Workers, FinishAttempt(w)
      PROVE  row' \in Row /\ RowStep
  <2>1. Pending
    BY <1>4 DEF FinishAttempt, AttemptHolds
  <2> QED
    BY <1>1, <1>4, <2>1, ChargeLemma, CompleteLemma
       DEF FinishAttempt, RowStep, Charged, Ended, SameTimes, Pending
<1>5. ASSUME NEW w \in Workers, RecordDeath(w)
      PROVE  row' \in Row /\ RowStep
  BY <1>1, <1>5, ChargeLemma DEF RecordDeath, RowStep, Charged, Pending
<1>6. ASSUME NEW w \in Workers, RunNets(w)
      PROVE  row' \in Row /\ RowStep
  <2>1. PICK m \in {row, Charge(row)} :
          /\ m # row => Abandoned
          /\ row' = IF Pending /\ Free THEN CompleteAtMax(m) ELSE m
    BY <1>6 DEF RunNets
  <2>2. CASE m = row
    BY <1>1, <2>1, <2>2, CompleteLemma DEF RowStep, Ended, SameTimes, Pending
  <2>3. CASE m # row
    BY <1>1, <2>1, <2>3, ChargeLemma, CompleteLemma
       DEF Abandoned, RowStep, Charged, Pending
  <2> QED
    BY <2>2, <2>3
<1>7. ASSUME NEW t \in Timeouts, Enqueue(t)
      PROVE  row' \in Row /\ RowStep
  <2>1. t \in Time
    BY ConstantsAssumption DEF AcceptedSettings, ConstantsAssumption, Time
  <2> QED
    BY <1>1, <1>7, <2>1 DEF Enqueue, Row, RowStep, Born
<1>8. ASSUME NEW w \in Workers, WorkerStep(w)
      PROVE  row' \in Row /\ RowStep
  BY <1>2, <1>3, <1>4, <1>5, <1>6, <1>8
     DEF WorkerStep, Claim, FindNothing, StartAttempt, ChildDies,
         StartNets, EndNets, SelectReturns, ConnectionBreaks, WakeUp, Kill, Restart
<1> QED
  BY <1>2, <1>7, <1>8 DEF Next, vars, ProbeInBlock, EndBlock, Tick

-----------------------------------------------------------------------------
(***************************************************************************)
(* The inductive invariant.                                                *)
(***************************************************************************)

(* Nothing on the row or in the history is later than now. *)
Past ==
  /\ row.started <= row.modified /\ row.error <= row.modified
  /\ row.modified <= now
  /\ freed <= now
  /\ \A w \in Workers : asked[w] <= now /\ netsAt[w] <= now
  /\ row.status = "absent" => row.started = Never

(* A pass of the nets ends in time, an idle worker wakes up within the     *)
(* poll gap, and the nets are never more than a period older than its idle *)
(* time.                                                                   *)
WaitOf(w) ==
  /\ loop[w] = "nets" /\ ran[w] = FALSE => asked[w] = now
  /\ loop[w] \in InNets =>
       /\ now <= until[w] /\ ScannedAt(w) <= now
       /\ ran[w] = FALSE => until[w] <= asked[w] + NetRun
  /\ loop[w] \in Waiting =>
       /\ now <= until[w]
       /\ until[w] <= IdleSince(w) + PollGap
       /\ loop[w] = "listen" => until[w] <= IdleSince(w) + Poll
       /\ IdleSince(w) <= asked[w] + NetRun
       /\ netsAt[w] # Never
       /\ IdleSince(w) - netsAt[w] < NetPeriod
  /\ loop[w] = "cut" =>
       now <= until[w] /\ until[w] <= IdleSince(w) + 2 * Poll

Waits == \A w \in Workers : WaitOf(w)

(* Nothing ran since the worker asked.                                     *)
HasAsked(w) == loop[w] \in Waiting \/ (loop[w] \in {"nets"} \cup InNets /\ ran[w] = FALSE)

(* A serving worker that asked and is idle left no row that was free then  *)
(* without an activity a retry wait before the question, or later.         *)
Served ==
  \A w \in Serving :
    /\ HasAsked(w)
    /\ Pending /\ Free /\ row.errors < MaxErrors
    /\ freed < asked[w]
    => row.modified >= asked[w] - RetryWait

(* An attempt over its budget before t was charged, if it was free.        *)
WatchedSince(t) ==
  /\ Pending /\ Free
  /\ row.started # Never /\ row.timeout # Never
  /\ row.started + row.timeout < t
  /\ row.error < row.started
  => freed >= t

(* Nets charge what was over its budget at their scan.                     *)
Watched ==
  \A w \in Workers :
    /\ WatchedSince(netsAt[w] - NetRun)
    /\ loop[w] = "nethooks" => WatchedSince(ScannedAt(w))

IInv == TypeOK /\ AttemptHolds /\ Past /\ Waits /\ Served /\ Watched

LEMMA NowLemma ==
  ASSUME TypeOK, [Next]_vars
  PROVE  /\ now' \in Nat /\ now <= now'
         /\ now' # now => UNCHANGED <<row, holder, loop, ran, until, netsAt, history>>
<1>1. now \in Nat
  BY DEF TypeOK
<1>2. CASE Tick
  BY <1>1, <1>2 DEF Tick
<1>3. CASE now' = now
  BY <1>1, <1>3
<1>4. ASSUME NEW w \in Workers, WorkerStep(w)
      PROVE  now' = now
  BY <1>4 DEF WorkerStep, Claim, FindNothing, StartAttempt, FinishAttempt,
     ChildDies, RecordDeath, StartNets, RunNets, EndNets, SelectReturns,
     ConnectionBreaks, WakeUp, Kill, Restart
<1> QED
  BY <1>2, <1>3, <1>4 DEF Next, vars, Enqueue, ProbeInBlock, EndBlock

-----------------------------------------------------------------------------
(***************************************************************************)
(* Types.                                                                  *)
(***************************************************************************)

LEMMA GoLemma ==
  ASSUME TypeOK, NEW w \in Workers, NEW place \in Places, Go(w, place)
  PROVE  /\ loop' \in [Workers -> Places]
         /\ loop'[w] = place
         /\ \A v \in Workers \ {w} : loop'[v] = loop[v]
  BY DEF Go, TypeOK

(* A pass ends with another one, or with a wait that starts now. *)
LEMMA EndPassLemma ==
  ASSUME TypeOK, NEW w \in Workers, EndPass(w)
  PROVE  /\ loop' \in [Workers -> Places]
         /\ ran' \in [Workers -> BOOLEAN]
         /\ until' \in [Workers -> Nat]
         /\ \A v \in Workers \ {w} :
              loop'[v] = loop[v] /\ until'[v] = until[v] /\ ran'[v] = ran[v]
         /\ \/ loop'[w] = "ask" /\ ran[w] = TRUE
            \/ loop'[w] \in Waiting /\ until'[w] = now + Poll /\ ran[w] = FALSE
<1> USE DEF Places, Busy, InNets, Waiting
<1>1. CASE ran[w]
  <2>1. Go(w, "ask") /\ ran' = [ran EXCEPT ![w] = FALSE] /\ until' = until
    BY <1>1 DEF EndPass
  <2> QED
    BY <1>1, <2>1, GoLemma DEF TypeOK
<1>2. CASE ~ran[w]
  <2>1. PICK place \in Waiting : Go(w, place)
    BY <1>2 DEF EndPass, WaitForWork
  <2>2. until' = [until EXCEPT ![w] = now + Poll] /\ ran' = [ran EXCEPT ![w] = FALSE]
    BY <1>2 DEF EndPass, WaitForWork
  <2>3. now + Poll \in Nat
    BY PollGapLemma DEF TypeOK
  <2> QED
    BY <1>2, <2>1, <2>2, <2>3, GoLemma DEF TypeOK
<1> QED
  BY <1>1, <1>2

LEMMA AfterAttemptLemma ==
  ASSUME TypeOK, NEW w \in Workers, AfterAttempt(w)
  PROVE  /\ loop' \in [Workers -> Places]
         /\ ran' \in [Workers -> BOOLEAN]
         /\ ran'[w] = TRUE
         /\ loop'[w] \in {"nets", "ask"}
         /\ \A v \in Workers \ {w} : loop'[v] = loop[v] /\ ran'[v] = ran[v]
<1>1. Go(w, IF Due(w) THEN "nets" ELSE "ask") /\ ran' = [ran EXCEPT ![w] = TRUE]
  BY DEF AfterAttempt
<1>2. (IF Due(w) THEN "nets" ELSE "ask") \in Places
  BY DEF Places, Busy
<1> QED
  BY <1>1, <1>2, GoLemma DEF TypeOK

LEMMA HolderType ==
  ASSUME TypeOK, [Next]_vars
  PROVE  holder' \in Workers \cup Callers \cup {NoOne}
<1>1. ASSUME NEW w \in Workers, WorkerStep(w)
      PROVE  holder' \in {holder, w, NoOne}
  BY <1>1 DEF WorkerStep, Claim, FindNothing, StartAttempt, FinishAttempt,
     ChildDies, RecordDeath, StartNets, RunNets, EndNets, SelectReturns,
     ConnectionBreaks, WakeUp, Kill, Restart
<1> QED
  BY <1>1 DEF Next, vars, Enqueue, ProbeInBlock, EndBlock, Tick, TypeOK

LEMMA HistoryType ==
  ASSUME TypeOK, [Next]_vars
  PROVE  /\ freed' \in {freed, now}
         /\ netsAt' \in [Workers -> Time]
         /\ asked' \in [Workers -> Time]
<1>1. now \in Time
  BY DEF TypeOK, Time
<1>2. ASSUME NEW w \in Workers, WorkerStep(w)
      PROVE  /\ freed' \in {freed, now}
             /\ netsAt' \in {netsAt, [netsAt EXCEPT ![w] = now], [netsAt EXCEPT ![w] = Never]}
             /\ asked' \in {asked, [asked EXCEPT ![w] = now]}
  BY <1>2 DEF WorkerStep, Claim, FindNothing, StartAttempt, FinishAttempt,
     ChildDies, RecordDeath, StartNets, RunNets, EndNets, SelectReturns,
     ConnectionBreaks, WakeUp, Kill, Restart, history
<1>3. CASE \E w \in Workers : WorkerStep(w)
  <2>1. PICK w \in Workers : WorkerStep(w)
    BY <1>3
  <2>2. [netsAt EXCEPT ![w] = now] \in [Workers -> Time]
        /\ [netsAt EXCEPT ![w] = Never] \in [Workers -> Time]
        /\ [asked EXCEPT ![w] = now] \in [Workers -> Time]
    BY <1>1 DEF TypeOK, Time
  <2> QED
    BY <1>2, <2>1, <2>2 DEF TypeOK
<1> QED
  BY <1>3 DEF Next, vars, Enqueue, ProbeInBlock, EndBlock, Tick, TypeOK, history

LEMMA LoopType ==
  ASSUME TypeOK, [Next]_vars
  PROVE  /\ loop' \in [Workers -> Places]
         /\ ran' \in [Workers -> BOOLEAN]
         /\ until' \in [Workers -> Nat]
<1>1. now \in Nat /\ now + Poll \in Nat /\ now + NetRun \in Nat
  BY PollGapLemma, ConstantsAssumption DEF AcceptedSettings, ConstantsAssumption, TypeOK
<1>2. ASSUME NEW w \in Workers, WorkerStep(w)
      PROVE  /\ loop' \in [Workers -> Places]
             /\ ran' \in [Workers -> BOOLEAN]
             /\ until' \in [Workers -> Nat]
  <2>1. CASE Claim(w)
    BY <2>1, GoLemma DEF Claim, Places, Busy, TypeOK
  <2>2. CASE FindNothing(w)
    BY <2>2, GoLemma, EndPassLemma DEF FindNothing, Places, Busy, TypeOK
  <2>3. CASE StartAttempt(w)
    BY <2>3, GoLemma, AfterAttemptLemma DEF StartAttempt, Places, TypeOK
  <2>4. CASE FinishAttempt(w) \/ RecordDeath(w)
    BY <2>4, AfterAttemptLemma DEF FinishAttempt, RecordDeath, TypeOK
  <2>5. CASE ChildDies(w)
    BY <2>5, GoLemma DEF ChildDies, Places, Busy, TypeOK
  <2>6. CASE StartNets(w) \/ RunNets(w)
    BY <1>1, <2>6, GoLemma DEF StartNets, RunNets, Places, InNets, TypeOK
  <2>10. CASE EndNets(w)
    BY <2>10, EndPassLemma DEF EndNets
  <2>7. CASE SelectReturns(w)
    BY <1>1, <2>7, GoLemma DEF SelectReturns, Places, Busy, Waiting, TypeOK
  <2>8. CASE ConnectionBreaks(w)
    BY <1>1, <2>8, GoLemma DEF ConnectionBreaks, Places, TypeOK
  <2>9. CASE WakeUp(w) \/ Kill(w) \/ Restart(w)
    BY <2>9, GoLemma DEF WakeUp, Kill, Restart, Places, Busy, TypeOK
  <2> QED
    BY <1>2, <2>1, <2>2, <2>3, <2>4, <2>5, <2>6, <2>7, <2>8, <2>9, <2>10 DEF WorkerStep
<1>3. ASSUME NEW t \in Timeouts, Enqueue(t)
      PROVE  until' \in [Workers -> Nat]
  BY <1>1, <1>3 DEF Enqueue, TypeOK
<1> QED
  BY <1>2, <1>3 DEF Next, vars, Enqueue, ProbeInBlock, EndBlock, Tick, TypeOK

LEMMA TypeStep ==
  ASSUME TypeOK, AttemptHolds, [Next]_vars
  PROVE  TypeOK'
<1>1. freed' \in Time
  BY HistoryType DEF TypeOK, Time
<1> QED
  BY <1>1, NowLemma, RowSteps, HolderType, HistoryType, LoopType DEF TypeOK

-----------------------------------------------------------------------------
(***************************************************************************)
(* Row locks.                                                              *)
(***************************************************************************)

(* Where a step of w leaves the other workers. *)
LEMMA OthersStay ==
  ASSUME TypeOK, NEW w \in Workers, WorkerStep(w), NEW v \in Workers \ {w}
  PROVE  loop'[v] = loop[v] /\ ran'[v] = ran[v] /\ until'[v] = until[v]
         /\ asked'[v] = asked[v] /\ netsAt'[v] = netsAt[v]
<1>1. CASE Claim(w) \/ StartAttempt(w) \/ FinishAttempt(w) \/ RecordDeath(w)
           \/ ChildDies(w) \/ StartNets(w) \/ RunNets(w) \/ SelectReturns(w)
           \/ ConnectionBreaks(w) \/ WakeUp(w) \/ Kill(w) \/ Restart(w)
  BY <1>1 DEF Claim, StartAttempt, FinishAttempt, RecordDeath, ChildDies, StartNets,
     RunNets, SelectReturns, ConnectionBreaks, WakeUp, Kill, Restart, AfterAttempt, Go, TypeOK, history
<1>2. CASE FindNothing(w)
  BY <1>2, EndPassLemma DEF FindNothing, Go, TypeOK
<1>3. CASE EndNets(w)
  BY <1>3, EndPassLemma DEF EndNets, TypeOK, history
<1> QED
  BY <1>1, <1>2, <1>3 DEF WorkerStep

(* A row that somebody holds is completed by nobody else. *)
LEMMA AttemptStep ==
  ASSUME IInv, [Next]_vars
  PROVE  AttemptHolds'
<1> SUFFICES ASSUME NEW v \in Workers, loop'[v] = "attempt"
             PROVE  holder' = v /\ Pending'
  BY DEF AttemptHolds
<1>0. TypeOK /\ AttemptHolds
  BY DEF IInv
<1>1. CASE UNCHANGED <<loop, holder, row>>
  BY <1>0, <1>1 DEF AttemptHolds, Pending
<1>2. ASSUME NEW w \in Workers, WorkerStep(w)
      PROVE  holder' = v /\ Pending'
  <2>1. CASE v = w
    <3>1. CASE StartAttempt(w)
      <4>1. CASE Pending /\ Free
        <5>1. row' = [row EXCEPT !.started = now, !.modified = now] /\ holder' = w
          BY <3>1, <4>1 DEF StartAttempt
        <5> QED
          BY <1>0, <2>1, <4>1, <5>1 DEF TypeOK, Row, Pending
      <4>2. CASE ~(Pending /\ Free)
        BY <1>0, <2>1, <3>1, <4>2, AfterAttemptLemma DEF StartAttempt
      <4> QED
        BY <4>1, <4>2
    <3>2. CASE FinishAttempt(w) \/ RecordDeath(w)
      BY <1>0, <2>1, <3>2, AfterAttemptLemma DEF FinishAttempt, RecordDeath
    <3>3. CASE EndNets(w)
      BY <1>0, <2>1, <3>3, EndPassLemma DEF EndNets, Waiting
    <3>4. CASE FindNothing(w)
      BY <1>0, <2>1, <3>4, EndPassLemma DEF FindNothing, Waiting, Go, TypeOK
    <3> QED
      BY <1>0, <1>2, <2>1, <3>1, <3>2, <3>3, <3>4
         DEF WorkerStep, Claim, ChildDies, StartNets, RunNets, SelectReturns,
             ConnectionBreaks, WakeUp, Kill, Restart, Go, TypeOK
  <2>2. CASE v # w
    <3>1. holder = v /\ Pending /\ v # NoOne
      BY <1>0, <1>2, <2>2, OthersStay, ConstantsAssumption
         DEF AttemptHolds, AcceptedSettings, ConstantsAssumption
    <3>2. ~FinishAttempt(w)
      BY <1>0, <2>2, <3>1 DEF FinishAttempt, AttemptHolds
    <3>3. CASE StartAttempt(w) \/ RunNets(w)
      BY <3>1, <3>3 DEF StartAttempt, RunNets, Free, Abandoned, Pending
    <3>4. CASE RecordDeath(w)
      BY <1>0, <3>1, <3>4, ChargeLemma DEF RecordDeath, TypeOK, Pending
    <3> QED
      BY <1>2, <2>2, <3>1, <3>2, <3>3, <3>4
         DEF WorkerStep, Claim, FindNothing, ChildDies, StartNets, EndNets,
             SelectReturns, ConnectionBreaks, WakeUp, Kill, Restart, Pending
  <2> QED
    BY <2>1, <2>2
<1>3. ASSUME NEW t \in Timeouts, Enqueue(t)
      PROVE  holder' = v /\ Pending'
  BY <1>0, <1>3 DEF Enqueue, AttemptHolds, Pending
<1>4. ASSUME NEW c \in Callers, ProbeInBlock(c) \/ EndBlock(c)
      PROVE  holder' = v /\ Pending'
  BY <1>0, <1>4, ConstantsAssumption
     DEF ProbeInBlock, EndBlock, AttemptHolds, Free, AcceptedSettings, ConstantsAssumption
<1> QED
  BY <1>1, <1>2, <1>3, <1>4 DEF Next, vars, Tick

-----------------------------------------------------------------------------
(***************************************************************************)
(* Times.                                                                  *)
(***************************************************************************)

LEMMA PastStep ==
  ASSUME IInv, [Next]_vars
  PROVE  Past'
<1>0. TypeOK /\ AttemptHolds /\ Past /\ TypeOK' /\ row \in Row
  BY TypeStep DEF IInv, TypeOK
<1>1. now \in Nat /\ now' \in Nat /\ now <= now'
  BY <1>0, NowLemma DEF TypeOK
<1>2. /\ row'.started <= row'.modified /\ row'.error <= row'.modified
      /\ row'.modified <= now
      /\ row'.status = "absent" => row'.started = Never
  BY <1>0, <1>1, RowSteps
     DEF RowStep, Born, Stamped, Charged, Ended, SameTimes, Past, Row, Time, Never,
            Pending
<1>3. \A w \in Workers : asked'[w] <= now /\ netsAt'[w] <= now
  <2>1. ASSUME NEW w \in Workers, WorkerStep(w)
        PROVE  /\ netsAt' \in {netsAt, [netsAt EXCEPT ![w] = now], [netsAt EXCEPT ![w] = Never]}
               /\ asked' \in {asked, [asked EXCEPT ![w] = now]}
    BY <2>1 DEF WorkerStep, Claim, FindNothing, StartAttempt, FinishAttempt,
       ChildDies, RecordDeath, StartNets, RunNets, EndNets, SelectReturns,
       ConnectionBreaks, WakeUp, Kill, Restart, history
  <2>2. netsAt \in [Workers -> Time] /\ asked \in [Workers -> Time] /\ Never <= now
    BY <1>0, <1>1 DEF TypeOK, Never
  <2>3. CASE \E w \in Workers : WorkerStep(w)
    BY <1>0, <1>1, <2>1, <2>2, <2>3 DEF Past
  <2>4. CASE UNCHANGED <<netsAt, asked>>
    BY <1>0, <2>4 DEF Past
  <2> QED
    BY <2>3, <2>4 DEF Next, vars, Enqueue, ProbeInBlock, EndBlock, Tick, history
<1>4. freed' <= now
  BY <1>0, <1>1, HistoryType DEF Past
<1>5. /\ row'.modified \in Nat /\ freed' \in Time
      /\ \A w \in Workers : asked'[w] \in Time /\ netsAt'[w] \in Time
  BY <1>0 DEF TypeOK, Row
<1> QED
  BY <1>1, <1>2, <1>3, <1>4, <1>5 DEF Past, Time, Never

LEMMA OwnWait ==
  ASSUME IInv, NEW w \in Workers, WorkerStep(w)
  PROVE  WaitOf(w)'
<1>0. /\ TypeOK /\ Past /\ WaitOf(w) /\ now \in Nat
      /\ Poll \in Nat /\ Poll <= PollGap /\ PollGap \in Nat
      /\ NetPeriod \in Nat /\ NetPeriod > 0 /\ NetRun \in Nat
  BY PollGapLemma, ConstantsAssumption
     DEF IInv, Waits, WaitOf, TypeOK, AcceptedSettings, ConstantsAssumption
<1>9. /\ asked[w] \in Int /\ netsAt[w] \in Int /\ until[w] \in Nat
      /\ asked[w] <= now /\ netsAt[w] <= now
  BY <1>0 DEF TypeOK, Time, Never, Past
<1>1. CASE FindNothing(w)
  <2>1. asked'[w] = now /\ netsAt' = netsAt /\ now' = now
    BY <1>0, <1>1 DEF FindNothing, TypeOK
  <2>2. CASE Due(w) /\ Go(w, "nets")
    BY <1>0, <2>1, <2>2 DEF Go, TypeOK, WaitOf, Waiting, InNets
  <2>3. CASE ~Due(w) /\ EndPass(w)
    <3>1. netsAt[w] # Never /\ now - netsAt[w] < NetPeriod
      BY <1>0, <2>3 DEF Due, TypeOK, Time, Never
    <3>2. \/ loop'[w] = "ask"
          \/ loop'[w] \in Waiting /\ until'[w] = now + Poll
      BY <1>0, <2>3, EndPassLemma
    <3>3. IdleSince(w)' = now
      BY <1>0, <1>9, <2>1 DEF IdleSince
    <3> QED
      BY <1>0, <2>1, <3>1, <3>2, <3>3 DEF WaitOf, Waiting, InNets
  <2> QED
    BY <1>1, <2>2, <2>3 DEF FindNothing
<1>2. CASE EndNets(w)
  <2>1. asked' = asked /\ netsAt'[w] = now /\ now' = now /\ loop[w] = "nethooks" /\ EndPass(w)
    BY <1>0, <1>2 DEF EndNets, TypeOK, history
  <2>2. \/ loop'[w] = "ask"
        \/ loop'[w] \in Waiting /\ until'[w] = now + Poll /\ ran[w] = FALSE
    BY <1>0, <2>1, EndPassLemma
  <2>3. IdleSince(w)' = now
    BY <1>0, <1>9, <2>1 DEF IdleSince
  <2>4. ran[w] = FALSE => now <= asked[w] + NetRun
    BY <1>0, <1>9, <2>1 DEF WaitOf, InNets
  <2> QED
    BY <1>0, <2>1, <2>2, <2>3, <2>4 DEF WaitOf, Waiting, InNets, Never
<1>3. CASE SelectReturns(w)
  <2>1. CASE DriverPolls
    BY <1>0, <1>3, <2>1 DEF SelectReturns, Go, TypeOK, WaitOf, Waiting, InNets
  <2>2. CASE ~DriverPolls
    <3>1. PollGap = 2 * Poll
      BY <2>2 DEF PollGap
    <3>2. loop[w] = "listen" /\ until[w] <= now /\ loop'[w] = "sleep"
          /\ until'[w] = now + Poll /\ now' = now /\ asked' = asked /\ netsAt' = netsAt
      BY <1>0, <1>3, <2>2 DEF SelectReturns, Go, TypeOK, history
    <3>3. IdleSince(w)' = IdleSince(w) /\ IdleSince(w) \in Int
      BY <1>9, <3>2 DEF IdleSince
    <3>4. /\ until[w] <= IdleSince(w) + Poll /\ IdleSince(w) <= asked[w] + NetRun
          /\ netsAt[w] # Never /\ IdleSince(w) - netsAt[w] < NetPeriod
      BY <1>0, <3>2 DEF WaitOf, Waiting
    <3> QED
      BY <1>0, <1>9, <3>1, <3>2, <3>3, <3>4 DEF WaitOf, Waiting, InNets
  <2> QED
    BY <2>1, <2>2
<1>4. CASE StartAttempt(w) \/ FinishAttempt(w) \/ RecordDeath(w)
  <2>1. loop'[w] \in {"attempt", "ask"} \/ (loop'[w] = "nets" /\ ran'[w] = TRUE)
    BY <1>0, <1>4, AfterAttemptLemma
       DEF StartAttempt, FinishAttempt, RecordDeath, Go, TypeOK
  <2> QED
    BY <2>1 DEF WaitOf, Waiting, InNets
<1>5. CASE Claim(w) \/ ChildDies(w) \/ WakeUp(w) \/ Kill(w) \/ Restart(w)
  BY <1>0, <1>5 DEF Claim, ChildDies, WakeUp, Kill, Restart, Go, TypeOK,
     WaitOf, Waiting, InNets
<1>6. CASE StartNets(w)
  <2>1. /\ loop[w] = "nets" /\ loop'[w] = "scanned" /\ until'[w] = now + NetRun
        /\ UNCHANGED <<now, ran, netsAt, asked>>
    BY <1>0, <1>6 DEF StartNets, Go, TypeOK, history
  <2> QED
    BY <1>0, <2>1 DEF WaitOf, Waiting, InNets, ScannedAt
<1>7. CASE RunNets(w)
  <2>1. /\ loop[w] = "scanned" /\ loop'[w] = "nethooks"
        /\ UNCHANGED <<now, ran, until, netsAt, asked>>
    BY <1>0, <1>7 DEF RunNets, Go, TypeOK, history
  <2> QED
    BY <1>0, <2>1 DEF WaitOf, Waiting, InNets, ScannedAt
<1>8. CASE ConnectionBreaks(w)
  <2>1. /\ loop[w] = "listen" /\ loop'[w] = "cut" /\ until'[w] = now + Poll
        /\ UNCHANGED <<now, ran, netsAt, asked>>
    BY <1>0, <1>8 DEF ConnectionBreaks, Go, TypeOK, history
  <2>2. IdleSince(w)' = IdleSince(w) /\ IdleSince(w) \in Int
    BY <1>9, <2>1 DEF IdleSince
  <2>3. now <= until[w] /\ until[w] <= IdleSince(w) + Poll
    BY <1>0, <2>1 DEF WaitOf, Waiting
  <2> QED
    BY <1>0, <1>9, <2>1, <2>2, <2>3 DEF WaitOf, Waiting, InNets
<1> QED
  BY <1>1, <1>2, <1>3, <1>4, <1>5, <1>6, <1>7, <1>8 DEF WorkerStep

LEMMA WaitsStep ==
  ASSUME IInv, [Next]_vars
  PROVE  Waits'
<1> SUFFICES ASSUME NEW v \in Workers  PROVE WaitOf(v)'
  BY DEF Waits
<1>0. /\ TypeOK /\ WaitOf(v) /\ now \in Nat /\ until[v] \in Int /\ asked[v] \in Int
      /\ PollGap \in Nat /\ Poll \in Nat
      /\ NetRun \in Nat /\ IdleSince(v) \in Int
  BY PollGapLemma, ConstantsAssumption
     DEF IInv, Waits, WaitOf, IdleSince, TypeOK, Time, Never, AcceptedSettings,
         ConstantsAssumption
<1>1. CASE UNCHANGED <<loop, ran, until, netsAt, asked, now>>
  BY <1>0, <1>1 DEF WaitOf, IdleSince, ScannedAt
<1>2. ASSUME NEW w \in Workers, WorkerStep(w)
      PROVE  WaitOf(v)'
  <2>1. CASE v = w
    BY <1>2, <2>1, OwnWait
  <2>2. CASE v # w
    <3>1. now' = now
      BY <1>2 DEF WorkerStep, Claim, FindNothing, StartAttempt, FinishAttempt,
         ChildDies, RecordDeath, StartNets, RunNets, EndNets, SelectReturns,
         ConnectionBreaks, WakeUp, Kill, Restart
    <3> QED
      BY <1>0, <1>2, <2>2, <3>1, OthersStay DEF WaitOf, IdleSince, ScannedAt
  <2> QED
    BY <2>1, <2>2
<1>3. ASSUME NEW t \in Timeouts, Enqueue(t)
      PROVE  WaitOf(v)'
  <2>1. UNCHANGED <<loop, ran, netsAt, asked, now>>
        /\ (until'[v] = until[v] \/ (loop[v] = "listen" /\ until'[v] = now))
    BY <1>3 DEF Enqueue, history
  <2>2. IdleSince(v)' = IdleSince(v)
    BY <2>1 DEF IdleSince
  <2> QED
    BY <1>0, <2>1, <2>2 DEF WaitOf, ScannedAt, Waiting, InNets
<1>4. CASE Tick
  <2>1. loop[v] # "nets" /\ (loop[v] \in InNets \cup Waiting \cup {"cut"} => now < until[v])
    BY <1>4 DEF Tick, Busy
  <2>2. now' = now + 1 /\ UNCHANGED <<loop, ran, until, netsAt, asked>>
    BY <1>4 DEF Tick, history
  <2>3. IdleSince(v)' = IdleSince(v)
    BY <2>2 DEF IdleSince
  <2> QED
    BY <1>0, <2>1, <2>2, <2>3 DEF WaitOf, ScannedAt, Waiting, InNets
<1> QED
  BY <1>1, <1>2, <1>3, <1>4 DEF Next, vars, ProbeInBlock, EndBlock, history

-----------------------------------------------------------------------------
(***************************************************************************)
(* Retries: what a question or a pass of the nets settles.                 *)
(***************************************************************************)

(* A row lock that a step gives back leaves a trace: on the row, or in     *)
(* freed.                                                                  *)
LEMMA Released ==
  ASSUME IInv, [Next]_vars, ~Free, Free', Pending'
  PROVE  freed' = now \/ (row'.modified = now /\ row'.error = now)
<1>0. TypeOK /\ AttemptHolds /\ row \in Row /\ now \in Nat
  BY DEF IInv, TypeOK
<1>1. ASSUME NEW w \in Workers, WorkerStep(w)
      PROVE  freed' = now \/ (row'.modified = now /\ row'.error = now)
  <2>1. CASE FinishAttempt(w)
    BY <1>0, <2>1, ChargeLemma, CompleteLemma DEF FinishAttempt, Pending
  <2>2. CASE StartAttempt(w)
    BY <2>2 DEF StartAttempt, Free
  <2> QED
    BY <1>0, <1>1, <2>1, <2>2
       DEF WorkerStep, Claim, FindNothing, ChildDies, RecordDeath, StartNets, RunNets,
           EndNets, SelectReturns, ConnectionBreaks, WakeUp, Kill, Restart, Free
<1> QED
  BY <1>1 DEF Next, vars, Enqueue, ProbeInBlock, EndBlock, Tick, Free

(* What a step of somebody else, or of time, leaves of a settled row.      *)
LEMMA ServedFrame ==
  ASSUME IInv, [Next]_vars, NEW v \in Serving,
         HasAsked(v),
         asked'[v] = asked[v],
         Pending', Free', row'.errors < MaxErrors, freed' < asked'[v]
  PROVE  row'.modified >= asked'[v] - RetryWait
<1>0. /\ TypeOK /\ Past /\ Served /\ RetryWait \in Nat /\ v \in Workers
      /\ now \in Nat /\ row.modified \in Nat /\ asked[v] \in Int /\ freed \in Int
  BY ConstantsAssumption
     DEF IInv, TypeOK, Row, Time, Never, AcceptedSettings, ConstantsAssumption
<1>1. asked[v] <= now
  BY <1>0 DEF Past
<1>2. freed' = freed /\ row'.modified # now => Free
  BY <1>0, <1>1, Released
<1>3. CASE row'.modified = now
  BY <1>0, <1>1, <1>3
<1>4. CASE row'.modified # now
  <2>1. freed' = freed
    BY <1>0, <1>1, HistoryType
  <2>2. row' = row
    <3>1. RowStep /\ AttemptHolds
      BY RowSteps DEF IInv
    <3> QED
      BY <1>4, <3>1 DEF RowStep, Born, Stamped, Charged, Ended, Pending
  <2>3. Pending /\ Free /\ row.errors < MaxErrors /\ freed < asked[v]
    BY <1>2, <1>4, <2>1, <2>2 DEF Pending
  <2> QED
    BY <1>0, <2>2, <2>3 DEF Served
<1> QED
  BY <1>3, <1>4

LEMMA ServedStep ==
  ASSUME IInv, [Next]_vars
  PROVE  Served'
<1> SUFFICES ASSUME NEW v \in Serving,
                    HasAsked(v)',
                    Pending', Free', row'.errors < MaxErrors, freed' < asked'[v]
             PROVE  row'.modified >= asked'[v] - RetryWait
  BY DEF Served
<1> USE DEF HasAsked, InNets, Waiting
<1>0. TypeOK /\ Past /\ v \in Workers /\ now \in Nat /\ RetryWait \in Nat
      /\ row \in Row /\ freed \in Int
  BY ConstantsAssumption
     DEF IInv, TypeOK, AcceptedSettings, ConstantsAssumption, Time, Never
<1>1. CASE UNCHANGED <<loop, ran, asked>>
  BY <1>1, ServedFrame
<1>2. ASSUME NEW w \in Workers, WorkerStep(w)
      PROVE  row'.modified >= asked'[v] - RetryWait
  <2>1. CASE v # w
    BY <1>0, <1>2, <2>1, OthersStay, ServedFrame
  <2>2. CASE v = w
    <3>1. CASE FindNothing(v)
      <4>1. asked'[v] = now /\ row' = row /\ holder' = holder /\ ~(Claimable(v) /\ Free)
        BY <1>0, <3>1 DEF FindNothing, TypeOK
      <4>2. ~(row.error = Never \/ row.error < now - RetryWait)
        BY <4>1 DEF Claimable, Pending, Free
      <4>3. row.error \in Int /\ row.modified \in Nat /\ row.error <= row.modified
        BY <1>0 DEF Past, Row, Time, Never
      <4> QED
        BY <1>0, <4>1, <4>2, <4>3
    <3>2. CASE EndNets(v)
      <4>1. asked' = asked /\ loop[v] = "nethooks" /\ EndPass(v)
        BY <3>2 DEF EndNets, history
      <4>2. ran[v] = FALSE
        BY <1>0, <4>1, EndPassLemma DEF Waiting
      <4> QED
        BY <4>1, <4>2, ServedFrame
    <3>3. CASE SelectReturns(v) \/ StartNets(v) \/ RunNets(v)
      <4>1. HasAsked(v) /\ asked' = asked
        BY <1>0, <3>3 DEF SelectReturns, StartNets, RunNets, Go, TypeOK, history
      <4> QED
        BY <4>1, ServedFrame
    <3>4. CASE StartAttempt(v) \/ FinishAttempt(v) \/ RecordDeath(v)
      BY <1>0, <3>4, AfterAttemptLemma
         DEF StartAttempt, FinishAttempt, RecordDeath, Go, TypeOK, Waiting
    <3> QED
      BY <1>0, <1>2, <2>2, <3>1, <3>2, <3>3, <3>4
         DEF WorkerStep, Claim, ChildDies, ConnectionBreaks, WakeUp, Kill, Restart,
             Go, TypeOK, Waiting
  <2> QED
    BY <2>1, <2>2
<1> QED
  BY <1>1, <1>2 DEF Next, vars, Enqueue, ProbeInBlock, EndBlock, Tick, history

(* A charge that was due before t stays made.                              *)
LEMMA WatchedFrame ==
  ASSUME IInv, [Next]_vars, NEW t \in Int, t <= now, WatchedSince(t)
  PROVE  WatchedSince(t)'
<1> SUFFICES ASSUME Pending', Free', row'.started # Never, row'.timeout # Never,
                    row'.started + row'.timeout < t, row'.error < row'.started
             PROVE  freed' >= t
  BY DEF WatchedSince
<1>0. /\ TypeOK /\ TypeOK' /\ Past /\ AttemptHolds /\ RowStep
      /\ now \in Nat /\ row \in Row /\ row' \in Row /\ freed \in Int
  BY TypeStep, RowSteps DEF IInv, TypeOK, Time, Never
<1>1. /\ row.started \in Int /\ row.timeout \in Int /\ row.error \in Int /\ row.modified \in Nat
      /\ row'.started \in Int /\ row'.timeout \in Int
  BY <1>0 DEF Row, Time, Never
<1>2. row.started <= now
  BY <1>0, <1>1 DEF Past
<1>3. row'.error # now
  BY <1>0, <1>1, <1>2 DEF RowStep, Born, Stamped, Charged, Ended, SameTimes, Past
<1>4. row' = row
  BY <1>0, <1>3 DEF RowStep, Born, Stamped, Charged, Ended, Pending, Past
<1>5. freed' = now \/ (freed' = freed /\ Free)
  <2>1. freed' = now \/ freed' = freed
    BY <1>0, HistoryType
  <2> QED
    BY <1>3, <2>1, Released
<1>6. freed' = freed /\ Free => freed >= t
  BY <1>4 DEF WatchedSince, Pending
<1> QED
  BY <1>0, <1>5, <1>6

LEMMA WatchedStep ==
  ASSUME IInv, [Next]_vars
  PROVE  Watched'
<1> SUFFICES ASSUME NEW v \in Workers
             PROVE  /\ WatchedSince(netsAt[v] - NetRun)'
                    /\ loop'[v] = "nethooks" => WatchedSince(ScannedAt(v))'
  BY DEF Watched
<1>0. /\ TypeOK /\ TypeOK' /\ Past /\ WaitOf(v) /\ NetRun \in Nat
      /\ now \in Nat /\ row \in Row /\ until[v] \in Nat /\ freed \in Int
      /\ netsAt[v] \in Int /\ netsAt[v] <= now
  BY TypeStep, ConstantsAssumption
     DEF IInv, TypeOK, Time, Never, Past, Waits, AcceptedSettings, ConstantsAssumption
<1>1. WatchedSince(netsAt[v] - NetRun) /\ (loop[v] = "nethooks" => WatchedSince(ScannedAt(v)))
  BY DEF IInv, Watched
<1>2. ASSUME NEW t \in Int, t <= now, WatchedSince(t)
      PROVE  WatchedSince(t)'
  BY <1>2, WatchedFrame
<1>3. ASSUME netsAt'[v] = netsAt[v]
      PROVE  WatchedSince(netsAt[v] - NetRun)'
  <2>1. PICK t \in Int : t = netsAt[v] - NetRun
    BY <1>0
  <2>2. WatchedSince(t)'
    BY <1>0, <1>1, <1>2, <2>1
  <2> QED
    BY <1>3, <2>1, <2>2 DEF WatchedSince
<1>4. ASSUME netsAt'[v] = Never
      PROVE  WatchedSince(netsAt[v] - NetRun)'
  BY <1>0, <1>4 DEF WatchedSince, TypeOK, Row, Time, Never
<1>5. ASSUME loop[v] = "nethooks", until'[v] = until[v]
      PROVE  WatchedSince(ScannedAt(v))'
  <2>1. PICK t \in Int : t = ScannedAt(v)
    BY <1>0 DEF ScannedAt
  <2>2. t <= now
    BY <1>0, <1>5, <2>1 DEF WaitOf, InNets
  <2>3. WatchedSince(t)'
    BY <1>1, <1>2, <1>5, <2>1, <2>2
  <2> QED
    BY <1>5, <2>1, <2>3 DEF WatchedSince, ScannedAt
<1>6. ASSUME RunNets(v)
      PROVE  WatchedSince(ScannedAt(v))'
  <2> DEFINE t == ScannedAt(v)
  <2>1. PICK m \in {row, Charge(row)} :
          /\ m = row => ~(Abandoned /\ row.started + row.timeout < ScannedAt(v))
          /\ row' = IF Pending /\ Free THEN CompleteAtMax(m) ELSE m
    BY <1>6 DEF RunNets
  <2>2. /\ loop[v] = "scanned" /\ until' = until /\ now' = now /\ netsAt' = netsAt
        /\ holder' = holder
    BY <1>6 DEF RunNets
  <2>3. t \in Int /\ t <= now /\ t = ScannedAt(v)'
    BY <1>0, <2>2 DEF ScannedAt, WaitOf, InNets
  <2>4. SUFFICES ASSUME Pending', Free', row'.started # Never, row'.timeout # Never,
                        row'.started + row'.timeout < t, row'.error < row'.started
                 PROVE  FALSE
    <3> HIDE DEF t
    <3> QED  BY <2>3 DEF WatchedSince
  <2>5. Free
    BY <2>2, <2>4 DEF Free
  <2>6. row.started \in Int /\ row.timeout \in Int /\ row.started <= now
    BY <1>0 DEF Past, Row, Time, Never
  <2>7. m = row
    <3>1. CASE m = Charge(row)
      <4>1. row'.error = now /\ row'.started = row.started
        BY <1>0, <2>1, <2>4, <2>5, <3>1, ChargeLemma, CompleteLemma DEF Pending
      <4> QED
        BY <1>0, <2>4, <2>6, <4>1
    <3> QED
      BY <2>1, <3>1
  <2>8. row' = row
    BY <1>0, <2>1, <2>4, <2>7, CompleteLemma DEF Pending
  <2>9. Abandoned
    BY <1>0, <2>3, <2>4, <2>5, <2>6, <2>8 DEF Abandoned, Pending
  <2> QED
    BY <2>1, <2>4, <2>7, <2>8, <2>9
<1>7. ASSUME EndNets(v)
      PROVE  /\ WatchedSince(netsAt[v] - NetRun)'
             /\ loop'[v] # "nethooks"
  <2>1. /\ loop[v] = "nethooks" /\ now' = now /\ netsAt'[v] = now /\ EndPass(v)
        /\ row' = row /\ holder' = holder /\ freed' = freed
    BY <1>0, <1>7 DEF EndNets, TypeOK, history
  <2>2. loop'[v] # "nethooks"
    BY <1>0, <2>1, EndPassLemma DEF Waiting
  <2>3. now - NetRun <= ScannedAt(v) /\ ScannedAt(v) \in Int
    BY <1>0, <2>1 DEF ScannedAt, WaitOf, InNets
  <2>4. WatchedSince(ScannedAt(v))
    BY <1>1, <2>1
  <2>5. row.started \in Int /\ row.timeout \in Int
    BY <1>0 DEF Row, Time, Never
  <2> QED
    BY <1>0, <2>1, <2>2, <2>3, <2>4, <2>5 DEF WatchedSince, Pending, Free
<1>8. ASSUME NEW w \in Workers, WorkerStep(w)
      PROVE  /\ WatchedSince(netsAt[v] - NetRun)'
             /\ loop'[v] = "nethooks" => WatchedSince(ScannedAt(v))'
  <2>1. CASE w # v
    BY <1>0, <1>3, <1>5, <1>8, <2>1, OthersStay
  <2>2. CASE w = v
    <3>1. CASE RunNets(v)
      BY <1>3, <1>6, <3>1 DEF RunNets
    <3>2. CASE EndNets(v)
      BY <1>7, <3>2
    <3>3. ASSUME ~RunNets(v), ~EndNets(v)
          PROVE  netsAt'[v] \in {netsAt[v], Never} /\ loop'[v] # "nethooks"
      <4>1. CASE FindNothing(v)
        BY <1>0, <4>1, EndPassLemma DEF FindNothing, Go, TypeOK, Waiting
      <4>2. CASE StartAttempt(v) \/ FinishAttempt(v) \/ RecordDeath(v)
        BY <1>0, <4>2, AfterAttemptLemma
           DEF StartAttempt, FinishAttempt, RecordDeath, Go, TypeOK
      <4> QED
        BY <1>0, <1>8, <2>2, <3>3, <4>1, <4>2
           DEF WorkerStep, Claim, ChildDies, StartNets, SelectReturns,
               ConnectionBreaks, WakeUp, Kill, Restart, Go, TypeOK
    <3> QED
      BY <1>3, <1>4, <3>1, <3>2, <3>3
  <2> QED
    BY <2>1, <2>2
<1>9. ASSUME UNCHANGED <<loop, netsAt>>, loop[v] = "nethooks" => until'[v] = until[v]
      PROVE  /\ WatchedSince(netsAt[v] - NetRun)'
             /\ loop'[v] = "nethooks" => WatchedSince(ScannedAt(v))'
  BY <1>3, <1>5, <1>9
<1>10. ASSUME NEW t \in Timeouts, Enqueue(t)
       PROVE  UNCHANGED <<loop, netsAt>> /\ (loop[v] = "nethooks" => until'[v] = until[v])
  BY <1>10 DEF Enqueue
<1> QED
  BY <1>8, <1>9, <1>10 DEF Next, vars, ProbeInBlock, EndBlock, Tick

-----------------------------------------------------------------------------
(***************************************************************************)
(* The invariant, and what it says of the gate.                            *)
(***************************************************************************)

(* Types, row locks, times, waits and settled rows, together.              *)
THEOREM Invariant == Spec => []IInv
<1>1. Init => IInv
  <2> SUFFICES ASSUME Init  PROVE IInv
    OBVIOUS
  <2>1. TypeOK
    BY DEF Init, TypeOK, Row, Time, Never, Places, Busy
  <2>2. ~Pending /\ \A w \in Workers : loop[w] = "ask"
    BY DEF Init, Pending
  <2>3. AttemptHolds /\ Waits /\ Served /\ Watched
    BY <2>2 DEF AttemptHolds, Waits, WaitOf, Served, HasAsked, Watched, WatchedSince,
                InNets, Waiting
  <2>4. Past
    BY DEF Init, Past, Never
  <2> QED
    BY <2>1, <2>3, <2>4 DEF IInv
<1>2. IInv /\ [Next]_vars => IInv'
  BY TypeStep, AttemptStep, PastStep, WaitsStep, ServedStep, WatchedStep DEF IInv
<1> QED
  BY <1>1, <1>2, PTL DEF Spec

(* Every reachable state is well typed.                                    *)
THEOREM TypeCorrect == Spec => []TypeOK
<1>1. IInv => TypeOK
  BY DEF IInv
<1> QED
  BY <1>1, Invariant, PTL

(* pull.py:20-22: whatever becomes of a notification, an idle worker asks  *)
(* the database within the poll gap of its last nets or its last question, *)
(* and one whose connection broke leaves the wait within two polls.        *)
THEOREM PollFloor == Spec => []AskedInTime
<1>1. ASSUME IInv, NEW w \in Workers
      PROVE  /\ loop[w] \in Waiting => now - IdleSince(w) <= PollGap
             /\ loop[w] = "cut" => now - IdleSince(w) <= 2 * Poll
  <2>1. WaitOf(w)
    BY <1>1 DEF IInv, Waits
  <2>2. now \in Int /\ until[w] \in Int /\ IdleSince(w) \in Int
    BY <1>1 DEF IInv, TypeOK, IdleSince, Time, Never
  <2> QED
    BY <2>1, <2>2, PollGapLemma DEF WaitOf
<1>2. IInv => AskedInTime
  BY <1>1 DEF AskedInTime
<1> QED
  BY <1>2, Invariant, PTL

(* retry_status: a held attempt is retrying, for every clock and window.   *)
THEOREM SlowIsNotLost == Spec => []HeldIsRetrying
<1>1. IInv => HeldIsRetrying
  BY ConstantsAssumption
     DEF IInv, AttemptHolds, HeldIsRetrying, RetryStatus, WorkerHoldsRow,
            AcceptedSettings, ConstantsAssumption
<1> QED
  BY <1>1, Invariant, PTL

(* retry_status: STRANDED is never the answer for a row with retries left  *)
(* that an idle worker of its queue could see when it asked.               *)
THEOREM StrandedIsUnserved == Spec => []ServedIsRetried
<1>1. ASSUME IInv  PROVE ServedIsRetried
  <2> SUFFICES ASSUME NEW w \in Serving, NEW c \in Callers,
                      loop[w] \in Waiting, Free, row.errors < MaxErrors,
                      RetryStatus(c) = "stranded", ~(freed >= asked[w])
               PROVE  FALSE
    BY DEF ServedIsRetried
  <2>1. /\ w \in Workers /\ Ahead[c] \in Nat /\ RetryWait \in Nat /\ now \in Nat
        /\ row.modified \in Nat /\ row.started \in Int /\ row.started <= row.modified
        /\ asked[w] \in Int /\ until[w] \in Int /\ freed \in Int
        /\ netsAt[w] \in Int /\ NetRun \in Nat
    BY <1>1, ConstantsAssumption
       DEF IInv, TypeOK, Past, Row, Time, Never, AcceptedSettings, ConstantsAssumption
  <2>2. Pending /\ now + Ahead[c] - row.modified > Window
    <3>1. Pending /\ ~InWindow(c)
      BY DEF RetryStatus
    <3>2. Newest = row.modified
      BY <2>1 DEF Newest
    <3> QED
      BY <2>1, <3>1, <3>2, WindowLemma DEF InWindow, Clock
  <2>3. row.modified >= asked[w] - RetryWait
    BY <1>1, <2>1, <2>2 DEF IInv, Served, HasAsked
  <2>4. now <= asked[w] + NetRun + PollGap
    <3>1. now <= until[w] /\ until[w] <= IdleSince(w) + PollGap /\ IdleSince(w) <= asked[w] + NetRun
      BY <1>1, <2>1 DEF IInv, Waits, WaitOf
    <3> QED
      BY <2>1, <3>1, PollGapLemma DEF IdleSince
  <2> QED
    BY <2>1, <2>2, <2>3, <2>4, WindowLemma, PollGapLemma
<1> QED
  BY <1>1, Invariant, PTL

(* RETRY_SLACK: the gate gives up on an abandoned attempt only after the   *)
(* nets of every idle worker had the chance to charge it.                  *)
THEOREM SlackCoversNets == Spec => []WatchdogFirst
<1>1. ASSUME IInv  PROVE WatchdogFirst
  <2> SUFFICES ASSUME NEW w \in Workers, NEW c \in Callers,
                      loop[w] \in Waiting, Abandoned,
                      RetryStatus(c) = "stranded", ~(freed >= netsAt[w] - NetRun)
               PROVE  FALSE
    BY DEF WatchdogFirst
  <2>1. /\ Ahead[c] \in Nat /\ Slack \in Nat /\ NetPeriod \in Nat /\ now \in Nat
        /\ row.started \in Int /\ row.timeout \in Int
        /\ netsAt[w] \in Int /\ asked[w] \in Int /\ until[w] \in Int /\ NetRun \in Nat
    BY <1>1, ConstantsAssumption
       DEF IInv, TypeOK, Row, Time, Never, AcceptedSettings, ConstantsAssumption
  <2>2. ~(row.started + row.timeout < netsAt[w] - NetRun)
    BY <1>1 DEF IInv, Watched, WatchedSince, Abandoned
  <2>3. now + Ahead[c] >= row.started + row.timeout + Slack
    BY <2>1 DEF RetryStatus, InBudget, Clock, Abandoned
  <2>4. now < netsAt[w] + NetPeriod + PollGap
    <3>1. /\ now <= until[w] /\ until[w] <= IdleSince(w) + PollGap
          /\ IdleSince(w) - netsAt[w] < NetPeriod
      BY <1>1, <2>1 DEF IInv, Waits, WaitOf
    <3> QED
      BY <2>1, <3>1, PollGapLemma DEF IdleSince
  <2>5. NetPeriod + PollGap + NetRun + Ahead[c] <= Slack
    BY TimingAssumption DEF TimingAssumption
  <2> QED
    BY <2>1, <2>2, <2>3, <2>4, <2>5, PollGapLemma
<1> QED
  BY <1>1, Invariant, PTL
=============================================================================
