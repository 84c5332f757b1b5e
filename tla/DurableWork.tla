----------------------------- MODULE DurableWork -----------------------------
(***************************************************************************)
(* What a background transition promises its caller, with no workers, no   *)
(* locks, no errors and no retries: accepted work ends exactly once, and   *)
(* the state column changes in the same step as the work ends.             *)
(***************************************************************************)
EXTENDS Naturals

CONSTANTS
  Rows,            \* pieces of work, numbered in the order of acceptance
  Instances, Transitions, States,
  Sources, InProgress, Target, FailedState,
  ExternalStates, InitialState, NoState, NoWork

VARIABLES
  work,   \* work[r]: NoWork, or what was accepted and how it ended
  field   \* the persisted state of each instance

promiseVars == <<work, field>>

Ended == {"done", "failed", "superseded"}

Init ==
  /\ work = [r \in Rows |-> NoWork]
  /\ field = [i \in Instances |-> InitialState]

Accepted(r) == work[r] # NoWork
Open(r) == Accepted(r) /\ work[r].status = "pending"

(* Work is accepted from a source state, one piece at a time. *)
Accept(r, i, t) ==
  /\ ~Accepted(r)
  /\ \A q \in Rows : q < r => Accepted(q)
  /\ \A q \in Rows : Open(q) => work[q].inst # i
  /\ field[i] \in Sources[t]
  /\ work' = [work EXCEPT ![r] = [status |-> "pending", inst |-> i, tr |-> t]]
  /\ field' = [field EXCEPT ![i] = IF InProgress[t] = NoState THEN @ ELSE InProgress[t]]

(* Work is where it was accepted: nothing else moved the instance. *)
InPlace(r) ==
  LET t == work[r].tr IN
  IF InProgress[t] = NoState
  THEN field[work[r].inst] \in Sources[t]
  ELSE field[work[r].inst] = InProgress[t]

EndAs(r, status) ==
  /\ Open(r)
  /\ work' = [work EXCEPT ![r].status = status]

(* All of the work, and its target state. *)
Done(r) ==
  /\ EndAs(r, "done")
  /\ field' = [field EXCEPT ![work[r].inst] =
                 IF Target[work[r].tr] = NoState THEN @ ELSE Target[work[r].tr]]

(* None of the work; the failed state where it could be written. *)
Failed(r) ==
  /\ EndAs(r, "failed")
  /\ \/ UNCHANGED field
     \/ /\ FailedState[work[r].tr] # NoState
        /\ field' = [field EXCEPT ![work[r].inst] = FailedState[work[r].tr]]

(* None of the work and no write, because something else moved the instance. *)
Superseded(r) ==
  /\ EndAs(r, "superseded")
  /\ ~InPlace(r)
  /\ UNCHANGED field

Finish(r) == Done(r) \/ Failed(r) \/ Superseded(r)

(* Ended work may be forgotten, but not the newest failure of an instance. *)
LastFailure(r) ==
  /\ work[r].status = "failed"
  /\ \A q \in Rows :
       Accepted(q) /\ work[q].status = "failed" /\ work[q].inst = work[r].inst
         => q <= r

Forget(S) ==
  /\ \A r \in S : Accepted(r) /\ work[r].status \in Ended /\ ~LastFailure(r)
  /\ work' = [r \in Rows |-> IF r \in S THEN [work[r] EXCEPT !.status = "deleted"]
                                       ELSE work[r]]
  /\ UNCHANGED field

Move(i, s) ==
  /\ field' = [field EXCEPT ![i] = s]
  /\ UNCHANGED work

Next ==
  \/ \E r \in Rows, i \in Instances, t \in Transitions : Accept(r, i, t)
  \/ \E r \in Rows : Finish(r)
  \/ \E S \in SUBSET Rows : Forget(S)
  \/ \E i \in Instances, s \in ExternalStates : Move(i, s)

(* The promise: accepted work always ends. *)
Spec == Init /\ [][Next]_promiseVars /\ \A r \in Rows : WF_promiseVars(Finish(r))
=============================================================================
