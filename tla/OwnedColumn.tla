----------------------------- MODULE OwnedColumn -----------------------------
(***************************************************************************)
(* What everybody may assume of the state column of one instance and one   *)
(* process, with no locks, no blocks, no callers and no workers: either    *)
(* nobody owns the column and foreground runs move it from their sources,  *)
(* or one background transition owns it from its acceptance to its end.    *)
(*                                                                         *)
(* StateLock shows it of the gate with the worker reduced to a few steps,  *)
(* TransitionMessage of the workers with the enqueue reduced to one step:  *)
(* each of the two stands in for the environment that the other one needs. *)
(***************************************************************************)
CONSTANTS
  Transitions,
  Kind,            \* Kind[t]: "sync", "action" or "background"
  Sources, InProgress, Target, FailedState,
  ExternalStates,  \* what other writers may put in the column
  InitialState, NoState, NoTransition

VARIABLES
  owner,  \* the background transition that owns the column
  field   \* the persisted state

columnVars == <<owner, field>>

OfKind(k) == {t \in Transitions : Kind[t] = k}

Init == owner = NoTransition /\ field = InitialState

(* A background transition takes the column over from one of its sources. *)
Accept(t) ==
  /\ owner = NoTransition
  /\ field \in Sources[t]
  /\ owner' = t
  /\ field' = IF InProgress[t] = NoState THEN field ELSE InProgress[t]

(* It gives the column back, with a state of its own or as it found it. *)
GiveBack ==
  /\ owner # NoTransition
  /\ owner' = NoTransition
  /\ field' \in {field, Target[owner], FailedState[owner]} \ {NoState}

(* A synchronous transition moves an unowned column from its source. *)
Run(t) ==
  /\ owner = NoTransition
  /\ field \in Sources[t]
  /\ field' \in {Target[t], FailedState[t]} \ {NoState}
  /\ UNCHANGED owner

(* A failed Action marks an unowned column, whatever it holds by now. *)
Mark(t) ==
  /\ owner = NoTransition
  /\ FailedState[t] # NoState
  /\ field' = FailedState[t]
  /\ UNCHANGED owner

(* Another writer asks nobody. *)
Overwrite(s) == field' = s /\ UNCHANGED owner

Next ==
  \/ \E t \in OfKind("background") : Accept(t)
  \/ GiveBack
  \/ \E t \in OfKind("sync") : Run(t)
  \/ \E t \in OfKind("action") : Mark(t)
  \/ \E s \in ExternalStates : Overwrite(s)

Spec == Init /\ [][Next]_columnVars
=============================================================================
