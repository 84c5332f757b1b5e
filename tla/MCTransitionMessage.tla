------------------------- MODULE MCTransitionMessage -------------------------
(***************************************************************************)
(* Instances of TransitionMessage for TLC.                                 *)
(***************************************************************************)
EXTENDS TransitionMessage, TLC

(***************************************************************************)
(* One process: approve marks the instance while it runs and may be timed; *)
(* publish runs straight from its sources; remind is a BackgroundAction.   *)
(***************************************************************************)
ProcessStates == {"draft", "approving", "approved", "rejected", "live"}

ApproveOnly == {"approve"}
AllTransitions == {"approve", "publish", "remind"}

SourcesOf(T) ==
  [t \in T |-> CASE t = "approve" -> {"draft", "approving", "rejected", "live"}
                 [] t = "publish" -> {"approved"}
                 [] t = "remind"  -> {"approved", "live"}]

InProgressOf(T) == [t \in T |-> IF t = "approve" THEN "approving" ELSE NoState]

TargetOf(T) ==
  [t \in T |-> CASE t = "approve" -> "approved"
                 [] t = "publish" -> "live"
                 [] t = "remind"  -> NoState]

FailedStateOf(T) == [t \in T |-> IF t = "publish" THEN NoState ELSE "rejected"]

McSources == SourcesOf(Transitions)
McInProgress == InProgressOf(Transitions)
McTarget == TargetOf(Transitions)
McFailedState == FailedStateOf(Transitions)

(* Two queues when there is more than one worker to serve them. *)
McQueue == [t \in Transitions |-> IF t = "remind" THEN "slow" ELSE "fast"]
BothQueues == [w \in Workers |-> {"fast", "slow"}]

WorkerSymmetry == Permutations(Workers)
ActorSymmetry == WorkerSymmetry \cup Permutations(Instances)
=============================================================================
