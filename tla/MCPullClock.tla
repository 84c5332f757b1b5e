----------------------------- MODULE MCPullClock -----------------------------
(***************************************************************************)
(* Instances of PullClock for TLC: w1 serves the queue of the row and may  *)
(* be killed, w2 serves another queue and only runs the nets.              *)
(***************************************************************************)
EXTENDS PullClock, TLC

McTimeouts == {Never, 3}
McAhead == [c \in Callers |-> 0]

(* What the next steps and the invariants can still see of a state: times  *)
(* as ages, and only the ages that something can still ask for.            *)
Cap == 10
AgeUpTo(cap, t) ==
  IF t = Never THEN Never ELSE IF now - t > cap THEN cap ELSE now - t
Age(t) == AgeUpTo(Cap, t)
ClockView ==
  << IF Pending
     THEN [row EXCEPT !.started = Age(@), !.error = AgeUpTo(RetryWait + 1, @),
                      !.modified = AgeUpTo(Window + 1, @)]
     ELSE row.status,
     row.error < row.started, holder, loop, ran,
     [w \in Workers |->
        IF loop[w] \in InNets \cup Waiting \cup {"cut"} THEN until[w] - now ELSE 0],
     [w \in Workers |-> Age(netsAt[w])],
     [w \in Workers |->
        IF loop[w] \in InNets \cup Waiting \cup {"cut"} THEN Age(asked[w]) ELSE 0],
     IF Pending THEN Age(freed) ELSE 0 >>
=============================================================================
