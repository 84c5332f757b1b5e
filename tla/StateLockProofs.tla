--------------------------- MODULE StateLockProofs ---------------------------
(***************************************************************************)
(* Theorems about the gate, for any number of callers and any transitions. *)
(* What a result needs of the project is its hypothesis: nothing that runs *)
(* may outlive its lock, and what the rest of a guarantee costs depends on *)
(* what callers do inside open atomic blocks.                              *)
(***************************************************************************)
EXTENDS StateLock, TLAPS

(* The places where a caller holds the lock or has left it behind. *)
Holding == Places \ {"idle", "acting", "ended"}

(* The runs that may write the column from where they are. *)
Cleared == {"running", "failing", "deferred"}

(* LOCK_TIMEOUT is long enough, and blocks only hold what is deferred. *)
Exclusive ==
  /\ ~RunsOutliveLock
  /\ InAtomic # {} => DeferUnlock
  /\ \A t \in InAtomic : Kind[t] # "background"

(* An enqueue inside a block marks its instance, and the synchronous       *)
(* writes there keep the lock: what a row needs to start from its source.  *)
Admitting ==
  /\ ~RunsOutliveLock
  /\ InAtomic # {} => DeferUnlock
  /\ \A t \in InAtomic : Kind[t] = "background" => InProgress[t] # NoState

(* Every enqueue marks its instance, or no lock is given up before the     *)
(* write under it commits: what a worker needs to own the column.          *)
Owning ==
  /\ ~RunsOutliveLock
  /\ InAtomic # {} =>
       DeferUnlock \/ \A t \in Transitions : Kind[t] = "background" => InProgress[t] # NoState
  /\ \A t \in InAtomic : Kind[t] # "background"

(* Every BackgroundTransition marks its instance with a state that no     *)
(* synchronous transition starts from.  No validator of the code asks for *)
(* either: the gate reads the state before it asks for a row, and a run   *)
(* from a marked state would get past both while the row completes.       *)
Marked ==
  \A b \in Transitions : Kind[b] = "background" =>
    /\ InProgress[b] # NoState
    /\ \A t \in Transitions : Kind[t] = "sync" => InProgress[b] \notin Sources[t]

(* The key in the cache is the key of the one caller at a place that needs it. *)
HolderInv == \A c \in Callers : lock = c <=> pc[c] \in Holding

(* Uncommitted writes only while the lock is held for them. *)
BlockInv ==
  \A c \in Callers :
    /\ block[c] => op[c] \in InAtomic
    /\ pc[c] = "deferred" <=> wrote[c] # NoState

(* Which kind of transition is where, and that an attempt has a row. *)
KindInv ==
  /\ \A c \in Callers :
       /\ pc[c] = "running" => Kind[op[c]] = "sync"
       /\ pc[c] \in {"locked", "checked"} => Kind[op[c]] # "action"
       /\ pc[c] \in {"acting", "probing", "failing"} => Kind[op[c]] = "action"
  /\ attempt => row # NoTransition

(* An INSERT is open only between the INSERT and its commit. *)
EnqueueInv ==
  \A c \in Callers :
    /\ made[c] # NoTransition <=> pc[c] \in {"inserted", "rechecked"}
    /\ pc[c] \in {"inserted", "rechecked"} =>
         made[c] = op[c] /\ Kind[op[c]] = "background" /\ row = NoTransition
    /\ pc[c] = "rechecked" => field \in Sources[op[c]]

(* Past the gate there is no row, and a row is a background one. *)
RowInv ==
  /\ \A c \in Callers : pc[c] \in Cleared => row = NoTransition
  /\ row # NoTransition => Kind[row] = "background"

GateInv == TypeOK /\ HolderInv /\ BlockInv /\ KindInv /\ EnqueueInv /\ RowInv

(* A pending row holds its instance at a state no synchronous run starts   *)
(* from, so that what a run has read under the lock stays true until its   *)
(* write is committed.                                                     *)
SourceInv ==
  /\ row # NoTransition => field = InProgress[row]
  /\ \A c \in Callers :
       pc[c] \in {"checked", "running", "deferred"} /\ Kind[op[c]] = "sync" =>
         field \in Sources[op[c]]

(* What is uncommitted belongs to an open block, one of it at a time; an   *)
(* open enqueue keeps its instance on one of its sources, by its lock and  *)
(* then by its own write, for which everybody else waits.                  *)
AdmitInv ==
  \A c \in Callers :
    /\ block[c] => op[c] \in InAtomic
    /\ pc[c] \in {"idle", "gone"} => ~block[c]
    /\ wrote[c] # NoState =>
         /\ block[c]
         /\ \/ pc[c] = "deferred"
            \/ made[c] # NoTransition /\ pc[c] \in {"release", "delete", "ended"}
    /\ pc[c] \in {"inserted", "rechecked"} => made[c] # NoTransition
    /\ made[c] # NoTransition =>
         /\ made[c] = op[c] /\ Kind[op[c]] = "background" /\ row = NoTransition
         /\ pc[c] \in {"inserted", "rechecked", "release", "delete", "ended"}
         /\ pc[c] # "inserted" => field \in Sources[op[c]]
         /\ pc[c] \in {"release", "delete", "ended"} => wrote[c] # NoState
    /\ \A d \in Callers \ {c} :
         /\ wrote[c] = NoState \/ wrote[d] = NoState
         /\ made[c] = NoTransition \/ made[d] = NoTransition

(* No write is on its way to the column of a committed row.                *)
OwnInv ==
  /\ \A c \in Callers :
       /\ block[c] => op[c] \in InAtomic
       /\ pc[c] \in {"idle", "gone"} => ~block[c]
       /\ wrote[c] # NoState => block[c] /\ (DeferUnlock => pc[c] = "deferred")
       /\ made[c] # NoTransition => pc[c] \in {"inserted", "rechecked"}
       /\ pc[c] \in {"inserted", "rechecked"} =>
            Kind[op[c]] = "background" /\ row = NoTransition
  /\ row # NoTransition =>
       \A c \in Callers : wrote[c] = NoState /\ pc[c] \notin {"running", "failing"}

-----------------------------------------------------------------------------
(* A step of any actor keeps the types: a synchronous run has a target, and *)
(* an attempt has a row to take its target from.                           *)
LEMMA TypeStep ==
  ASSUME TypeOK, KindInv, [Next]_vars
  PROVE  TypeOK'
<1> USE ConstantsAssumption, TransitionAssumption
    DEF Declarable, TypeOK, Places, Go, KindInv
<1>1. ASSUME NEW c \in Callers, NEW t \in Transitions, Acquire(c, t) PROVE TypeOK'
  BY <1>1 DEF Acquire, Begin, LockFree
<1>2. ASSUME NEW c \in Callers, NEW t \in Transitions, Act(c, t) PROVE TypeOK'
  BY <1>2 DEF Act, Begin
<1>3. ASSUME NEW c \in Callers, CheckSource(c) PROVE TypeOK'
  BY <1>3 DEF CheckSource, OnlyMoves
<1>4. ASSUME NEW c \in Callers, CheckRow(c) PROVE TypeOK'
  BY <1>4 DEF CheckRow, OnlyMoves
<1>5. ASSUME NEW c \in Callers, InsertRow(c) PROVE TypeOK'
  BY <1>5 DEF InsertRow
<1>6. ASSUME NEW c \in Callers, Recheck(c) PROVE TypeOK'
  BY <1>6 DEF Recheck
<1>7. ASSUME NEW c \in Callers, Mark(c) PROVE TypeOK'
  BY <1>7 DEF Mark, Write
<1>8. ASSUME NEW c \in Callers, MarkRejected(c) PROVE TypeOK'
  BY <1>8 DEF MarkRejected
<1>9. ASSUME NEW c \in Callers, Complete(c) PROVE TypeOK'
  BY <1>9 DEF Complete, Write, Released
<1>10. ASSUME NEW c \in Callers, NothingWritten(c) PROVE TypeOK'
  BY <1>10 DEF NothingWritten, Released, OnlyMoves
<1>11. ASSUME NEW c \in Callers, WriteFailedState(c) PROVE TypeOK'
  BY <1>11 DEF WriteFailedState, Write, Released
<1>12. ASSUME NEW c \in Callers, ActionEnds(c) PROVE TypeOK'
  BY <1>12 DEF ActionEnds, AfterRun, OnlyMoves
<1>13. ASSUME NEW c \in Callers, ActionFails(c) PROVE TypeOK'
  BY <1>13 DEF ActionFails, LockFree
<1>14. ASSUME NEW c \in Callers, Probe(c) PROVE TypeOK'
  BY <1>14 DEF Probe, OnlyMoves
<1>15. ASSUME NEW c \in Callers, CompareToken(c) PROVE TypeOK'
  BY <1>15 DEF CompareToken, AfterRun, OnlyMoves
<1>16. ASSUME NEW c \in Callers, DeleteKey(c) PROVE TypeOK'
  BY <1>16 DEF DeleteKey, AfterRun
<1>17. ASSUME NEW c \in Callers, Commit(c) PROVE TypeOK'
  BY <1>17 DEF Commit, CloseBlock
<1>18. ASSUME NEW c \in Callers, Rollback(c) PROVE TypeOK'
  BY <1>18 DEF Rollback, CloseBlock, Left
<1>19. ASSUME NEW c \in Callers, Crash(c) PROVE TypeOK'
  BY <1>19 DEF Crash, CloseBlock, Left
<1>20. ASSUME NEW c \in Callers, Expire(c) PROVE TypeOK'
  BY <1>20 DEF Expire
<1>21. ASSUME BeginAttempt PROVE TypeOK'
  BY <1>21 DEF BeginAttempt
<1>22. ASSUME EndRow PROVE TypeOK'
  BY <1>22 DEF EndRow
<1>23. ASSUME RetryAttempt PROVE TypeOK'
  BY <1>23 DEF RetryAttempt
<1>24. ASSUME EndAttempt PROVE TypeOK'
  <2>1. row \in Transitions
    BY <1>24 DEF EndAttempt
  <2>2. field' \in States
    BY <1>24, <2>1 DEF EndAttempt
  <2> QED  BY <1>24, <2>2 DEF EndAttempt
<1>25. CASE UNCHANGED vars
  BY <1>25 DEF vars
<1> QED
  BY <1>1, <1>2, <1>3, <1>4, <1>5, <1>6, <1>7, <1>8, <1>9, <1>10, <1>11, <1>12, <1>13,
     <1>14, <1>15, <1>16, <1>17, <1>18, <1>19, <1>20, <1>21, <1>22, <1>23, <1>24, <1>25
  DEF Next, CallStep

(* Only a synchronous Transition passes the gate, only an Action probes. *)
LEMMA KindStep ==
  ASSUME TypeOK, KindInv, [Next]_vars
  PROVE  KindInv'
<1> USE ConstantsAssumption DEF TypeOK, Go, KindInv
<1>1. ASSUME NEW c \in Callers, NEW t \in Transitions, Acquire(c, t) PROVE KindInv'
  BY <1>1 DEF Acquire, Begin, LockFree
<1>2. ASSUME NEW c \in Callers, NEW t \in Transitions, Act(c, t) PROVE KindInv'
  BY <1>2 DEF Act, Begin
<1>3. ASSUME NEW c \in Callers, CheckSource(c) PROVE KindInv'
  BY <1>3 DEF CheckSource, OnlyMoves
<1>4. ASSUME NEW c \in Callers, CheckRow(c) PROVE KindInv'
  BY <1>4 DEF CheckRow, OnlyMoves
<1>5. ASSUME NEW c \in Callers, InsertRow(c) PROVE KindInv'
  BY <1>5 DEF InsertRow
<1>6. ASSUME NEW c \in Callers, Recheck(c) PROVE KindInv'
  BY <1>6 DEF Recheck
<1>7. ASSUME NEW c \in Callers, Mark(c) PROVE KindInv'
  BY <1>7 DEF Mark, Write
<1>8. ASSUME NEW c \in Callers, MarkRejected(c) PROVE KindInv'
  BY <1>8 DEF MarkRejected
<1>9. ASSUME NEW c \in Callers, Complete(c) PROVE KindInv'
  BY <1>9 DEF Complete, Write, Released
<1>10. ASSUME NEW c \in Callers, NothingWritten(c) PROVE KindInv'
  BY <1>10 DEF NothingWritten, Released, OnlyMoves
<1>11. ASSUME NEW c \in Callers, WriteFailedState(c) PROVE KindInv'
  BY <1>11 DEF WriteFailedState, Write, Released
<1>12. ASSUME NEW c \in Callers, ActionEnds(c) PROVE KindInv'
  BY <1>12 DEF ActionEnds, AfterRun, OnlyMoves
<1>13. ASSUME NEW c \in Callers, ActionFails(c) PROVE KindInv'
  BY <1>13 DEF ActionFails, LockFree
<1>14. ASSUME NEW c \in Callers, Probe(c) PROVE KindInv'
  BY <1>14 DEF Probe, OnlyMoves
<1>15. ASSUME NEW c \in Callers, CompareToken(c) PROVE KindInv'
  BY <1>15 DEF CompareToken, AfterRun, OnlyMoves
<1>16. ASSUME NEW c \in Callers, DeleteKey(c) PROVE KindInv'
  BY <1>16 DEF DeleteKey, AfterRun
<1>17. ASSUME NEW c \in Callers, Commit(c) PROVE KindInv'
  BY <1>17 DEF Commit, CloseBlock
<1>18. ASSUME NEW c \in Callers, Rollback(c) PROVE KindInv'
  BY <1>18 DEF Rollback, CloseBlock, Left
<1>19. ASSUME NEW c \in Callers, Crash(c) PROVE KindInv'
  BY <1>19 DEF Crash, CloseBlock, Left
<1>20. ASSUME NEW c \in Callers, Expire(c) PROVE KindInv'
  BY <1>20 DEF Expire
<1>21. ASSUME BeginAttempt PROVE KindInv'
  BY <1>21 DEF BeginAttempt
<1>22. ASSUME EndRow PROVE KindInv'
  BY <1>22 DEF EndRow
<1>23. ASSUME RetryAttempt PROVE KindInv'
  BY <1>23 DEF RetryAttempt
<1>24. ASSUME EndAttempt PROVE KindInv'
  BY <1>24 DEF EndAttempt
<1>25. CASE UNCHANGED vars
  BY <1>25 DEF vars
<1> QED
  BY <1>1, <1>2, <1>3, <1>4, <1>5, <1>6, <1>7, <1>8, <1>9, <1>10, <1>11, <1>12, <1>13,
     <1>14, <1>15, <1>16, <1>17, <1>18, <1>19, <1>20, <1>21, <1>22, <1>23, <1>24, <1>25
  DEF Next, CallStep

(* The lock changes hands only through cache.add, unlock and expiry. *)
LEMMA HolderStep ==
  ASSUME ~RunsOutliveLock, TypeOK, HolderInv, [Next]_vars
  PROVE  HolderInv'
<1> USE ConstantsAssumption
    DEF TypeOK, Places, Go, Holding, HolderInv
<1>1. ASSUME NEW c \in Callers, NEW t \in Transitions, Acquire(c, t) PROVE HolderInv'
  BY <1>1 DEF Acquire, Begin, LockFree
<1>2. ASSUME NEW c \in Callers, NEW t \in Transitions, Act(c, t) PROVE HolderInv'
  BY <1>2 DEF Act, Begin
<1>3. ASSUME NEW c \in Callers, CheckSource(c) PROVE HolderInv'
  BY <1>3 DEF CheckSource, OnlyMoves
<1>4. ASSUME NEW c \in Callers, CheckRow(c) PROVE HolderInv'
  BY <1>4 DEF CheckRow, OnlyMoves
<1>5. ASSUME NEW c \in Callers, InsertRow(c) PROVE HolderInv'
  BY <1>5 DEF InsertRow
<1>6. ASSUME NEW c \in Callers, Recheck(c) PROVE HolderInv'
  BY <1>6 DEF Recheck
<1>7. ASSUME NEW c \in Callers, Mark(c) PROVE HolderInv'
  BY <1>7 DEF Mark, Write
<1>8. ASSUME NEW c \in Callers, MarkRejected(c) PROVE HolderInv'
  BY <1>8 DEF MarkRejected
<1>9. ASSUME NEW c \in Callers, Complete(c) PROVE HolderInv'
  BY <1>9 DEF Complete, Write, Released
<1>10. ASSUME NEW c \in Callers, NothingWritten(c) PROVE HolderInv'
  BY <1>10 DEF NothingWritten, Released, OnlyMoves
<1>11. ASSUME NEW c \in Callers, WriteFailedState(c) PROVE HolderInv'
  BY <1>11 DEF WriteFailedState, Write, Released
<1>12. ASSUME NEW c \in Callers, ActionEnds(c) PROVE HolderInv'
  BY <1>12 DEF ActionEnds, AfterRun, OnlyMoves
<1>13. ASSUME NEW c \in Callers, ActionFails(c) PROVE HolderInv'
  BY <1>13 DEF ActionFails, LockFree
<1>14. ASSUME NEW c \in Callers, Probe(c) PROVE HolderInv'
  BY <1>14 DEF Probe, OnlyMoves
<1>15. ASSUME NEW c \in Callers, CompareToken(c) PROVE HolderInv'
  BY <1>15 DEF CompareToken, AfterRun, OnlyMoves
<1>16. ASSUME NEW c \in Callers, DeleteKey(c) PROVE HolderInv'
  BY <1>16 DEF DeleteKey, AfterRun
<1>17. ASSUME NEW c \in Callers, Commit(c) PROVE HolderInv'
  BY <1>17 DEF Commit, CloseBlock
<1>18. ASSUME NEW c \in Callers, Rollback(c) PROVE HolderInv'
  BY <1>18 DEF Rollback, CloseBlock, Left
<1>19. ASSUME NEW c \in Callers, Crash(c) PROVE HolderInv'
  BY <1>19 DEF Crash, CloseBlock, Left
<1>20. ASSUME NEW c \in Callers, Expire(c) PROVE HolderInv'
  BY <1>20 DEF Expire
<1>21. ASSUME BeginAttempt PROVE HolderInv'
  BY <1>21 DEF BeginAttempt
<1>22. ASSUME EndRow PROVE HolderInv'
  BY <1>22 DEF EndRow
<1>23. ASSUME RetryAttempt PROVE HolderInv'
  BY <1>23 DEF RetryAttempt
<1>24. ASSUME EndAttempt PROVE HolderInv'
  BY <1>24 DEF EndAttempt
<1>25. CASE UNCHANGED vars
  BY <1>25 DEF vars
<1> QED
  BY <1>1, <1>2, <1>3, <1>4, <1>5, <1>6, <1>7, <1>8, <1>9, <1>10, <1>11, <1>12, <1>13,
     <1>14, <1>15, <1>16, <1>17, <1>18, <1>19, <1>20, <1>21, <1>22, <1>23, <1>24, <1>25
  DEF Next, CallStep

(* A state write made in an open block keeps the lock until the commit. *)
LEMMA BlockStep ==
  ASSUME Exclusive, TypeOK, KindInv, BlockInv, [Next]_vars
  PROVE  BlockInv'
<1> USE TransitionAssumption DEF Declarable, TypeOK, Go, Exclusive, KindInv, BlockInv
<1>1. ASSUME NEW c \in Callers, NEW t \in Transitions, Acquire(c, t) PROVE BlockInv'
  BY <1>1 DEF Acquire, Begin, LockFree
<1>2. ASSUME NEW c \in Callers, NEW t \in Transitions, Act(c, t) PROVE BlockInv'
  BY <1>2 DEF Act, Begin
<1>3. ASSUME NEW c \in Callers, CheckSource(c) PROVE BlockInv'
  BY <1>3 DEF CheckSource, OnlyMoves
<1>4. ASSUME NEW c \in Callers, CheckRow(c) PROVE BlockInv'
  BY <1>4 DEF CheckRow, OnlyMoves
<1>5. ASSUME NEW c \in Callers, InsertRow(c) PROVE BlockInv'
  BY <1>5 DEF InsertRow
<1>6. ASSUME NEW c \in Callers, Recheck(c) PROVE BlockInv'
  BY <1>6 DEF Recheck
<1>7. ASSUME NEW c \in Callers, Mark(c) PROVE BlockInv'
  BY <1>7 DEF Mark, Write
<1>8. ASSUME NEW c \in Callers, MarkRejected(c) PROVE BlockInv'
  BY <1>8 DEF MarkRejected
<1>9. ASSUME NEW c \in Callers, Complete(c) PROVE BlockInv'
  BY <1>9 DEF Complete, Write, Released
<1>10. ASSUME NEW c \in Callers, NothingWritten(c) PROVE BlockInv'
  BY <1>10 DEF NothingWritten, Released, OnlyMoves
<1>11. ASSUME NEW c \in Callers, WriteFailedState(c) PROVE BlockInv'
  BY <1>11 DEF WriteFailedState, Write, Released
<1>12. ASSUME NEW c \in Callers, ActionEnds(c) PROVE BlockInv'
  BY <1>12 DEF ActionEnds, AfterRun, OnlyMoves
<1>13. ASSUME NEW c \in Callers, ActionFails(c) PROVE BlockInv'
  BY <1>13 DEF ActionFails, LockFree
<1>14. ASSUME NEW c \in Callers, Probe(c) PROVE BlockInv'
  BY <1>14 DEF Probe, OnlyMoves
<1>15. ASSUME NEW c \in Callers, CompareToken(c) PROVE BlockInv'
  BY <1>15 DEF CompareToken, AfterRun, OnlyMoves
<1>16. ASSUME NEW c \in Callers, DeleteKey(c) PROVE BlockInv'
  BY <1>16 DEF DeleteKey, AfterRun
<1>17. ASSUME NEW c \in Callers, Commit(c) PROVE BlockInv'
  BY <1>17 DEF Commit, CloseBlock
<1>18. ASSUME NEW c \in Callers, Rollback(c) PROVE BlockInv'
  BY <1>18 DEF Rollback, CloseBlock, Left
<1>19. ASSUME NEW c \in Callers, Crash(c) PROVE BlockInv'
  BY <1>19 DEF Crash, CloseBlock, Left
<1>20. ASSUME NEW c \in Callers, Expire(c) PROVE BlockInv'
  BY <1>20 DEF Expire
<1>21. ASSUME BeginAttempt PROVE BlockInv'
  BY <1>21 DEF BeginAttempt
<1>22. ASSUME EndRow PROVE BlockInv'
  BY <1>22 DEF EndRow
<1>23. ASSUME RetryAttempt PROVE BlockInv'
  BY <1>23 DEF RetryAttempt
<1>24. ASSUME EndAttempt PROVE BlockInv'
  BY <1>24 DEF EndAttempt
<1>25. CASE UNCHANGED vars
  BY <1>25 DEF vars
<1> QED
  BY <1>1, <1>2, <1>3, <1>4, <1>5, <1>6, <1>7, <1>8, <1>9, <1>10, <1>11, <1>12, <1>13,
     <1>14, <1>15, <1>16, <1>17, <1>18, <1>19, <1>20, <1>21, <1>22, <1>23, <1>24, <1>25
  DEF Next, CallStep

(* Nobody commits a row or moves the column under an open enqueue. *)
LEMMA EnqueueStep ==
  ASSUME GateInv, Exclusive, [Next]_vars
  PROVE  EnqueueInv'
<1> USE ConstantsAssumption
    DEF TypeOK, Go, Exclusive, Holding, GateInv, HolderInv, BlockInv, KindInv,
        EnqueueInv
<1>1. ASSUME NEW c \in Callers, NEW t \in Transitions, Acquire(c, t) PROVE EnqueueInv'
  BY <1>1 DEF Acquire, Begin, LockFree
<1>2. ASSUME NEW c \in Callers, NEW t \in Transitions, Act(c, t) PROVE EnqueueInv'
  BY <1>2 DEF Act, Begin
<1>3. ASSUME NEW c \in Callers, CheckSource(c) PROVE EnqueueInv'
  BY <1>3 DEF CheckSource, OnlyMoves
<1>4. ASSUME NEW c \in Callers, CheckRow(c) PROVE EnqueueInv'
  BY <1>4 DEF CheckRow, OnlyMoves
<1>5. ASSUME NEW c \in Callers, InsertRow(c) PROVE EnqueueInv'
  BY <1>5 DEF InsertRow
<1>6. ASSUME NEW c \in Callers, Recheck(c) PROVE EnqueueInv'
  BY <1>6 DEF Recheck
<1>7. ASSUME NEW c \in Callers, Mark(c) PROVE EnqueueInv'
  BY <1>7 DEF Mark, Write
<1>8. ASSUME NEW c \in Callers, MarkRejected(c) PROVE EnqueueInv'
  BY <1>8 DEF MarkRejected
<1>9. ASSUME NEW c \in Callers, Complete(c) PROVE EnqueueInv'
  BY <1>9 DEF Complete, Write, Released
<1>10. ASSUME NEW c \in Callers, NothingWritten(c) PROVE EnqueueInv'
  BY <1>10 DEF NothingWritten, Released, OnlyMoves
<1>11. ASSUME NEW c \in Callers, WriteFailedState(c) PROVE EnqueueInv'
  BY <1>11 DEF WriteFailedState, Write, Released
<1>12. ASSUME NEW c \in Callers, ActionEnds(c) PROVE EnqueueInv'
  BY <1>12 DEF ActionEnds, AfterRun, OnlyMoves
<1>13. ASSUME NEW c \in Callers, ActionFails(c) PROVE EnqueueInv'
  BY <1>13 DEF ActionFails, LockFree
<1>14. ASSUME NEW c \in Callers, Probe(c) PROVE EnqueueInv'
  BY <1>14 DEF Probe, OnlyMoves
<1>15. ASSUME NEW c \in Callers, CompareToken(c) PROVE EnqueueInv'
  BY <1>15 DEF CompareToken, AfterRun, OnlyMoves
<1>16. ASSUME NEW c \in Callers, DeleteKey(c) PROVE EnqueueInv'
  BY <1>16 DEF DeleteKey, AfterRun
<1>17. ASSUME NEW c \in Callers, Commit(c) PROVE EnqueueInv'
  BY <1>17 DEF Commit, CloseBlock
<1>18. ASSUME NEW c \in Callers, Rollback(c) PROVE EnqueueInv'
  BY <1>18 DEF Rollback, CloseBlock, Left
<1>19. ASSUME NEW c \in Callers, Crash(c) PROVE EnqueueInv'
  BY <1>19 DEF Crash, CloseBlock, Left
<1>20. ASSUME NEW c \in Callers, Expire(c) PROVE EnqueueInv'
  BY <1>20 DEF Expire
<1>21. ASSUME BeginAttempt PROVE EnqueueInv'
  BY <1>21 DEF BeginAttempt
<1>22. ASSUME EndRow PROVE EnqueueInv'
  BY <1>22 DEF EndRow
<1>23. ASSUME RetryAttempt PROVE EnqueueInv'
  BY <1>23 DEF RetryAttempt
<1>24. ASSUME EndAttempt PROVE EnqueueInv'
  BY <1>24 DEF EndAttempt
<1>25. CASE UNCHANGED vars
  BY <1>25 DEF vars
<1> QED
  BY <1>1, <1>2, <1>3, <1>4, <1>5, <1>6, <1>7, <1>8, <1>9, <1>10, <1>11, <1>12, <1>13,
     <1>14, <1>15, <1>16, <1>17, <1>18, <1>19, <1>20, <1>21, <1>22, <1>23, <1>24, <1>25
  DEF Next, CallStep

(* Nobody commits a row while a run is past the gate. *)
LEMMA RowStep ==
  ASSUME GateInv, [Next]_vars
  PROVE  RowInv'
<1> USE TransitionAssumption
    DEF Declarable, TypeOK, Go, Holding, Cleared, GateInv, HolderInv, EnqueueInv, RowInv
<1>1. ASSUME NEW c \in Callers, NEW t \in Transitions, Acquire(c, t) PROVE RowInv'
  BY <1>1 DEF Acquire, Begin, LockFree
<1>2. ASSUME NEW c \in Callers, NEW t \in Transitions, Act(c, t) PROVE RowInv'
  BY <1>2 DEF Act, Begin
<1>3. ASSUME NEW c \in Callers, CheckSource(c) PROVE RowInv'
  BY <1>3 DEF CheckSource, OnlyMoves
<1>4. ASSUME NEW c \in Callers, CheckRow(c) PROVE RowInv'
  BY <1>4 DEF CheckRow, OnlyMoves
<1>5. ASSUME NEW c \in Callers, InsertRow(c) PROVE RowInv'
  BY <1>5 DEF InsertRow
<1>6. ASSUME NEW c \in Callers, Recheck(c) PROVE RowInv'
  BY <1>6 DEF Recheck
<1>7. ASSUME NEW c \in Callers, Mark(c) PROVE RowInv'
  BY <1>7 DEF Mark, Write
<1>8. ASSUME NEW c \in Callers, MarkRejected(c) PROVE RowInv'
  BY <1>8 DEF MarkRejected
<1>9. ASSUME NEW c \in Callers, Complete(c) PROVE RowInv'
  BY <1>9 DEF Complete, Write, Released
<1>10. ASSUME NEW c \in Callers, NothingWritten(c) PROVE RowInv'
  BY <1>10 DEF NothingWritten, Released, OnlyMoves
<1>11. ASSUME NEW c \in Callers, WriteFailedState(c) PROVE RowInv'
  BY <1>11 DEF WriteFailedState, Write, Released
<1>12. ASSUME NEW c \in Callers, ActionEnds(c) PROVE RowInv'
  BY <1>12 DEF ActionEnds, AfterRun, OnlyMoves
<1>13. ASSUME NEW c \in Callers, ActionFails(c) PROVE RowInv'
  BY <1>13 DEF ActionFails, LockFree
<1>14. ASSUME NEW c \in Callers, Probe(c) PROVE RowInv'
  BY <1>14 DEF Probe, OnlyMoves
<1>15. ASSUME NEW c \in Callers, CompareToken(c) PROVE RowInv'
  BY <1>15 DEF CompareToken, AfterRun, OnlyMoves
<1>16. ASSUME NEW c \in Callers, DeleteKey(c) PROVE RowInv'
  BY <1>16 DEF DeleteKey, AfterRun
<1>17. ASSUME NEW c \in Callers, Commit(c) PROVE RowInv'
  BY <1>17 DEF Commit, CloseBlock
<1>18. ASSUME NEW c \in Callers, Rollback(c) PROVE RowInv'
  BY <1>18 DEF Rollback, CloseBlock, Left
<1>19. ASSUME NEW c \in Callers, Crash(c) PROVE RowInv'
  BY <1>19 DEF Crash, CloseBlock, Left
<1>20. ASSUME NEW c \in Callers, Expire(c) PROVE RowInv'
  BY <1>20 DEF Expire
<1>21. ASSUME BeginAttempt PROVE RowInv'
  BY <1>21 DEF BeginAttempt
<1>22. ASSUME EndRow PROVE RowInv'
  BY <1>22 DEF EndRow
<1>23. ASSUME RetryAttempt PROVE RowInv'
  BY <1>23 DEF RetryAttempt
<1>24. ASSUME EndAttempt PROVE RowInv'
  BY <1>24 DEF EndAttempt
<1>25. CASE UNCHANGED vars
  BY <1>25 DEF vars
<1> QED
  BY <1>1, <1>2, <1>3, <1>4, <1>5, <1>6, <1>7, <1>8, <1>9, <1>10, <1>11, <1>12, <1>13,
     <1>14, <1>15, <1>16, <1>17, <1>18, <1>19, <1>20, <1>21, <1>22, <1>23, <1>24, <1>25
  DEF Next, CallStep

(* Under marked transitions no step moves the column under a run. *)
LEMMA SourceStep ==
  ASSUME GateInv, Marked, SourceInv, [Next]_vars
  PROVE  SourceInv'
<1> USE TransitionAssumption
    DEF Declarable, TypeOK, Go, Marked, SourceInv, Holding, Cleared, GateInv, HolderInv,
        BlockInv, KindInv, EnqueueInv, RowInv
<1>1. ASSUME NEW c \in Callers, NEW t \in Transitions, Acquire(c, t) PROVE SourceInv'
  BY <1>1 DEF Acquire, Begin, LockFree
<1>2. ASSUME NEW c \in Callers, NEW t \in Transitions, Act(c, t) PROVE SourceInv'
  BY <1>2 DEF Act, Begin
<1>3. ASSUME NEW c \in Callers, CheckSource(c) PROVE SourceInv'
  BY <1>3 DEF CheckSource, OnlyMoves
<1>4. ASSUME NEW c \in Callers, CheckRow(c) PROVE SourceInv'
  BY <1>4 DEF CheckRow, OnlyMoves
<1>5. ASSUME NEW c \in Callers, InsertRow(c) PROVE SourceInv'
  BY <1>5 DEF InsertRow
<1>6. ASSUME NEW c \in Callers, Recheck(c) PROVE SourceInv'
  BY <1>6 DEF Recheck
<1>7. ASSUME NEW c \in Callers, Mark(c) PROVE SourceInv'
  BY <1>7 DEF Mark, Write
<1>8. ASSUME NEW c \in Callers, MarkRejected(c) PROVE SourceInv'
  BY <1>8 DEF MarkRejected
<1>9. ASSUME NEW c \in Callers, Complete(c) PROVE SourceInv'
  BY <1>9 DEF Complete, Write, Released
<1>10. ASSUME NEW c \in Callers, NothingWritten(c) PROVE SourceInv'
  BY <1>10 DEF NothingWritten, Released, OnlyMoves
<1>11. ASSUME NEW c \in Callers, WriteFailedState(c) PROVE SourceInv'
  BY <1>11 DEF WriteFailedState, Write, Released
<1>12. ASSUME NEW c \in Callers, ActionEnds(c) PROVE SourceInv'
  BY <1>12 DEF ActionEnds, AfterRun, OnlyMoves
<1>13. ASSUME NEW c \in Callers, ActionFails(c) PROVE SourceInv'
  BY <1>13 DEF ActionFails, LockFree
<1>14. ASSUME NEW c \in Callers, Probe(c) PROVE SourceInv'
  BY <1>14 DEF Probe, OnlyMoves
<1>15. ASSUME NEW c \in Callers, CompareToken(c) PROVE SourceInv'
  BY <1>15 DEF CompareToken, AfterRun, OnlyMoves
<1>16. ASSUME NEW c \in Callers, DeleteKey(c) PROVE SourceInv'
  BY <1>16 DEF DeleteKey, AfterRun
<1>17. ASSUME NEW c \in Callers, Commit(c) PROVE SourceInv'
  BY <1>17 DEF Commit, CloseBlock
<1>18. ASSUME NEW c \in Callers, Rollback(c) PROVE SourceInv'
  BY <1>18 DEF Rollback, CloseBlock, Left
<1>19. ASSUME NEW c \in Callers, Crash(c) PROVE SourceInv'
  BY <1>19 DEF Crash, CloseBlock, Left
<1>20. ASSUME NEW c \in Callers, Expire(c) PROVE SourceInv'
  BY <1>20 DEF Expire
<1>21. ASSUME BeginAttempt PROVE SourceInv'
  BY <1>21 DEF BeginAttempt
<1>22. ASSUME EndRow PROVE SourceInv'
  BY <1>22 DEF EndRow
<1>23. ASSUME RetryAttempt PROVE SourceInv'
  BY <1>23 DEF RetryAttempt
<1>24. ASSUME EndAttempt PROVE SourceInv'
  BY <1>24 DEF EndAttempt
<1>25. CASE UNCHANGED vars
  BY <1>25 DEF vars
<1> QED
  BY <1>1, <1>2, <1>3, <1>4, <1>5, <1>6, <1>7, <1>8, <1>9, <1>10, <1>11, <1>12, <1>13,
     <1>14, <1>15, <1>16, <1>17, <1>18, <1>19, <1>20, <1>21, <1>22, <1>23, <1>24, <1>25
  DEF Next, CallStep

(* What waits for a commit is the target or the failed_state of its run. *)
WriteInv ==
  \A c \in Callers : wrote[c] # NoState =>
    /\ block[c]
    /\ wrote[c] \in {Target[op[c]], FailedState[op[c]]}
    /\ Kind[op[c]] = "action" => wrote[c] = FailedState[op[c]]

(* A run writes once, and its block closes before the caller starts another. *)
LEMMA WriteStep ==
  ASSUME GateInv, Exclusive, WriteInv, [Next]_vars
  PROVE  WriteInv'
<1> USE DEF TypeOK, Go, Exclusive, GateInv, BlockInv, KindInv, EnqueueInv, WriteInv
<1>1. ASSUME NEW c \in Callers, NEW t \in Transitions, Acquire(c, t) \/ Act(c, t)
      PROVE  WriteInv'
  BY <1>1 DEF Acquire, Act, Begin
<1>2. ASSUME NEW c \in Callers, Mark(c) PROVE WriteInv'
  BY <1>2 DEF Mark, Write
<1>3. ASSUME NEW c \in Callers, Complete(c) PROVE WriteInv'
  BY <1>3 DEF Complete, Write
<1>4. ASSUME NEW c \in Callers, WriteFailedState(c) PROVE WriteInv'
  BY <1>4 DEF WriteFailedState, Write
<1>5. ASSUME NEW c \in Callers, CloseBlock(c), op' = op PROVE WriteInv'
  BY <1>5 DEF CloseBlock
<1>6. CASE UNCHANGED <<op, block, wrote>>
  BY <1>6
<1> QED
  BY <1>1, <1>2, <1>3, <1>4, <1>5, <1>6
  DEF Next, vars, CallStep, CheckSource, CheckRow, InsertRow, Recheck, MarkRejected,
      NothingWritten, ActionEnds, ActionFails, Probe, CompareToken, DeleteKey,
      Commit, Rollback, Crash, Expire, OnlyMoves,
      BeginAttempt, EndRow, RetryAttempt, EndAttempt

-----------------------------------------------------------------------------
(* The type invariant, for every value of the constants. *)
THEOREM TypeCorrect == Spec => []TypeOK
<1>1. Init => TypeOK /\ KindInv
  BY ConstantsAssumption DEF Init, TypeOK, KindInv, Places
<1>2. TypeOK /\ KindInv /\ [Next]_vars => (TypeOK /\ KindInv)'
  BY TypeStep, KindStep
<1> QED  BY <1>1, <1>2, PTL DEF Spec

(* A key is gone before its run is over, and only a write defers a release. *)
LEMMA AccountStep ==
  ASSUME TypeOK, KindInv, LockIsAccountedFor, [Next]_vars
  PROVE  LockIsAccountedFor'
<1> USE ConstantsAssumption, TransitionAssumption
    DEF Declarable, TypeOK, Places, Go, KindInv, LockIsAccountedFor
<1>1. ASSUME NEW c \in Callers, NEW t \in Transitions, Acquire(c, t) PROVE LockIsAccountedFor'
  BY <1>1 DEF Acquire, Begin, LockFree
<1>2. ASSUME NEW c \in Callers, NEW t \in Transitions, Act(c, t) PROVE LockIsAccountedFor'
  BY <1>2 DEF Act, Begin
<1>3. ASSUME NEW c \in Callers, CheckSource(c) PROVE LockIsAccountedFor'
  BY <1>3 DEF CheckSource, OnlyMoves
<1>4. ASSUME NEW c \in Callers, CheckRow(c) PROVE LockIsAccountedFor'
  BY <1>4 DEF CheckRow, OnlyMoves
<1>5. ASSUME NEW c \in Callers, InsertRow(c) PROVE LockIsAccountedFor'
  BY <1>5 DEF InsertRow
<1>6. ASSUME NEW c \in Callers, Recheck(c) PROVE LockIsAccountedFor'
  BY <1>6 DEF Recheck
<1>7. ASSUME NEW c \in Callers, Mark(c) PROVE LockIsAccountedFor'
  BY <1>7 DEF Mark, Write, ColumnFree
<1>8. ASSUME NEW c \in Callers, MarkRejected(c) PROVE LockIsAccountedFor'
  BY <1>8 DEF MarkRejected
<1>9. ASSUME NEW c \in Callers, Complete(c) PROVE LockIsAccountedFor'
  BY <1>9 DEF Complete, Write, ColumnFree, Released
<1>10. ASSUME NEW c \in Callers, NothingWritten(c) PROVE LockIsAccountedFor'
  BY <1>10 DEF NothingWritten, Released, OnlyMoves
<1>11. ASSUME NEW c \in Callers, WriteFailedState(c) PROVE LockIsAccountedFor'
  BY <1>11 DEF WriteFailedState, Write, ColumnFree, Released
<1>12. ASSUME NEW c \in Callers, ActionEnds(c) PROVE LockIsAccountedFor'
  BY <1>12 DEF ActionEnds, AfterRun, OnlyMoves
<1>13. ASSUME NEW c \in Callers, ActionFails(c) PROVE LockIsAccountedFor'
  BY <1>13 DEF ActionFails, LockFree
<1>14. ASSUME NEW c \in Callers, Probe(c) PROVE LockIsAccountedFor'
  BY <1>14 DEF Probe, OnlyMoves
<1>15. ASSUME NEW c \in Callers, CompareToken(c) PROVE LockIsAccountedFor'
  BY <1>15 DEF CompareToken, AfterRun, OnlyMoves
<1>16. ASSUME NEW c \in Callers, DeleteKey(c) PROVE LockIsAccountedFor'
  BY <1>16 DEF DeleteKey, AfterRun
<1>17. ASSUME NEW c \in Callers, Commit(c) PROVE LockIsAccountedFor'
  BY <1>17 DEF Commit, CloseBlock
<1>18. ASSUME NEW c \in Callers, Rollback(c) PROVE LockIsAccountedFor'
  BY <1>18 DEF Rollback, CloseBlock, Left
<1>19. ASSUME NEW c \in Callers, Crash(c) PROVE LockIsAccountedFor'
  BY <1>19 DEF Crash, CloseBlock, Left
<1>20. ASSUME NEW c \in Callers, Expire(c) PROVE LockIsAccountedFor'
  BY <1>20 DEF Expire
<1>21. ASSUME BeginAttempt PROVE LockIsAccountedFor'
  BY <1>21 DEF BeginAttempt
<1>22. ASSUME EndRow PROVE LockIsAccountedFor'
  BY <1>22 DEF EndRow
<1>23. ASSUME RetryAttempt PROVE LockIsAccountedFor'
  BY <1>23 DEF RetryAttempt
<1>24. ASSUME EndAttempt PROVE LockIsAccountedFor'
  BY <1>24 DEF EndAttempt
<1>25. CASE UNCHANGED vars
  BY <1>25 DEF vars
<1> QED
  BY <1>1, <1>2, <1>3, <1>4, <1>5, <1>6, <1>7, <1>8, <1>9, <1>10, <1>11, <1>12, <1>13,
     <1>14, <1>15, <1>16, <1>17, <1>18, <1>19, <1>20, <1>21, <1>22, <1>23, <1>24, <1>25
  DEF Next, CallStep

(* Nobody moves the column under an open enqueue, in a block or not. *)
LEMMA AdmitStep ==
  ASSUME Admitting, TypeOK, HolderInv, KindInv, AdmitInv, [Next]_vars
  PROVE  AdmitInv'
<1> USE ConstantsAssumption, TransitionAssumption
    DEF Declarable, TypeOK, Places, Go, Holding, Admitting, HolderInv, KindInv, AdmitInv
<1>1. ASSUME NEW c \in Callers, NEW t \in Transitions, Acquire(c, t) PROVE AdmitInv'
  BY <1>1 DEF Acquire, Begin, LockFree
<1>2. ASSUME NEW c \in Callers, NEW t \in Transitions, Act(c, t) PROVE AdmitInv'
  BY <1>2 DEF Act, Begin
<1>3. ASSUME NEW c \in Callers, CheckSource(c) PROVE AdmitInv'
  BY <1>3 DEF CheckSource, OnlyMoves
<1>4. ASSUME NEW c \in Callers, CheckRow(c) PROVE AdmitInv'
  BY <1>4 DEF CheckRow, OnlyMoves
<1>5. ASSUME NEW c \in Callers, InsertRow(c) PROVE AdmitInv'
  BY <1>5 DEF InsertRow
<1>6. ASSUME NEW c \in Callers, Recheck(c) PROVE AdmitInv'
  BY <1>6 DEF Recheck
<1>7. ASSUME NEW c \in Callers, Mark(c) PROVE AdmitInv'
  BY <1>7 DEF Mark, Write, ColumnFree
<1>8. ASSUME NEW c \in Callers, MarkRejected(c) PROVE AdmitInv'
  BY <1>8 DEF MarkRejected
<1>9. ASSUME NEW c \in Callers, Complete(c) PROVE AdmitInv'
  BY <1>9 DEF Complete, Write, ColumnFree, Released
<1>10. ASSUME NEW c \in Callers, NothingWritten(c) PROVE AdmitInv'
  BY <1>10 DEF NothingWritten, Released, OnlyMoves
<1>11. ASSUME NEW c \in Callers, WriteFailedState(c) PROVE AdmitInv'
  BY <1>11 DEF WriteFailedState, Write, ColumnFree, Released
<1>12. ASSUME NEW c \in Callers, ActionEnds(c) PROVE AdmitInv'
  BY <1>12 DEF ActionEnds, AfterRun, OnlyMoves
<1>13. ASSUME NEW c \in Callers, ActionFails(c) PROVE AdmitInv'
  BY <1>13 DEF ActionFails, LockFree
<1>14. ASSUME NEW c \in Callers, Probe(c) PROVE AdmitInv'
  BY <1>14 DEF Probe, OnlyMoves
<1>15. ASSUME NEW c \in Callers, CompareToken(c) PROVE AdmitInv'
  BY <1>15 DEF CompareToken, AfterRun, OnlyMoves
<1>16. ASSUME NEW c \in Callers, DeleteKey(c) PROVE AdmitInv'
  BY <1>16 DEF DeleteKey, AfterRun
<1>17. ASSUME NEW c \in Callers, Commit(c) PROVE AdmitInv'
  BY <1>17 DEF Commit, CloseBlock
<1>18. ASSUME NEW c \in Callers, Rollback(c) PROVE AdmitInv'
  BY <1>18 DEF Rollback, CloseBlock, Left
<1>19. ASSUME NEW c \in Callers, Crash(c) PROVE AdmitInv'
  BY <1>19 DEF Crash, CloseBlock, Left
<1>20. ASSUME NEW c \in Callers, Expire(c) PROVE AdmitInv'
  BY <1>20 DEF Expire
<1>21. ASSUME BeginAttempt PROVE AdmitInv'
  BY <1>21 DEF BeginAttempt
<1>22. ASSUME EndRow PROVE AdmitInv'
  BY <1>22 DEF EndRow
<1>23. ASSUME RetryAttempt PROVE AdmitInv'
  BY <1>23 DEF RetryAttempt
<1>24. ASSUME EndAttempt PROVE AdmitInv'
  BY <1>24 DEF EndAttempt
<1>25. CASE UNCHANGED vars
  BY <1>25 DEF vars
<1> QED
  BY <1>1, <1>2, <1>3, <1>4, <1>5, <1>6, <1>7, <1>8, <1>9, <1>10, <1>11, <1>12, <1>13,
     <1>14, <1>15, <1>16, <1>17, <1>18, <1>19, <1>20, <1>21, <1>22, <1>23, <1>24, <1>25
  DEF Next, CallStep

(* A row is committed when no write is open, and then nobody gets to write. *)
LEMMA OwnStep ==
  ASSUME Owning, TypeOK, HolderInv, KindInv, OwnInv, [Next]_vars
  PROVE  OwnInv'
<1> USE ConstantsAssumption, TransitionAssumption
    DEF Declarable, TypeOK, Places, Go, Holding, Owning, HolderInv, KindInv, OwnInv
<1>1. ASSUME NEW c \in Callers, NEW t \in Transitions, Acquire(c, t) PROVE OwnInv'
  BY <1>1 DEF Acquire, Begin, LockFree
<1>2. ASSUME NEW c \in Callers, NEW t \in Transitions, Act(c, t) PROVE OwnInv'
  BY <1>2 DEF Act, Begin
<1>3. ASSUME NEW c \in Callers, CheckSource(c) PROVE OwnInv'
  BY <1>3 DEF CheckSource, OnlyMoves
<1>4. ASSUME NEW c \in Callers, CheckRow(c) PROVE OwnInv'
  BY <1>4 DEF CheckRow, OnlyMoves
<1>5. ASSUME NEW c \in Callers, InsertRow(c) PROVE OwnInv'
  BY <1>5 DEF InsertRow
<1>6. ASSUME NEW c \in Callers, Recheck(c) PROVE OwnInv'
  BY <1>6 DEF Recheck
<1>7. ASSUME NEW c \in Callers, Mark(c) PROVE OwnInv'
  BY <1>7 DEF Mark, Write, ColumnFree
<1>8. ASSUME NEW c \in Callers, MarkRejected(c) PROVE OwnInv'
  BY <1>8 DEF MarkRejected
<1>9. ASSUME NEW c \in Callers, Complete(c) PROVE OwnInv'
  BY <1>9 DEF Complete, Write, ColumnFree, Released
<1>10. ASSUME NEW c \in Callers, NothingWritten(c) PROVE OwnInv'
  BY <1>10 DEF NothingWritten, Released, OnlyMoves
<1>11. ASSUME NEW c \in Callers, WriteFailedState(c) PROVE OwnInv'
  BY <1>11 DEF WriteFailedState, Write, ColumnFree, Released
<1>12. ASSUME NEW c \in Callers, ActionEnds(c) PROVE OwnInv'
  BY <1>12 DEF ActionEnds, AfterRun, OnlyMoves
<1>13. ASSUME NEW c \in Callers, ActionFails(c) PROVE OwnInv'
  BY <1>13 DEF ActionFails, LockFree
<1>14. ASSUME NEW c \in Callers, Probe(c) PROVE OwnInv'
  BY <1>14 DEF Probe, OnlyMoves
<1>15. ASSUME NEW c \in Callers, CompareToken(c) PROVE OwnInv'
  BY <1>15 DEF CompareToken, AfterRun, OnlyMoves
<1>16. ASSUME NEW c \in Callers, DeleteKey(c) PROVE OwnInv'
  BY <1>16 DEF DeleteKey, AfterRun
<1>17. ASSUME NEW c \in Callers, Commit(c) PROVE OwnInv'
  BY <1>17 DEF Commit, CloseBlock
<1>18. ASSUME NEW c \in Callers, Rollback(c) PROVE OwnInv'
  BY <1>18 DEF Rollback, CloseBlock, Left
<1>19. ASSUME NEW c \in Callers, Crash(c) PROVE OwnInv'
  BY <1>19 DEF Crash, CloseBlock, Left
<1>20. ASSUME NEW c \in Callers, Expire(c) PROVE OwnInv'
  BY <1>20 DEF Expire
<1>21. ASSUME BeginAttempt PROVE OwnInv'
  BY <1>21 DEF BeginAttempt
<1>22. ASSUME EndRow PROVE OwnInv'
  BY <1>22 DEF EndRow
<1>23. ASSUME RetryAttempt PROVE OwnInv'
  BY <1>23 DEF RetryAttempt
<1>24. ASSUME EndAttempt PROVE OwnInv'
  BY <1>24 DEF EndAttempt
<1>25. CASE UNCHANGED vars
  BY <1>25 DEF vars
<1> QED
  BY <1>1, <1>2, <1>3, <1>4, <1>5, <1>6, <1>7, <1>8, <1>9, <1>10, <1>11, <1>12, <1>13,
     <1>14, <1>15, <1>16, <1>17, <1>18, <1>19, <1>20, <1>21, <1>22, <1>23, <1>24, <1>25
  DEF Next, CallStep

(* The inductive invariant of the gate. *)
THEOREM GateInvariant ==
  ASSUME Exclusive
  PROVE  Spec => []GateInv
<1>1. Init => GateInv
  BY ConstantsAssumption, ZenonT(40)
  DEF Init, GateInv, TypeOK, Places, Holding, Cleared,
      HolderInv, BlockInv, KindInv, EnqueueInv, RowInv
<1>2. GateInv /\ [Next]_vars => GateInv'
  <2> SUFFICES ASSUME GateInv, [Next]_vars PROVE GateInv'
    OBVIOUS
  <2>1. TypeOK /\ HolderInv /\ BlockInv /\ KindInv /\ EnqueueInv
    BY DEF GateInv
  <2>2. TypeOK' /\ HolderInv' /\ BlockInv' /\ KindInv' /\ EnqueueInv' /\ RowInv'
    BY <2>1, TypeStep, HolderStep, BlockStep, KindStep, EnqueueStep, RowStep DEF Exclusive
  <2> QED  BY <2>2 DEF GateInv
<1> QED  BY <1>1, <1>2, PTL DEF Spec

(* The gate lets one racer through, whatever the transitions declare:      *)
(* README.md:1124, without expired locks and undeferred blocks.            *)
THEOREM OneWinner ==
  ASSUME Exclusive
  PROVE  Spec => []OneRacerWins
<1>1. GateInv => OneRacerWins
  BY DEF GateInv, TypeOK, HolderInv, BlockInv, EnqueueInv, RowInv, OneRacerWins,
         Running, Holding, Cleared, Places
<1> QED  BY <1>1, GateInvariant, PTL

(* The lock is neither leaked nor deferred for nothing, whatever outlives  *)
(* it and whatever callers do inside their blocks.                         *)
THEOREM LockAccounted == Spec => []LockIsAccountedFor
<1>1. Init => TypeOK /\ KindInv /\ LockIsAccountedFor
  BY ConstantsAssumption, ZenonT(40) DEF Init, TypeOK, KindInv, Places, LockIsAccountedFor
<1>2. TypeOK /\ KindInv /\ LockIsAccountedFor /\ [Next]_vars
        => (TypeOK /\ KindInv /\ LockIsAccountedFor)'
  BY TypeStep, KindStep, AccountStep
<1> QED  BY <1>1, <1>2, PTL DEF Spec

(* While a row is uncompleted only its worker moves the column, also when  *)
(* the lock of a write is given up before the write commits, if rows mark  *)
(* their instance.                                                         *)
THEOREM WorkerOwnsField ==
  ASSUME Owning
  PROVE  Spec => RowOwnsField
<1>1. TypeOK /\ KindInv /\ OwnInv /\ [Next]_vars =>
        [row # NoTransition /\ field' # field => row' = NoTransition]_vars
  <2> DEFINE Owned == row # NoTransition /\ field' # field => row' = NoTransition
  <2> SUFFICES ASSUME TypeOK, KindInv, OwnInv, [Next]_vars PROVE Owned
    OBVIOUS
  <2> USE ConstantsAssumption, TransitionAssumption
      DEF Declarable, TypeOK, Places, Go, KindInv, OwnInv
  <2>1. ASSUME NEW c \in Callers, Mark(c) PROVE Owned
    BY <2>1 DEF Mark
  <2>2. ASSUME NEW c \in Callers, Complete(c) PROVE Owned
    BY <2>2 DEF Complete
  <2>3. ASSUME NEW c \in Callers, WriteFailedState(c) PROVE Owned
    BY <2>3 DEF WriteFailedState
  <2>4. ASSUME NEW c \in Callers, Commit(c) PROVE Owned
    BY <2>4 DEF Commit
  <2>5. ASSUME EndAttempt PROVE Owned
    BY <2>5 DEF EndAttempt
  <2>6. CASE UNCHANGED field
    BY <2>6
  <2> QED
    BY <2>1, <2>2, <2>3, <2>4, <2>5, <2>6
    DEF Next, vars, CallStep, Acquire, Act, CheckSource, CheckRow, InsertRow, Recheck,
        MarkRejected, NothingWritten, ActionEnds, ActionFails, Probe, CompareToken,
        DeleteKey, Rollback, Crash, Expire, OnlyMoves,
        BeginAttempt, EndRow, RetryAttempt
<1>2. Init => TypeOK /\ HolderInv /\ KindInv /\ OwnInv
  BY ConstantsAssumption, ZenonT(40) DEF Init, TypeOK, Places, HolderInv, Holding, KindInv, OwnInv
<1>3. TypeOK /\ HolderInv /\ KindInv /\ OwnInv /\ [Next]_vars
        => (TypeOK /\ HolderInv /\ KindInv /\ OwnInv)'
  BY TypeStep, HolderStep, KindStep, OwnStep DEF Owning
<1> QED  BY <1>1, <1>2, <1>3, PTL DEF Spec, RowOwnsField

(* Every row is committed for an instance on one of its sources, also when *)
(* it is enqueued inside an open block, if it marks its instance.          *)
THEOREM EnqueueAdmits ==
  ASSUME Admitting
  PROVE  Spec => EnqueueFromSource
<1>1. TypeOK /\ KindInv /\ AdmitInv /\ [Next]_vars =>
        [row' \notin {row, NoTransition} => field \in Sources[row']]_vars
  <2> DEFINE Admitted == row' \notin {row, NoTransition} => field \in Sources[row']
  <2> SUFFICES ASSUME TypeOK, KindInv, AdmitInv, [Next]_vars PROVE Admitted
    OBVIOUS
  <2> USE ConstantsAssumption, TransitionAssumption
      DEF Declarable, TypeOK, Places, Go, KindInv, AdmitInv
  <2>1. ASSUME NEW c \in Callers, Mark(c) PROVE Admitted
    BY <2>1 DEF Mark
  <2>2. ASSUME NEW c \in Callers, Commit(c) PROVE Admitted
    BY <2>2 DEF Commit
  <2>3. ASSUME EndRow PROVE Admitted
    BY <2>3 DEF EndRow
  <2>4. ASSUME EndAttempt PROVE Admitted
    BY <2>4 DEF EndAttempt
  <2>5. CASE UNCHANGED row
    BY <2>5
  <2> QED
    BY <2>1, <2>2, <2>3, <2>4, <2>5
    DEF Next, vars, CallStep, Acquire, Act, CheckSource, CheckRow, InsertRow, Recheck,
        MarkRejected, NothingWritten, ActionEnds, ActionFails, Probe, CompareToken,
        DeleteKey, Rollback, Crash, Expire, OnlyMoves,
        Complete, WriteFailedState, BeginAttempt, RetryAttempt
<1>2. Init => TypeOK /\ HolderInv /\ KindInv /\ AdmitInv
  BY ConstantsAssumption, ZenonT(40) DEF Init, TypeOK, Places, HolderInv, Holding, KindInv, AdmitInv
<1>3. TypeOK /\ HolderInv /\ KindInv /\ AdmitInv /\ [Next]_vars
        => (TypeOK /\ HolderInv /\ KindInv /\ AdmitInv)'
  BY TypeStep, HolderStep, KindStep, AdmitStep DEF Admitting
<1> QED  BY <1>1, <1>2, <1>3, PTL DEF Spec, EnqueueFromSource

(* Where one key at a time leads to a write, nobody waits under it for the *)
(* block of another request, and no worker does.                           *)
THEOREM NoWaits ==
  ASSUME Exclusive
  PROVE  Spec => []NobodyWaits
<1>1. ASSUME GateInv PROVE NobodyWaits
  <2> USE <1>1 DEF GateInv, HolderInv, BlockInv, EnqueueInv, RowInv, KindInv, Holding, Places,
                   Cleared, TypeOK
  <2>1. ASSUME NEW c \in Callers, Waiting(c) PROVE FALSE
    <3>1. CASE pc[c] \in {"rechecked", "running", "failing"} /\ ~ColumnFree(c)
      BY <3>1 DEF ColumnFree
    <3>2. CASE /\ pc[c] = "checked"
               /\ \E d \in Callers : made[d] # NoTransition
      BY <3>2
    <3> QED  BY <2>1, <3>1, <3>2 DEF Waiting
  <2>2. attempt => \A c \in Callers : wrote[c] = NoState
    OBVIOUS
  <2> QED  BY <2>1, <2>2 DEF NobodyWaits
<1> QED  BY <1>1, GateInvariant, PTL DEF Spec

(* If no run outlives its lock, blocks hold only what is deferred, and     *)
(* background transitions mark their instances with states that are no     *)
(* synchronous source, what a run read under the lock stays true until it  *)
(* writes.                                                                 *)
THEOREM SourceKept ==
  ASSUME Exclusive, Marked
  PROVE  Spec => []RunKeepsSource
<1>1. Init => SourceInv
  BY DEF Init, SourceInv
<1>2. GateInv /\ SourceInv /\ [Next]_vars => SourceInv'
  BY SourceStep
<1>3. GateInv /\ SourceInv => RunKeepsSource
  BY DEF GateInv, KindInv, SourceInv, RunKeepsSource, Running
<1> QED  BY <1>1, <1>2, <1>3, GateInvariant, PTL DEF Spec

(* The gate implements a column with one owner at a time: every step of a  *)
(* caller, a block, a crash, an expiry or the worker is a step of          *)
(* OwnedColumn or one that OwnedColumn cannot see, under the hypotheses of *)
(* SourceKept.                                                             *)
THEOREM GateOwnsColumn ==
  ASSUME Exclusive, Marked
  PROVE  Spec => ColumnIsOwned
<1>1. Init => Column!Init
  BY DEF Init, Column!Init
<1>2. Init => SourceInv /\ WriteInv
  BY DEF Init, SourceInv, WriteInv
<1>3. GateInv /\ SourceInv /\ WriteInv /\ [Next]_vars => (SourceInv /\ WriteInv)'
  BY SourceStep, WriteStep
<1>4. GateInv /\ SourceInv /\ WriteInv /\ [Next]_vars
        => [Column!Next]_(Column!columnVars)
  <2> SUFFICES ASSUME GateInv, SourceInv, WriteInv, [Next]_vars,
                      ~UNCHANGED <<row, field>>
               PROVE  Column!Next
    BY DEF Column!columnVars
  <2> USE ConstantsAssumption, TransitionAssumption
      DEF Declarable, TypeOK, Places, Go, GateInv, Column!OfKind
  <2>1. ASSUME NEW c \in Callers, Mark(c) PROVE Column!Next
    <3>1. /\ op[c] \in Column!OfKind("background") /\ ~block[c]
          /\ row = NoTransition /\ field \in Sources[op[c]]
      BY <2>1 DEF Mark, EnqueueInv, BlockInv, Exclusive
    <3>2. Column!Accept(op[c])
      BY <2>1, <3>1 DEF Mark, Write, Column!Accept
    <3> QED  BY <3>1, <3>2 DEF Column!Next
  <2>2. ASSUME NEW c \in Callers, Complete(c) PROVE Column!Next
    <3>1. /\ op[c] \in Column!OfKind("sync") /\ row = NoTransition
          /\ field \in Sources[op[c]] /\ Target[op[c]] # NoState
      BY <2>2 DEF Complete, KindInv, RowInv, Cleared, SourceInv
    <3>2. Column!Run(op[c])
      BY <2>2, <3>1 DEF Complete, Write, Column!Run
    <3> QED  BY <3>1, <3>2 DEF Column!Next
  <2>3. ASSUME NEW c \in Callers, WriteFailedState(c) PROVE Column!Next
    <3>1. row = NoTransition /\ FailedState[op[c]] # NoState
      BY <2>3 DEF WriteFailedState, RowInv, Cleared
    <3>2. /\ field' = FailedState[op[c]] /\ UNCHANGED row
      BY <2>3 DEF WriteFailedState, Write
    <3>3. CASE pc[c] = "running"
      <4>1. op[c] \in Column!OfKind("sync") /\ field \in Sources[op[c]]
        BY <3>3 DEF KindInv, SourceInv
      <4>2. Column!Run(op[c])
        BY <3>1, <3>2, <4>1 DEF Column!Run
      <4> QED  BY <4>1, <4>2 DEF Column!Next
    <3>4. CASE pc[c] = "failing"
      <4>1. op[c] \in Column!OfKind("action")
        BY <3>4 DEF KindInv
      <4>2. Column!Mark(op[c])
        BY <3>1, <3>2 DEF Column!Mark
      <4> QED  BY <4>1, <4>2 DEF Column!Next
    <3> QED  BY <2>3, <3>3, <3>4 DEF WriteFailedState
  <2>4. ASSUME NEW c \in Callers, Commit(c) PROVE Column!Next
    <3>1. made[c] = NoTransition /\ wrote[c] # NoState /\ pc[c] = "deferred"
      BY <2>4 DEF Commit, EnqueueInv, BlockInv
    <3>2. UNCHANGED row /\ field' = wrote[c] /\ row = NoTransition
      BY <2>4, <3>1 DEF Commit, RowInv, Cleared
    <3>3. op[c] \in Transitions /\ Kind[op[c]] \in {"sync", "action"}
      BY <3>1 DEF WriteInv, BlockInv, Exclusive
    <3>4. CASE Kind[op[c]] = "sync"
      <4>1. field \in Sources[op[c]]
        BY <3>1, <3>4 DEF SourceInv
      <4>2. wrote[c] \in {Target[op[c]], FailedState[op[c]]} \ {NoState}
        BY <3>1 DEF WriteInv
      <4>3. Column!Run(op[c])
        BY <3>2, <4>1, <4>2 DEF Column!Run
      <4> QED  BY <3>3, <3>4, <4>3 DEF Column!Next
    <3>5. CASE Kind[op[c]] = "action"
      <4>1. Column!Mark(op[c])
        BY <3>1, <3>2, <3>5 DEF WriteInv, Column!Mark
      <4> QED  BY <3>3, <3>5, <4>1 DEF Column!Next
    <3> QED  BY <3>3, <3>4, <3>5
  <2>5. CASE EndRow \/ EndAttempt
    <3>1. row # NoTransition
      BY <2>5 DEF EndRow, EndAttempt, KindInv
    <3>2. Column!GiveBack
      BY <2>5, <3>1 DEF EndRow, EndAttempt, Column!GiveBack
    <3> QED  BY <3>2 DEF Column!Next
  <2> QED
    BY <2>1, <2>2, <2>3, <2>4, <2>5
    DEF Next, vars, CallStep, Acquire, Act, CheckSource, CheckRow, InsertRow, Recheck,
        MarkRejected, NothingWritten, ActionEnds, ActionFails, Probe, CompareToken,
        DeleteKey, Rollback, Crash, Expire, OnlyMoves, BeginAttempt, RetryAttempt
<1> QED
  BY <1>1, <1>2, <1>3, <1>4, GateInvariant, PTL DEF Spec, ColumnIsOwned, Column!Spec
=============================================================================
