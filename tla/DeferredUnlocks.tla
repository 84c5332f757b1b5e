--------------------------- MODULE DeferredUnlocks ---------------------------
(***************************************************************************)
(* The unlocks that DEFER_UNLOCK_UNTIL_COMMIT leaves to the commit, on one *)
(* database connection.                                                    *)
(*                                                                         *)
(* The code of a request or a worker opens atomic blocks inside each other *)
(* and drives transitions in them.  A hook runs in a block of its own,     *)
(* which is a window of _run_in_savepoint.  Django drops the on_commit     *)
(* entries of a block that rolls back; the registry beside them is what    *)
(* lets a window release those locks all the same.                         *)
(***************************************************************************)
EXTENDS Integers, Sequences, SequencesExt

CONSTANTS
  Instances,   \* the instances whose state the transitions move
  Clear,       \* the on_commit entry that empties the registry
  MaxDepth,    \* bound: how deep blocks are opened inside each other
  MaxRuns      \* bound: how many transitions are driven

(* Mutant: the token of the run before. *)
UnlockOfLastRun(i, n) == [inst |-> i, token |-> n - 1]

(* A State object with the token of its lock; tokens are never reused. *)
Unlock(i, n) == [inst |-> i, token |-> n]
Unlocks == [inst : Instances, token : 1..MaxRuns]
NoToken == 0

ASSUME ConstantsAssumption ==
  /\ MaxDepth \in Nat /\ MaxRuns \in Nat
  /\ Clear \notin Unlocks

VARIABLES
  lock,      \* the token in the cache for each instance
  blocks,    \* the open atomic blocks, outermost first
  onCommit,  \* run_on_commit: what the outermost commit will run
  registry,  \* _dl_deferred_unlocks
  lost,      \* unlocks that Django dropped and nobody will run
  runs       \* how many transitions were driven

vars == <<lock, blocks, onCommit, registry, lost, runs>>

(***************************************************************************)
(* A window of _run_in_savepoint or a plain atomic block of the project,   *)
(* with the length of the registry and of run_on_commit when it opened.    *)
(***************************************************************************)
Block == [kind : {"hook", "plain"}, before : Nat, mark : Nat]

TypeOK ==
  /\ lock \in [Instances -> 0..MaxRuns]
  /\ blocks \in Seq(Block)
  /\ onCommit \in Seq(Unlocks \cup {Clear})
  /\ registry \in Seq(Unlocks)
  /\ lost \subseteq Unlocks
  /\ runs \in 0..MaxRuns

Init ==
  /\ lock = [i \in Instances |-> NoToken]
  /\ blocks = <<>>
  /\ onCommit = <<>>
  /\ registry = <<>>
  /\ lost = {}
  /\ runs = 0

-----------------------------------------------------------------------------
InBlock == blocks # <<>>
Outermost == Len(blocks) = 1

(* The unlocks that the commit will still run. *)
Queued == ToSet(onCommit) \ {Clear}

(* State.unlock of each of them: it compares the token before it deletes. *)
Released(U) ==
  lock' = [i \in Instances |->
             IF Unlock(i, lock[i]) \in U THEN NoToken ELSE lock[i]]

(* Mutant: the question is asked of the registry, not of run_on_commit. *)
RegistryInUse == registry # <<>>

(* Whether note_deferred_unlock finds its own entry still queued. *)
ClearQueued == Clear \in ToSet(onCommit)

(* Mutant: the stale entries are dropped when the clear is queued again. *)
NotedFresh(u) == IF ClearQueued THEN Append(registry, u) ELSE <<u>>

(* note_deferred_unlock: windows count on their indices, so it only adds. *)
Noted(u) == Append(registry, u)

(* transaction.atomic, around a hook or in the code of the project. *)
Open(kind) ==
  /\ Len(blocks) < MaxDepth
  /\ blocks' = Append(blocks, [kind   |-> kind,
                               before |-> Len(registry),
                               mark   |-> Len(onCommit)])
  /\ UNCHANGED <<lock, onCommit, registry, lost, runs>>

(***************************************************************************)
(* A transition that writes its state inside the open block: it takes the  *)
(* lock, and _release_lock leaves the unlock to the commit.                *)
(***************************************************************************)
Drive(i) ==
  LET u == Unlock(i, runs + 1) IN
  /\ InBlock
  /\ lock[i] = NoToken
  /\ runs < MaxRuns
  /\ runs' = runs + 1
  /\ lock' = [lock EXCEPT ![i] = runs + 1]
  /\ onCommit' = onCommit \o (IF ClearQueued THEN <<u>> ELSE <<u, Clear>>)
  /\ registry' = Noted(u)
  /\ UNCHANGED <<blocks, lost>>

(* A block inside another one ends well. *)
Leave ==
  /\ Len(blocks) > 1
  /\ blocks' = Front(blocks)
  /\ UNCHANGED <<lock, onCommit, registry, lost, runs>>

(* The unlocks queued behind the first n entries of run_on_commit. *)
Dropped(n) == ToSet(SubSeq(onCommit, n + 1, Len(onCommit))) \ {Clear}

(***************************************************************************)
(* The outermost block commits and runs what was queued, in order.  None   *)
(* of the entries is registered as robust: one that raises, an unlock that *)
(* does not reach the cache or an entry of the project, takes the entries  *)
(* behind it along, and only the first n run.                              *)
(***************************************************************************)
Commit(n) ==
  LET ran == ToSet(SubSeq(onCommit, 1, n)) IN
  /\ InBlock /\ Outermost
  /\ blocks' = <<>>
  /\ Released(ran \ {Clear})
  /\ lost' = lost \cup Dropped(n)
  /\ onCommit' = <<>>
  /\ registry' = IF Clear \in ran THEN <<>> ELSE registry
  /\ UNCHANGED runs

(* Mutant: the window starts at the beginning of the registry. *)
WindowOfAll(b) == ToSet(registry)

(* _release_dropped: the entries registered since the window opened. *)
Window(b) == ToSet(SubSeq(registry, b.before + 1, Len(registry)))

(***************************************************************************)
(* An exception, or a database error that was caught inside the block: in  *)
(* both cases the innermost block rolls back.  An unlock of its window     *)
(* that does not reach the cache is missed, and the others are done.       *)
(***************************************************************************)
RollBackHook ==
  LET b == Last(blocks) IN
  /\ InBlock /\ b.kind = "hook"
  /\ blocks' = Front(blocks)
  /\ onCommit' = SubSeq(onCommit, 1, b.mark)
  /\ registry' = SubSeq(registry, 1, b.before)
  /\ \E missed \in SUBSET Window(b) :
       /\ Released(Window(b) \ missed)
       /\ lost' = lost \cup missed
  /\ UNCHANGED runs

RollBackPlain ==
  LET b == Last(blocks) IN
  /\ InBlock /\ b.kind = "plain"
  /\ blocks' = Front(blocks)
  /\ onCommit' = SubSeq(onCommit, 1, b.mark)
  /\ lost' = lost \cup Dropped(b.mark)
  /\ UNCHANGED <<lock, registry, runs>>

(* LOCK_TIMEOUT frees what nobody will release. *)
Expire(i) ==
  /\ Unlock(i, lock[i]) \in lost
  /\ lock' = [lock EXCEPT ![i] = NoToken]
  /\ UNCHANGED <<blocks, onCommit, registry, lost, runs>>

Next ==
  \/ Open("hook") \/ Open("plain")
  \/ \E i \in Instances : Drive(i) \/ Expire(i)
  \/ \E n \in 0..Len(onCommit) : Commit(n)
  \/ Leave \/ RollBackHook \/ RollBackPlain

Spec == Init /\ [][Next]_vars

-----------------------------------------------------------------------------
(* The exclusion that the setting buys: as long as a state write of the    *)
(* open transaction can still be committed, its lock is held, through any  *)
(* nesting of hooks that fail or roll back around it.                      *)
UncommittedWriteIsLocked ==
  \A u \in Queued : lock[u.inst] = u.token

(* _run_in_savepoint: a hook that rolls back locks no instance out, even   *)
(* after earlier transactions left entries behind.  What does is a         *)
(* rollback of the project's own blocks, as README.md:1177 says, and, as   *)
(* it does not say, an entry of the commit that raises and a cache that    *)
(* does not answer: those locks, and no others, wait for their TTL.        *)
NoLockLeftBehind ==
  \A i \in Instances :
    lock[i] # NoToken => Unlock(i, lock[i]) \in Queued \cup lost

(* note_deferred_unlock: a commit empties the registry, so that what       *)
(* rollbacks and earlier commits left there does not pile up.  The clear   *)
(* is the second entry, whatever was dropped before: only a commit that is *)
(* cut short before it leaves the registry for the next one.               *)
CommitDrainsRegistry ==
  [][\A n \in 2..Len(onCommit) : Commit(n) => registry' = <<>>]_vars
=============================================================================
