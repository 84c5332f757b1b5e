----------------------- MODULE DeferredUnlocksProofs -----------------------
(***************************************************************************)
(* Theorems of DeferredUnlocks for any number of instances, any nesting of *)
(* blocks and any number of runs.                                          *)
(***************************************************************************)
EXTENDS DeferredUnlocks, SequenceTheorems, TLAPS

(***************************************************************************)
(* Sequences: prefixes, suffixes and what is appended.                     *)
(***************************************************************************)

(* A rollback keeps a prefix. *)
LEMMA PrefixLemma ==
  ASSUME NEW S, NEW s \in Seq(S), NEW n \in 0..Len(s)
  PROVE  /\ SubSeq(s, 1, n) \in Seq(S)
         /\ Len(SubSeq(s, 1, n)) = n
         /\ \A i \in 1..n : SubSeq(s, 1, n)[i] = s[i]
<1>1. \A i \in 1..n : s[i] \in S
  BY ElementOfSeq
<1> QED
  BY <1>1, SubSeqProperties

LEMMA FrontLemma ==
  ASSUME NEW S, NEW s \in Seq(S), s # <<>>
  PROVE  /\ Front(s) \in Seq(S)
         /\ Len(s) \in Nat \ {0}
         /\ Len(Front(s)) = Len(s) - 1
         /\ \A i \in 1..(Len(s) - 1) : Front(s)[i] = s[i]
         /\ Last(s) = s[Len(s)] /\ Last(s) \in S
<1>1. Len(s) \in Nat \ {0}
  BY EmptySeq
<1>2. Len(s) - 1 \in 0..Len(s)
  BY <1>1
<1>3. s[Len(s)] \in S
  BY <1>1, ElementOfSeq
<1> QED
  BY <1>1, <1>2, <1>3, PrefixLemma DEF Front, Last

LEMMA MembersLemma ==
  ASSUME NEW S, NEW s \in Seq(S)
  PROVE  \A x : x \in ToSet(s) <=> \E i \in 1..Len(s) : s[i] = x
  BY LenProperties DEF ToSet

(* What lies behind position n. *)
LEMMA SuffixLemma ==
  ASSUME NEW S, NEW s \in Seq(S), NEW n \in 0..Len(s)
  PROVE  \A x : x \in ToSet(SubSeq(s, n + 1, Len(s)))
                  <=> \E i \in (n + 1)..Len(s) : s[i] = x
<1> DEFINE t == SubSeq(s, n + 1, Len(s))
<1>1. Len(s) \in Nat
  BY LenProperties
<1>2. \A i \in (n + 1)..Len(s) : s[i] \in S
  BY <1>1, ElementOfSeq
<1>3. /\ t \in Seq(S)
      /\ Len(t) = Len(s) - n
      /\ \A i \in 1..(Len(s) - n) : t[i] = s[n + i]
  BY <1>1, <1>2, SubSeqProperties
<1>4. ASSUME NEW x
      PROVE  (\E i \in 1..(Len(s) - n) : t[i] = x) <=> \E i \in (n + 1)..Len(s) : s[i] = x
  <2>1. ASSUME NEW i \in 1..(Len(s) - n)
        PROVE  n + i \in (n + 1)..Len(s)
    BY <1>1
  <2>2. ASSUME NEW i \in (n + 1)..Len(s)
        PROVE  i - n \in 1..(Len(s) - n) /\ n + (i - n) = i
    BY <1>1
  <2> QED
    BY <1>3, <2>1, <2>2
<1> HIDE DEF t
<1>5. \A x : x \in ToSet(t) <=> \E i \in 1..(Len(s) - n) : t[i] = x
  BY <1>3, MembersLemma
<1> QED
  BY <1>4, <1>5 DEF t

-----------------------------------------------------------------------------
(***************************************************************************)
(* The inductive invariant.                                                *)
(***************************************************************************)

(* Tokens of queued, of registered and of lost unlocks are old, and        *)
(* nothing is queued twice or both queued and lost.                        *)
Tokens ==
  /\ \A i \in 1..Len(onCommit) :
       onCommit[i] # Clear =>
         /\ onCommit[i].token <= runs
         /\ onCommit[i] \notin lost
         /\ \A j \in 1..Len(onCommit) : onCommit[j] = onCommit[i] => j = i
  /\ \A j \in 1..Len(registry) : registry[j].token <= runs
  /\ \A u \in lost : u.token <= runs

(* The clear follows the first unlock, and no block opened between them.   *)
ClearQueuedSecond ==
  /\ Len(onCommit) # 0 => Len(onCommit) >= 2 /\ onCommit[2] = Clear
  /\ \A k \in 1..Len(blocks) : blocks[k].mark # 1

(* An inner block opened later than the one around it. *)
Nested ==
  /\ \A k \in 1..Len(blocks) :
       blocks[k].before <= Len(registry) /\ blocks[k].mark <= Len(onCommit)
  /\ \A j, k \in 1..Len(blocks) : j <= k =>
       blocks[j].before <= blocks[k].before /\ blocks[j].mark <= blocks[k].mark

(* The window of a block in the registry holds every unlock queued since   *)
(* the block opened, and none that was queued before.                      *)
Windows ==
  \A k \in 1..Len(blocks), i \in 1..Len(onCommit) :
    onCommit[i] # Clear =>
      /\ i > blocks[k].mark =>
           \E j \in (blocks[k].before + 1)..Len(registry) : registry[j] = onCommit[i]
      /\ i <= blocks[k].mark =>
           \A j \in (blocks[k].before + 1)..Len(registry) : registry[j] # onCommit[i]

Inv ==
  /\ TypeOK
  /\ Tokens
  /\ ClearQueuedSecond
  /\ Nested
  /\ Windows
  /\ UncommittedWriteIsLocked
  /\ NoLockLeftBehind

-----------------------------------------------------------------------------
(* Unlocks, and the sequences that hold them. *)

LEMMA UnlockLemma ==
  /\ \A u \in Unlocks, i \in Instances, n \in Nat :
       Unlock(i, n) = u <=> i = u.inst /\ n = u.token
  /\ \A u \in Unlocks : u.inst \in Instances /\ u.token \in 1..MaxRuns
  /\ \A u \in Unlocks : u # Clear
  BY ConstantsAssumption DEF ConstantsAssumption, Unlock, Unlocks

LEMMA QueuedLemma ==
  ASSUME TypeOK
  PROVE  /\ \A u : u \in Queued <=> u # Clear /\ \E i \in 1..Len(onCommit) : onCommit[i] = u
         /\ Queued \subseteq Unlocks
         /\ \A i \in 1..Len(onCommit) : onCommit[i] # Clear => onCommit[i] \in Unlocks
         /\ Len(onCommit) \in Nat /\ Len(registry) \in Nat /\ Len(blocks) \in Nat
         /\ \A j \in 1..Len(registry) : registry[j] \in Unlocks
         /\ \A k \in 1..Len(blocks) : blocks[k] \in Block
<1>1. onCommit \in Seq(Unlocks \cup {Clear}) /\ registry \in Seq(Unlocks) /\ blocks \in Seq(Block)
  BY DEF TypeOK
<1>2. \A i \in 1..Len(onCommit) : onCommit[i] \in Unlocks \cup {Clear}
  BY <1>1, ElementOfSeq
<1>3. Len(onCommit) \in Nat /\ Len(registry) \in Nat /\ Len(blocks) \in Nat
  BY <1>1, LenProperties
<1>4. \A u : u \in Queued <=> u # Clear /\ \E i \in 1..Len(onCommit) : onCommit[i] = u
  BY <1>1, MembersLemma DEF Queued
<1>5. (\A j \in 1..Len(registry) : registry[j] \in Unlocks)
      /\ \A k \in 1..Len(blocks) : blocks[k] \in Block
  BY <1>1, ElementOfSeq
<1> QED
  BY <1>2, <1>3, <1>4, <1>5

(* The two properties, by position. *)
Locked == \A i \in 1..Len(onCommit) :
            onCommit[i] # Clear => lock[onCommit[i].inst] = onCommit[i].token

LEMMA LockedLemma ==
  ASSUME TypeOK
  PROVE  Locked <=> UncommittedWriteIsLocked
  BY QueuedLemma DEF Locked, UncommittedWriteIsLocked

LEMMA ReleasedLemma ==
  ASSUME TypeOK, NEW U, Released(U)
  PROVE  /\ lock' \in [Instances -> 0..MaxRuns]
         /\ \A i \in Instances : lock'[i] = IF Unlock(i, lock[i]) \in U THEN NoToken ELSE lock[i]
<1>1. NoToken \in 0..MaxRuns
  BY ConstantsAssumption DEF ConstantsAssumption, NoToken
<1> QED
  BY <1>1 DEF Released, TypeOK

-----------------------------------------------------------------------------
(* Steps that only open or leave a block. *)

LEMMA SameQueue ==
  ASSUME Inv, UNCHANGED <<lock, onCommit, registry, lost, runs>>
  PROVE  Tokens' /\ UncommittedWriteIsLocked' /\ NoLockLeftBehind'
  BY DEF Inv, Tokens, UncommittedWriteIsLocked, NoLockLeftBehind, Queued

LEMMA OpenStep ==
  ASSUME Inv, NEW kind \in {"hook", "plain"}, Open(kind)
  PROVE  Inv'
<1> DEFINE b == [kind |-> kind, before |-> Len(registry), mark |-> Len(onCommit)]
<1>0. TypeOK /\ UNCHANGED <<lock, onCommit, registry, lost, runs>> /\ blocks' = Append(blocks, b)
  BY DEF Inv, Open
<1>1. Len(onCommit) \in Nat /\ Len(registry) \in Nat /\ Len(blocks) \in Nat
      /\ \A k \in 1..Len(blocks) : blocks[k] \in Block
  BY <1>0, QueuedLemma
<1>2. b \in Block /\ b.before = Len(registry) /\ b.mark = Len(onCommit)
  BY <1>1 DEF Block
<1> HIDE DEF b
<1>3. /\ blocks' \in Seq(Block)
      /\ Len(blocks') = Len(blocks) + 1
      /\ \A k \in 1..Len(blocks) : blocks'[k] = blocks[k]
      /\ blocks'[Len(blocks) + 1] = b
  BY <1>0, <1>1, <1>2 DEF TypeOK
<1>4. TypeOK'
  BY <1>0, <1>3 DEF TypeOK
<1>5. ClearQueuedSecond'
  BY <1>0, <1>1, <1>2, <1>3 DEF Inv, ClearQueuedSecond
<1>6. Nested'
  BY <1>0, <1>1, <1>2, <1>3 DEF Inv, Nested, Block
<1>7. Windows'
  BY <1>0, <1>1, <1>2, <1>3 DEF Inv, Windows
<1> QED
  BY <1>0, <1>4, <1>5, <1>6, <1>7, SameQueue DEF Inv

LEMMA LeaveStep ==
  ASSUME Inv, Leave
  PROVE  Inv'
<1>0. TypeOK /\ UNCHANGED <<lock, onCommit, registry, lost, runs>> /\ blocks' = Front(blocks)
  BY DEF Inv, Leave
<1>1. blocks \in Seq(Block) /\ blocks # <<>>
  BY <1>0, EmptySeq DEF Leave, TypeOK
<1>2. /\ Front(blocks) \in Seq(Block)
      /\ Len(blocks) \in Nat
      /\ Len(Front(blocks)) = Len(blocks) - 1
      /\ \A k \in 1..(Len(blocks) - 1) : Front(blocks)[k] = blocks[k]
  BY <1>1, FrontLemma
<1>3. TypeOK'
  BY <1>0, <1>2 DEF TypeOK
<1>4. \A k \in 1..Len(blocks') : k \in 1..Len(blocks) /\ blocks'[k] = blocks[k]
  BY <1>0, <1>2
<1>5. ClearQueuedSecond'
  BY <1>0, <1>4 DEF Inv, ClearQueuedSecond
<1>6. Nested'
  BY <1>0, <1>4 DEF Inv, Nested
<1>7. Windows'
  BY <1>0, <1>4 DEF Inv, Windows
<1> QED
  BY <1>0, <1>3, <1>5, <1>6, <1>7, SameQueue DEF Inv

-----------------------------------------------------------------------------
(* Steps that drive, or that end a transaction. *)

(* The new unlock is queued last, in front of a clear if there is none.    *)
LEMMA DriveStep ==
  ASSUME Inv, NEW i \in Instances, Drive(i)
  PROVE  Inv'
<1> DEFINE u == Unlock(i, runs + 1)
           tail == IF ClearQueued THEN <<u>> ELSE <<u, Clear>>
           n == Len(onCommit)
<1>0. /\ TypeOK /\ UNCHANGED <<blocks, lost>> /\ runs' = runs + 1
      /\ lock' = [lock EXCEPT ![i] = runs + 1]
      /\ onCommit' = onCommit \o tail /\ registry' = Append(registry, u)
      /\ lock[i] = NoToken /\ runs < MaxRuns /\ runs \in Nat /\ MaxRuns \in Nat
  BY ConstantsAssumption DEF Inv, Drive, Noted, TypeOK, ConstantsAssumption
<1>1. /\ n \in Nat /\ Len(registry) \in Nat /\ Len(blocks) \in Nat
      /\ \A k \in 1..Len(blocks) : blocks[k] \in Block
      /\ \A m \in 1..n : onCommit[m] # Clear => onCommit[m] \in Unlocks
  BY <1>0, QueuedLemma
<1>2. u \in Unlocks /\ u.inst = i /\ u.token = runs + 1 /\ u # Clear
  BY <1>0, UnlockLemma DEF Unlock, Unlocks
<1>3. ClearQueued <=> n # 0
  <2>1. onCommit \in Seq(Unlocks \cup {Clear})
    BY <1>0 DEF TypeOK
  <2>2. ClearQueued <=> \E m \in 1..n : onCommit[m] = Clear
    BY <2>1, MembersLemma DEF ClearQueued
  <2> QED
    BY <1>1, <2>2 DEF Inv, ClearQueuedSecond
<1> HIDE DEF u
<1>4. /\ tail \in Seq(Unlocks \cup {Clear}) /\ tail[1] = u
      /\ Len(tail) = (IF n # 0 THEN 1 ELSE 2)
      /\ n = 0 => tail[2] = Clear
  <2>1. CASE n # 0
    <3>1. tail = <<u>>
      BY <1>3, <2>1
    <3> QED
      BY <1>2, <2>1, <3>1
  <2>2. CASE n = 0
    <3>1. tail = <<u, Clear>>
      BY <1>3, <2>2
    <3>2. u \in Unlocks \cup {Clear} /\ Clear \in Unlocks \cup {Clear}
      BY <1>2
    <3> HIDE DEF tail
    <3>3. tail \in Seq(Unlocks \cup {Clear})
      BY <3>1, <3>2
    <3>4. Len(tail) = 2 /\ tail[1] = u /\ tail[2] = Clear
      BY <3>1
    <3> QED
      BY <2>2, <3>3, <3>4
  <2> QED
    BY <2>1, <2>2
<1> HIDE DEF tail
<1>5. /\ onCommit' \in Seq(Unlocks \cup {Clear})
      /\ Len(onCommit') = n + (IF n # 0 THEN 1 ELSE 2)
      /\ \A m \in 1..n : onCommit'[m] = onCommit[m]
      /\ onCommit'[n + 1] = u
      /\ n = 0 => onCommit'[2] = Clear
  <2>1. onCommit \in Seq(Unlocks \cup {Clear})
    BY <1>0 DEF TypeOK
  <2>2. /\ onCommit \o tail \in Seq(Unlocks \cup {Clear})
        /\ Len(onCommit \o tail) = n + Len(tail)
        /\ \A m \in 1..(n + Len(tail)) :
             (onCommit \o tail)[m] = IF m <= n THEN onCommit[m] ELSE tail[m - n]
    BY <1>4, <2>1, ConcatProperties
  <2> QED
    BY <1>0, <1>1, <1>4, <2>2
<1>6. /\ registry' \in Seq(Unlocks)
      /\ Len(registry') = Len(registry) + 1
      /\ \A j \in 1..Len(registry) : registry'[j] = registry[j]
      /\ registry'[Len(registry) + 1] = u
  BY <1>0, <1>1, <1>2 DEF TypeOK
<1>7. \A m \in 1..Len(onCommit') :
        onCommit'[m] = Clear \/ (m \in 1..n /\ onCommit'[m] = onCommit[m]) \/ (m = n + 1)
  BY <1>1, <1>5
<1> HIDE DEF n
<1>8. TypeOK'
  <2>1. lock' \in [Instances -> 0..MaxRuns] /\ runs' \in 0..MaxRuns
    BY <1>0 DEF TypeOK
  <2> QED
    BY <1>0, <1>5, <1>6, <2>1 DEF TypeOK
<1>9. \A m \in 1..n : onCommit[m] # u /\ (onCommit[m] # Clear => onCommit[m].token <= runs)
  BY <1>0, <1>2 DEF Inv, Tokens, n
<1>10. Tokens'
  <2>1. u \notin lost
    BY <1>0, <1>2 DEF Inv, Tokens
  <2>2. \A v \in lost : v.token <= runs'
    <3>1. \A v \in lost : v.token \in Nat
      BY <1>0, UnlockLemma DEF TypeOK
    <3> QED
      BY <1>0, <3>1 DEF Inv, Tokens
  <2>4. ASSUME NEW j \in 1..Len(registry')
        PROVE  registry'[j].token <= runs'
    <3>1. CASE j = Len(registry) + 1
      BY <1>0, <1>2, <1>6, <3>1
    <3>2. CASE j \in 1..Len(registry)
      <4>1. registry[j].token \in Nat
        BY <1>0, <3>2, QueuedLemma, UnlockLemma
      <4> QED
        BY <1>0, <1>6, <3>2, <4>1 DEF Inv, Tokens
    <3> QED
      BY <1>1, <1>6, <3>1, <3>2
  <2>3. ASSUME NEW m \in 1..Len(onCommit'), onCommit'[m] # Clear
        PROVE  /\ onCommit'[m].token <= runs'
               /\ onCommit'[m] \notin lost'
               /\ \A j \in 1..Len(onCommit') : onCommit'[j] = onCommit'[m] => j = m
    <3>1. CASE m = n + 1
      BY <1>0, <1>2, <1>5, <1>7, <1>9, <2>1, <3>1
    <3>2. CASE m \in 1..n
      <4>1. onCommit'[m] = onCommit[m] /\ onCommit[m].token \in Nat
        BY <1>1, <1>5, <2>3, <3>2, UnlockLemma
      <4> QED
        BY <1>0, <1>5, <1>7, <1>9, <2>3, <3>2, <4>1 DEF Inv, Tokens, n
    <3> QED
      BY <1>7, <2>3, <3>1, <3>2
  <2> QED
    BY <1>0, <2>2, <2>3, <2>4 DEF Tokens
<1>11. ClearQueuedSecond'
  BY <1>0, <1>1, <1>5 DEF Inv, ClearQueuedSecond, n
<1>12. Nested'
  <2>1. \A k \in 1..Len(blocks) :
          blocks[k].before \in Nat /\ blocks[k].mark \in Nat
          /\ blocks[k].before <= Len(registry) /\ blocks[k].mark <= n
    BY <1>1 DEF Inv, Nested, Block, n
  <2>2. n <= Len(onCommit') /\ Len(registry) <= Len(registry')
        /\ Len(onCommit') \in Nat /\ Len(registry') \in Nat
    BY <1>1, <1>5, <1>6
  <2>3. \A k \in 1..Len(blocks) :
          blocks[k].before <= Len(registry') /\ blocks[k].mark <= Len(onCommit')
    BY <1>1, <2>1, <2>2
  <2>4. \A j, k \in 1..Len(blocks) : j <= k =>
          blocks[j].before <= blocks[k].before /\ blocks[j].mark <= blocks[k].mark
    BY DEF Inv, Nested
  <2> QED
    BY <1>0, <2>3, <2>4 DEF Nested
<1>13. Windows'
  <2> SUFFICES ASSUME NEW k \in 1..Len(blocks), NEW m \in 1..Len(onCommit'),
                      onCommit'[m] # Clear
               PROVE  /\ m > blocks[k].mark =>
                           \E j \in (blocks[k].before + 1)..Len(registry') :
                             registry'[j] = onCommit'[m]
                      /\ m <= blocks[k].mark =>
                           \A j \in (blocks[k].before + 1)..Len(registry') :
                             registry'[j] # onCommit'[m]
    BY <1>0, ZenonT(30) DEF Windows
  <2>1. blocks[k].before <= Len(registry) /\ blocks[k].mark <= n
        /\ blocks[k].before \in Nat /\ blocks[k].mark \in Nat
    BY <1>1 DEF Inv, Nested, Block, n
  <2>2. CASE m = n + 1
    <3>1. Len(registry) + 1 \in (blocks[k].before + 1)..Len(registry')
      BY <1>1, <1>6, <2>1
    <3> QED
      BY <1>1, <1>5, <1>6, <2>1, <2>2, <3>1, SMTT(30) DEF n
  <2>3. CASE m \in 1..n
    <3>1. onCommit'[m] = onCommit[m] /\ onCommit[m] # u
      BY <1>5, <1>9, <2>3
    <3>2. m > blocks[k].mark =>
            \E j \in (blocks[k].before + 1)..Len(registry) : registry[j] = onCommit[m]
      BY <2>3, <3>1 DEF Inv, Windows, n
    <3>3. m <= blocks[k].mark =>
            \A j \in (blocks[k].before + 1)..Len(registry) : registry[j] # onCommit[m]
      BY <2>3, <3>1 DEF Inv, Windows, n
    <3>4. \A j \in (blocks[k].before + 1)..Len(registry') :
            j = Len(registry) + 1
            \/ (j \in (blocks[k].before + 1)..Len(registry) /\ registry'[j] = registry[j])
      BY <1>1, <1>6, <2>1
    <3>5. (blocks[k].before + 1)..Len(registry) \subseteq (blocks[k].before + 1)..Len(registry')
          /\ (blocks[k].before + 1)..Len(registry) \subseteq 1..Len(registry)
      BY <1>1, <1>6, <2>1
    <3> QED
      BY <1>6, <3>1, <3>2, <3>3, <3>4, <3>5
  <2> QED
    BY <1>7, <2>2, <2>3
<1>14. Locked'
  <2>1. Locked
    BY <1>0, LockedLemma DEF Inv
  <2>2. ASSUME NEW m \in 1..Len(onCommit'), onCommit'[m] # Clear
        PROVE  lock'[onCommit'[m].inst] = onCommit'[m].token
    <3>1. CASE m = n + 1
      BY <1>0, <1>2, <1>5, <3>1 DEF TypeOK
    <3>2. CASE m \in 1..n
      <4>1. onCommit'[m] = onCommit[m] /\ onCommit[m] \in Unlocks
        BY <1>1, <1>5, <2>2, <3>2 DEF n
      <4>2. lock[onCommit[m].inst] = onCommit[m].token
        BY <2>1, <2>2, <3>2, <4>1 DEF Locked, n
      <4>3. onCommit[m].inst \in Instances /\ onCommit[m].inst # i
        BY <1>0, <4>1, <4>2, UnlockLemma DEF NoToken
      <4> QED
        BY <1>0, <4>1, <4>2, <4>3 DEF TypeOK
    <3> QED
      BY <1>7, <2>2, <3>1, <3>2
  <2> QED
    BY <2>2 DEF Locked
<1>15. NoLockLeftBehind'
  <2> SUFFICES ASSUME NEW v \in Instances, lock'[v] # NoToken
               PROVE  Unlock(v, lock'[v]) \in Queued' \cup lost'
    BY DEF NoLockLeftBehind
  <2>1. \A x : x \in Queued' <=> x # Clear /\ \E m \in 1..Len(onCommit') : onCommit'[m] = x
    BY <1>8, <1>5, MembersLemma DEF Queued
  <2>2. CASE v = i
    <3>1. Unlock(v, lock'[v]) = u
      BY <1>0, <2>2 DEF u, TypeOK
    <3>2. n + 1 \in 1..Len(onCommit')
      BY <1>1, <1>5 DEF n
    <3> QED
      BY <1>2, <1>5, <2>1, <3>1, <3>2
  <2>3. CASE v # i
    <3>1. lock'[v] = lock[v]
      BY <1>0, <2>3 DEF TypeOK
    <3>2. Unlock(v, lock[v]) \in Queued \cup lost
      BY <3>1 DEF Inv, NoLockLeftBehind
    <3>3. \A m \in 1..n : m \in 1..Len(onCommit')
      BY <1>1, <1>5 DEF n
    <3>4. \A x \in Queued : x \in Queued'
      BY <1>0, <1>5, <2>1, <3>3, QueuedLemma DEF n
    <3> QED
      BY <1>0, <3>1, <3>2, <3>4
  <2> QED
    BY <2>2, <2>3
<1>16. UncommittedWriteIsLocked'
  <2>1. \A x : x \in Queued' <=> x # Clear /\ \E m \in 1..Len(onCommit') : onCommit'[m] = x
    BY <1>5, MembersLemma DEF Queued
  <2> QED
    BY <1>14, <2>1 DEF Locked, UncommittedWriteIsLocked
<1> QED
  BY <1>8, <1>10, <1>11, <1>12, <1>13, <1>15, <1>16 DEF Inv

(* What a rollback, or an entry that raised, took from run_on_commit.      *)
LEMMA DroppedLemma ==
  ASSUME TypeOK, NEW n \in 0..Len(onCommit)
  PROVE  /\ \A x : x \in Dropped(n) <=>
                    x # Clear /\ \E i \in (n + 1)..Len(onCommit) : onCommit[i] = x
         /\ Dropped(n) \subseteq Queued
<1>1. onCommit \in Seq(Unlocks \cup {Clear}) /\ Len(onCommit) \in Nat
  BY QueuedLemma DEF TypeOK
<1>2. \A x : x \in ToSet(SubSeq(onCommit, n + 1, Len(onCommit)))
               <=> \E i \in (n + 1)..Len(onCommit) : onCommit[i] = x
  BY <1>1, SuffixLemma
<1>3. \A i \in (n + 1)..Len(onCommit) : i \in 1..Len(onCommit)
  BY <1>1
<1> QED
  BY <1>2, <1>3, QueuedLemma DEF Dropped

(* What ran before. *)
LEMMA RanLemma ==
  ASSUME TypeOK, NEW n \in 0..Len(onCommit)
  PROVE  \A x : x \in ToSet(SubSeq(onCommit, 1, n)) <=> \E i \in 1..n : onCommit[i] = x
<1>1. onCommit \in Seq(Unlocks \cup {Clear}) /\ Len(onCommit) \in Nat
  BY QueuedLemma DEF TypeOK
<1> DEFINE t == SubSeq(onCommit, 1, n)
<1>2. t \in Seq(Unlocks \cup {Clear}) /\ Len(t) = n /\ \A i \in 1..n : t[i] = onCommit[i]
  BY <1>1, PrefixLemma
<1> HIDE DEF t
<1>3. \A x : x \in ToSet(t) <=> \E i \in 1..Len(t) : t[i] = x
  BY <1>2, MembersLemma
<1> QED
  BY <1>2, <1>3 DEF t

(* The commit releases what ran; what is still locked then was lost. *)
LEMMA CommitStep ==
  ASSUME Inv, NEW n \in 0..Len(onCommit), Commit(n)
  PROVE  Inv'
<1> DEFINE R == ToSet(SubSeq(onCommit, 1, n)) \ {Clear}
<1>0. /\ TypeOK /\ UNCHANGED runs /\ Released(R) /\ lost' = lost \cup Dropped(n)
      /\ blocks' = <<>> /\ onCommit' = <<>> /\ registry' \in {<<>>, registry}
  BY DEF Inv, Commit
<1>9. \A x \in Queued : x \in R \cup Dropped(n)
  <2> SUFFICES ASSUME NEW x \in Queued PROVE x \in R \cup Dropped(n)
    OBVIOUS
  <2>1. x # Clear
    BY <1>0, QueuedLemma
  <2>2. PICK i \in 1..Len(onCommit) : onCommit[i] = x
    BY <1>0, QueuedLemma
  <2>3. i \in 1..n \/ i \in (n + 1)..Len(onCommit)
    BY <1>0, QueuedLemma
  <2> QED
    BY <1>0, <2>1, <2>2, <2>3, RanLemma, DroppedLemma
<1> HIDE DEF R
<1>1. /\ lock' \in [Instances -> 0..MaxRuns]
      /\ \A i \in Instances : lock'[i] = IF Unlock(i, lock[i]) \in R THEN NoToken ELSE lock[i]
  BY <1>0, ReleasedLemma
<1>2. Len(onCommit') = 0 /\ Len(blocks') = 0
  BY <1>0
<1>3. onCommit' \in Seq(Unlocks \cup {Clear}) /\ blocks' \in Seq(Block) /\ registry' \in Seq(Unlocks)
  <2>1. onCommit' \in Seq(Unlocks \cup {Clear})
    BY <1>0, EmptySeq
  <2>2. blocks' \in Seq(Block)
    BY <1>0, EmptySeq
  <2>3. registry' \in Seq(Unlocks)
    BY <1>0, EmptySeq DEF TypeOK
  <2> QED
    BY <2>1, <2>2, <2>3
<1>10. Dropped(n) \subseteq Unlocks /\ \A u \in Dropped(n) : u.token <= runs
  <2> SUFFICES ASSUME NEW u \in Dropped(n) PROVE u \in Unlocks /\ u.token <= runs
    OBVIOUS
  <2>1. u \in Queued
    BY <1>0, DroppedLemma
  <2>2. u \in Unlocks /\ u # Clear /\ \E i \in 1..Len(onCommit) : onCommit[i] = u
    BY <1>0, <2>1, QueuedLemma
  <2> QED
    BY <2>2 DEF Inv, Tokens
<1>4. TypeOK'
  BY <1>0, <1>1, <1>3, <1>10 DEF TypeOK
<1>5. Tokens' /\ ClearQueuedSecond' /\ Nested' /\ Windows'
  <2>1. \A j \in 1..Len(registry') : registry'[j].token <= runs
    <3>1. CASE registry' = registry
      BY <3>1 DEF Inv, Tokens
    <3>2. CASE registry' = <<>>
      BY <3>2
    <3> QED
      BY <1>0, <3>1, <3>2
  <2>2. Tokens'
    BY <1>0, <1>2, <1>10, <2>1 DEF Inv, Tokens
  <2> QED
    BY <1>2, <2>2 DEF ClearQueuedSecond, Nested, Windows
<1>6. \A x : x \notin Queued'
  <2>1. \A x : x \in ToSet(onCommit') <=> \E i \in 1..Len(onCommit') : onCommit'[i] = x
    BY <1>3, MembersLemma
  <2>2. \A i : i \notin 1..Len(onCommit')
    BY <1>2
  <2> QED
    BY <2>1, <2>2 DEF Queued
<1>7. UncommittedWriteIsLocked'
  BY <1>6 DEF UncommittedWriteIsLocked
<1>8. NoLockLeftBehind'
  <2> SUFFICES ASSUME NEW v \in Instances, lock'[v] # NoToken
               PROVE  Unlock(v, lock'[v]) \in lost'
    BY DEF NoLockLeftBehind
  <2>1. lock'[v] = lock[v] /\ Unlock(v, lock[v]) \notin R
    BY <1>1
  <2>2. Unlock(v, lock[v]) \in Queued \cup lost
    BY <2>1 DEF Inv, NoLockLeftBehind
  <2> QED
    BY <1>0, <1>9, <2>1, <2>2
<1> QED
  BY <1>4, <1>5, <1>7, <1>8 DEF Inv

(* LOCK_TIMEOUT takes no lock of an unlock that is still queued. *)
LEMMA ExpireStep ==
  ASSUME Inv, NEW i \in Instances, Expire(i)
  PROVE  Inv'
<1>0. /\ TypeOK /\ UNCHANGED <<blocks, onCommit, registry, lost, runs>>
      /\ Unlock(i, lock[i]) \in lost /\ lock' = [lock EXCEPT ![i] = NoToken]
  BY DEF Inv, Expire
<1>1. NoToken \in 0..MaxRuns
  BY ConstantsAssumption DEF ConstantsAssumption, NoToken
<1>2. TypeOK'
  BY <1>0, <1>1 DEF TypeOK
<1>3. Tokens' /\ ClearQueuedSecond' /\ Nested' /\ Windows'
  <2>1. Tokens'
    BY <1>0 DEF Inv, Tokens
  <2>2. ClearQueuedSecond' /\ Nested'
    BY <1>0 DEF Inv, ClearQueuedSecond, Nested
  <2>3. Windows'
    BY <1>0 DEF Inv, Windows
  <2> QED
    BY <2>1, <2>2, <2>3
<1>4. Queued' = Queued
  BY <1>0 DEF Queued
<1>5. UncommittedWriteIsLocked'
  <2> SUFFICES ASSUME NEW u \in Queued
               PROVE  lock'[u.inst] = u.token
    BY <1>4 DEF UncommittedWriteIsLocked
  <2>1. u \in Unlocks /\ u \notin lost
    BY <1>0, QueuedLemma DEF Inv, Tokens
  <2>2. lock[u.inst] = u.token
    BY DEF Inv, UncommittedWriteIsLocked
  <2>3. u.inst \in Instances /\ lock[u.inst] \in Nat
    BY <1>0, <2>1, UnlockLemma DEF TypeOK
  <2>4. u.inst # i
    BY <1>0, <2>1, <2>2, <2>3, UnlockLemma
  <2> QED
    BY <1>0, <2>2, <2>3, <2>4 DEF TypeOK
<1>6. NoLockLeftBehind'
  BY <1>0, <1>4 DEF Inv, NoLockLeftBehind, TypeOK
<1> QED
  BY <1>2, <1>3, <1>5, <1>6 DEF Inv

-----------------------------------------------------------------------------
(* Steps that roll the innermost block back. *)

(* What both of them do to the blocks and to run_on_commit. *)
LEMMA RolledBackLemma ==
  ASSUME Inv, blocks # <<>>, blocks' = Front(blocks),
         onCommit' = SubSeq(onCommit, 1, Last(blocks).mark)
  PROVE  /\ Len(blocks) \in Nat \ {0} /\ Last(blocks) = blocks[Len(blocks)]
         /\ Last(blocks).before \in 0..Len(registry) /\ Last(blocks).mark \in 0..Len(onCommit)
         /\ Len(onCommit) \in Nat /\ Len(registry) \in Nat
         /\ blocks' \in Seq(Block) /\ Len(blocks') = Len(blocks) - 1
         /\ \A k \in 1..Len(blocks') : k \in 1..Len(blocks) /\ blocks'[k] = blocks[k]
         /\ onCommit' \in Seq(Unlocks \cup {Clear}) /\ Len(onCommit') = Last(blocks).mark
         /\ \A i \in 1..Len(onCommit') : i \in 1..Len(onCommit) /\ onCommit'[i] = onCommit[i]
         /\ \A x : x \in Queued' <=> x # Clear /\ \E i \in 1..Len(onCommit') : onCommit'[i] = x
<1> DEFINE b == Last(blocks)
<1>0. TypeOK
  BY DEF Inv
<1>1. blocks \in Seq(Block) /\ onCommit \in Seq(Unlocks \cup {Clear})
  BY <1>0 DEF TypeOK
<1>2. /\ Front(blocks) \in Seq(Block) /\ Len(blocks) \in Nat \ {0}
      /\ Len(Front(blocks)) = Len(blocks) - 1
      /\ \A k \in 1..(Len(blocks) - 1) : Front(blocks)[k] = blocks[k]
      /\ Last(blocks) = blocks[Len(blocks)] /\ Last(blocks) \in Block
  BY <1>1, FrontLemma
<1>3. Len(onCommit) \in Nat /\ Len(registry) \in Nat
  BY <1>0, QueuedLemma
<1>4. Last(blocks).before \in 0..Len(registry) /\ Last(blocks).mark \in 0..Len(onCommit)
  BY <1>2, <1>3 DEF Inv, Nested, Block
<1>5. /\ onCommit' \in Seq(Unlocks \cup {Clear}) /\ Len(onCommit') = Last(blocks).mark
      /\ \A i \in 1..Last(blocks).mark : onCommit'[i] = onCommit[i]
  BY <1>1, <1>4, PrefixLemma
<1>6. \A i \in 1..Len(onCommit') : i \in 1..Len(onCommit)
  BY <1>3, <1>4, <1>5
<1>7. \A k \in 1..Len(blocks') : k \in 1..Len(blocks)
  BY <1>2
<1>8. \A x : x \in Queued' <=> x # Clear /\ \E i \in 1..Len(onCommit') : onCommit'[i] = x
  <2>1. onCommit' \in Seq(Unlocks \cup {Clear})
    BY <1>5
  <2>2. \A x : x \in ToSet(onCommit') <=> \E i \in 1..Len(onCommit') : onCommit'[i] = x
    BY <2>1, MembersLemma
  <2> QED
    BY <2>2 DEF Queued
<1>9. blocks' \in Seq(Block) /\ Len(blocks') = Len(blocks) - 1
  BY <1>2
<1>10. \A k \in 1..Len(blocks') : blocks'[k] = blocks[k]
  BY <1>2
<1>11. \A i \in 1..Len(onCommit') : onCommit'[i] = onCommit[i]
  BY <1>5
<1> QED
  BY <1>2, <1>3, <1>4, <1>5, <1>6, <1>7, <1>8, <1>9, <1>10, <1>11, Zenon

(* Both leave the clear in second place and the blocks inside each other. *)
LEMMA RolledBackShape ==
  ASSUME Inv, blocks # <<>>, blocks' = Front(blocks),
         onCommit' = SubSeq(onCommit, 1, Last(blocks).mark),
         Len(registry') \in Nat, Len(registry') >= Last(blocks).before
  PROVE  ClearQueuedSecond' /\ Nested'
<1> DEFINE b == Last(blocks)
           d == Len(blocks)
<1>1. /\ d \in Nat \ {0} /\ b = blocks[d]
      /\ b.before \in 0..Len(registry) /\ b.mark \in 0..Len(onCommit)
      /\ Len(onCommit) \in Nat /\ Len(registry) \in Nat
      /\ Len(onCommit') = b.mark
      /\ \A k \in 1..Len(blocks') : k \in 1..d /\ blocks'[k] = blocks[k]
      /\ \A i \in 1..Len(onCommit') : i \in 1..Len(onCommit) /\ onCommit'[i] = onCommit[i]
  BY RolledBackLemma
<1>2. \A k \in 1..d : k <= d /\ blocks[k].before \in Nat /\ blocks[k].mark \in Nat
  BY <1>1, QueuedLemma DEF Inv, Block
<1> HIDE DEF b
<1>3. \A k \in 1..d : blocks[k].before <= b.before /\ blocks[k].mark <= b.mark
  <2>1. d \in 1..d /\ \A k \in 1..d : k <= d
    BY <1>1
  <2>2. \A j, k \in 1..d : j <= k =>
          blocks[j].before <= blocks[k].before /\ blocks[j].mark <= blocks[k].mark
    BY DEF Inv, Nested
  <2> QED
    BY <1>1, <2>1, <2>2, Zenon
<1>4. ClearQueuedSecond'
  <2>1. b.mark # 1 /\ \A k \in 1..Len(blocks') : blocks'[k].mark # 1
    <3>1. d \in 1..d
      BY <1>1
    <3>2. \A k \in 1..d : blocks[k].mark # 1
      BY DEF Inv, ClearQueuedSecond
    <3> QED
      BY <1>1, <3>1, <3>2, Zenon
  <2>2. Len(onCommit') # 0 => Len(onCommit') >= 2 /\ onCommit'[2] = onCommit[2] /\ Len(onCommit) # 0
    <3> DEFINE m == b.mark
               n == Len(onCommit')
               N == Len(onCommit)
    <3>1. /\ m \in 0..N /\ N \in Nat /\ n = m /\ m # 1
          /\ \A i \in 1..n : onCommit'[i] = onCommit[i]
      BY <1>1, <2>1
    <3> HIDE DEF m, n, N
    <3>2. n # 0 => n >= 2 /\ 2 \in 1..n /\ N # 0
      BY <3>1
    <3>3. n # 0 => onCommit'[2] = onCommit[2]
      BY <3>1, <3>2
    <3> QED
      BY <3>2, <3>3 DEF n, N
  <2> QED
    BY <2>1, <2>2 DEF Inv, ClearQueuedSecond
<1>5. Nested'
  <2>1. \A k \in 1..Len(blocks') :
          blocks'[k].before <= Len(registry') /\ blocks'[k].mark <= Len(onCommit')
    BY <1>1, <1>2, <1>3 DEF b
  <2>2. \A j, k \in 1..Len(blocks') : j <= k =>
          blocks'[j].before <= blocks'[k].before /\ blocks'[j].mark <= blocks'[k].mark
    BY <1>1 DEF Inv, Nested
  <2> QED
    BY <2>1, <2>2 DEF Nested
<1> QED
  BY <1>4, <1>5

(* The window releases exactly the unlocks that Django dropped with it.    *)
LEMMA RollBackHookStep ==
  ASSUME Inv, RollBackHook
  PROVE  Inv'
<1> DEFINE b == Last(blocks)
           d == Len(blocks)
<1>20. PICK missed \in SUBSET Window(b) :
         Released(Window(b) \ missed) /\ lost' = lost \cup missed
  BY DEF RollBackHook
<1>0. /\ TypeOK /\ UNCHANGED runs /\ blocks # <<>> /\ blocks' = Front(blocks)
      /\ onCommit' = SubSeq(onCommit, 1, b.mark) /\ registry' = SubSeq(registry, 1, b.before)
  BY DEF Inv, RollBackHook, InBlock
<1>1. /\ d \in Nat \ {0} /\ b = blocks[d]
      /\ b.before \in 0..Len(registry) /\ b.mark \in 0..Len(onCommit)
      /\ Len(onCommit) \in Nat /\ Len(registry) \in Nat
      /\ blocks' \in Seq(Block) /\ Len(blocks') = d - 1
      /\ \A k \in 1..Len(blocks') : k \in 1..d /\ blocks'[k] = blocks[k]
      /\ onCommit' \in Seq(Unlocks \cup {Clear}) /\ Len(onCommit') = b.mark
      /\ \A i \in 1..Len(onCommit') : i \in 1..Len(onCommit) /\ onCommit'[i] = onCommit[i]
      /\ \A x : x \in Queued' <=> x # Clear /\ \E i \in 1..Len(onCommit') : onCommit'[i] = x
  BY <1>0, RolledBackLemma
<1>2. /\ registry' \in Seq(Unlocks) /\ Len(registry') = b.before
      /\ \A j \in 1..b.before : registry'[j] = registry[j]
  BY <1>0, <1>1, PrefixLemma, SMTT(30) DEF TypeOK
<1>3. \A x : x \in Window(b) <=> \E j \in (b.before + 1)..Len(registry) : registry[j] = x
  BY <1>0, <1>1, SuffixLemma DEF TypeOK, Window
<1>4. /\ lock' \in [Instances -> 0..MaxRuns]
      /\ \A i \in Instances :
           lock'[i] = IF Unlock(i, lock[i]) \in Window(b) \ missed THEN NoToken ELSE lock[i]
  BY <1>0, <1>20, ReleasedLemma
<1>21. \A u \in missed : u \in Unlocks /\ u.token <= runs
  <2> SUFFICES ASSUME NEW u \in missed PROVE u \in Unlocks /\ u.token <= runs
    OBVIOUS
  <2>1. PICK j \in (b.before + 1)..Len(registry) : registry[j] = u
    BY <1>3
  <2>2. j \in 1..Len(registry)
    BY <1>1
  <2> QED
    BY <1>0, <2>1, <2>2, QueuedLemma DEF Inv, Tokens
<1>5. \A i \in 1..Len(onCommit) : onCommit[i] # Clear =>
        (i > b.mark <=> onCommit[i] \in Window(b))
  <2>1. d \in 1..Len(blocks)
    BY <1>1
  <2>2. \A i \in 1..Len(onCommit) : i > b.mark \/ i <= b.mark
    BY <1>1
  <2>3. ASSUME NEW i \in 1..Len(onCommit), onCommit[i] # Clear
        PROVE  i > b.mark <=> onCommit[i] \in Window(b)
    <3>1. CASE i > b.mark
      <4>1. \E j \in (blocks[d].before + 1)..Len(registry) : registry[j] = onCommit[i]
        BY <1>1, <2>1, <2>3, <3>1 DEF Inv, Windows
      <4> QED
        BY <1>1, <1>3, <3>1, <4>1
    <3>2. CASE i <= b.mark
      <4>1. onCommit[i] \notin Window(b)
        BY <1>1, <1>3, <2>1, <2>3, <3>2 DEF Inv, Windows
      <4>2. ~ (i > b.mark)
        BY <1>1, <3>2
      <4> QED
        BY <4>1, <4>2
    <3> QED
      BY <2>2, <3>1, <3>2
  <2> QED
    BY <2>3
<1>6. ClearQueuedSecond' /\ Nested'
  BY <1>0, <1>1, <1>2, RolledBackShape
<1> HIDE DEF b, d
<1>7. TypeOK'
  BY <1>0, <1>1, <1>2, <1>4, <1>20, <1>21 DEF TypeOK
<1>8. Tokens'
  <2>1. \A u \in lost' : u.token <= runs
    BY <1>20, <1>21 DEF Inv, Tokens
  <2>2. ASSUME NEW j \in 1..Len(registry') PROVE registry'[j].token <= runs
    <3>1. j \in 1..b.before /\ j \in 1..Len(registry)
      BY <1>1, <1>2
    <3> QED
      BY <1>2, <3>1 DEF Inv, Tokens
  <2>3. ASSUME NEW i \in 1..Len(onCommit'), onCommit[i] # Clear
        PROVE  /\ onCommit[i].token <= runs
               /\ onCommit[i] \notin lost'
               /\ \A j \in 1..Len(onCommit') : onCommit'[j] = onCommit[i] => j = i
    <3>1. i \in 1..Len(onCommit) /\ ~ (i > b.mark)
      BY <1>1
    <3>2. /\ onCommit[i].token <= runs /\ onCommit[i] \notin lost
          /\ \A j \in 1..Len(onCommit) : onCommit[j] = onCommit[i] => j = i
      BY <2>3, <3>1 DEF Inv, Tokens
    <3>3. onCommit[i] \notin missed
      BY <1>5, <2>3, <3>1
    <3> QED
      BY <1>1, <1>20, <3>2, <3>3
  <2> QED
    BY <1>0, <1>1, <2>1, <2>2, <2>3 DEF Tokens
<1>9. Windows'
  <2> SUFFICES ASSUME NEW k \in 1..Len(blocks'), NEW i \in 1..Len(onCommit'), onCommit'[i] # Clear
               PROVE  /\ i > blocks[k].mark =>
                           \E j \in (blocks[k].before + 1)..Len(registry') :
                             registry'[j] = onCommit[i]
                      /\ i <= blocks[k].mark =>
                           \A j \in (blocks[k].before + 1)..Len(registry') :
                             registry'[j] # onCommit[i]
    <3>1. /\ \A k \in 1..Len(blocks') : blocks'[k] = blocks[k]
          /\ \A i \in 1..Len(onCommit') : onCommit'[i] = onCommit[i]
      BY <1>1
    <3> QED
      BY <3>1 DEF Windows
  <2>1. /\ onCommit[i] # Clear /\ i \in 1..Len(onCommit) /\ k \in 1..Len(blocks)
        /\ blocks[k].before \in Nat
    BY <1>0, <1>1, QueuedLemma DEF Block, d
  <2>2. onCommit[i] \notin Window(b)
    BY <1>1, <1>5, <2>1
  <2>3. \A j \in (blocks[k].before + 1)..Len(registry) :
          registry[j] = onCommit[i] => j \in (blocks[k].before + 1)..b.before
    <3>1. \A j \in (b.before + 1)..Len(registry) : registry[j] # onCommit[i]
      BY <1>3, <2>2
    <3>2. b.before \in Nat /\ Len(registry) \in Nat
      BY <1>1
    <3> QED
      BY <2>1, <3>1, <3>2
  <2>4. \A j \in (blocks[k].before + 1)..b.before :
          j \in (blocks[k].before + 1)..Len(registry) /\ registry'[j] = registry[j]
    <3>1. b.before \in Nat /\ b.before <= Len(registry) /\ Len(registry) \in Nat
      BY <1>1
    <3>2. \A j \in (blocks[k].before + 1)..b.before :
            j \in (blocks[k].before + 1)..Len(registry) /\ j \in 1..b.before
      BY <2>1, <3>1
    <3> QED
      BY <1>2, <3>2
  <2>5. i > blocks[k].mark =>
          \E j \in (blocks[k].before + 1)..Len(registry) : registry[j] = onCommit[i]
    BY <2>1 DEF Inv, Windows
  <2>6. i <= blocks[k].mark =>
          \A j \in (blocks[k].before + 1)..Len(registry) : registry[j] # onCommit[i]
    BY <2>1 DEF Inv, Windows
  <2> QED
    BY <1>2, <2>3, <2>4, <2>5, <2>6
<1>10. UncommittedWriteIsLocked'
  <2> SUFFICES ASSUME NEW i \in 1..Len(onCommit'), onCommit[i] # Clear
               PROVE  lock'[onCommit[i].inst] = onCommit[i].token
    BY <1>1 DEF UncommittedWriteIsLocked
  <2>1. i \in 1..Len(onCommit) /\ onCommit[i] \notin Window(b)
    BY <1>1, <1>5
  <2>2. onCommit[i] \in Unlocks /\ lock[onCommit[i].inst] = onCommit[i].token
    BY <1>0, <2>1, LockedLemma, QueuedLemma DEF Inv, Locked
  <2>3. onCommit[i].inst \in Instances /\ Unlock(onCommit[i].inst, onCommit[i].token) = onCommit[i]
    <3>1. onCommit[i].token \in Nat
      BY <2>2, UnlockLemma
    <3> QED
      BY <2>2, <3>1, UnlockLemma
  <2> QED
    BY <1>4, <2>1, <2>2, <2>3
<1>11. NoLockLeftBehind'
  <2> SUFFICES ASSUME NEW v \in Instances, lock'[v] # NoToken
               PROVE  Unlock(v, lock'[v]) \in Queued' \cup lost'
    BY <1>0 DEF NoLockLeftBehind
  <2>1. lock'[v] = lock[v] /\ Unlock(v, lock[v]) \notin Window(b) \ missed
    BY <1>4
  <2>2. Unlock(v, lock[v]) \in Queued \cup lost
    BY <2>1 DEF Inv, NoLockLeftBehind
  <2>3. ASSUME NEW x \in Queued, x \notin Window(b)
        PROVE  x \in Queued'
    <3>1. PICK i \in 1..Len(onCommit) : onCommit[i] = x
      BY <1>0, QueuedLemma
    <3>2. x # Clear
      BY <1>0, QueuedLemma
    <3>3. ~ (i > b.mark)
      BY <1>5, <2>3, <3>1, <3>2
    <3>4. i \in 1..Len(onCommit')
      BY <1>1, <3>3
    <3> QED
      BY <1>1, <3>1, <3>2, <3>4
  <2> QED
    BY <1>20, <2>1, <2>2, <2>3
<1> QED
  BY <1>6, <1>7, <1>8, <1>9, <1>10, <1>11 DEF Inv

(* A plain block loses the unlocks that Django drops with it. *)
LEMMA RollBackPlainStep ==
  ASSUME Inv, RollBackPlain
  PROVE  Inv'
<1> DEFINE b == Last(blocks)
           d == Len(blocks)
<1>0. /\ TypeOK /\ UNCHANGED <<lock, registry, runs>> /\ blocks # <<>> /\ blocks' = Front(blocks)
      /\ onCommit' = SubSeq(onCommit, 1, b.mark) /\ lost' = lost \cup Dropped(b.mark)
  BY DEF Inv, RollBackPlain, InBlock
<1>1. /\ d \in Nat \ {0} /\ b = blocks[d]
      /\ b.before \in 0..Len(registry) /\ b.mark \in 0..Len(onCommit)
      /\ Len(onCommit) \in Nat /\ Len(registry) \in Nat
      /\ blocks' \in Seq(Block) /\ Len(blocks') = d - 1
      /\ \A k \in 1..Len(blocks') : k \in 1..d /\ blocks'[k] = blocks[k]
      /\ onCommit' \in Seq(Unlocks \cup {Clear}) /\ Len(onCommit') = b.mark
      /\ \A i \in 1..Len(onCommit') : i \in 1..Len(onCommit) /\ onCommit'[i] = onCommit[i]
      /\ \A x : x \in Queued' <=> x # Clear /\ \E i \in 1..Len(onCommit') : onCommit'[i] = x
  BY <1>0, RolledBackLemma
<1>2. \A x : x \in Dropped(b.mark) <=>
             x # Clear /\ \E i \in (b.mark + 1)..Len(onCommit) : onCommit[i] = x
  <2>1. b.mark \in 0..Len(onCommit)
    BY <1>1
  <2> HIDE DEF b
  <2> QED
    BY <1>0, <2>1, DroppedLemma
<1>3. \A i \in (b.mark + 1)..Len(onCommit) : i \in 1..Len(onCommit) /\ i \notin 1..b.mark
  BY <1>1
<1>4. ClearQueuedSecond' /\ Nested'
  BY <1>0, <1>1, RolledBackShape
<1> HIDE DEF b, d
<1>5. TypeOK'
  <2>1. Dropped(b.mark) \subseteq Unlocks
    BY <1>0, <1>2, <1>3, QueuedLemma
  <2> QED
    BY <1>0, <1>1, <2>1 DEF TypeOK
<1>6. Tokens'
  <2>1. ASSUME NEW u \in lost' PROVE u.token <= runs'
    BY <1>0, <1>2, <1>3 DEF Inv, Tokens
  <2>2. ASSUME NEW i \in 1..Len(onCommit'), onCommit[i] # Clear
        PROVE  /\ onCommit[i].token <= runs
               /\ onCommit[i] \notin lost'
               /\ \A j \in 1..Len(onCommit') : onCommit'[j] = onCommit[i] => j = i
    <3>1. i \in 1..Len(onCommit) /\ i \in 1..b.mark
      BY <1>1
    <3>2. /\ onCommit[i].token <= runs /\ onCommit[i] \notin lost
          /\ \A j \in 1..Len(onCommit) : onCommit[j] = onCommit[i] => j = i
      BY <2>2, <3>1 DEF Inv, Tokens
    <3>3. onCommit[i] \notin Dropped(b.mark)
      BY <1>2, <1>3, <3>1, <3>2
    <3> QED
      BY <1>0, <1>1, <3>2, <3>3
  <2> QED
    BY <1>0, <1>1, <2>1, <2>2 DEF Inv, Tokens
<1>7. Windows'
  BY <1>0, <1>1, SMTT(30) DEF Inv, Windows, d
<1>8. UncommittedWriteIsLocked'
  <2>1. \A i \in 1..Len(onCommit') : onCommit'[i] # Clear =>
          lock[onCommit'[i].inst] = onCommit'[i].token
    <3>1. Locked
      BY <1>0, LockedLemma DEF Inv
    <3> QED
      BY <1>1, <3>1 DEF Locked
  <2>2. ASSUME NEW u \in Queued'
        PROVE  lock[u.inst] = u.token
    <3>1. u # Clear /\ \E i \in 1..Len(onCommit') : onCommit'[i] = u
      BY <1>1
    <3> QED
      BY <2>1, <3>1
  <2> QED
    BY <1>0, <2>2 DEF UncommittedWriteIsLocked
<1>9. NoLockLeftBehind'
  <2>1. ASSUME NEW x \in Queued
        PROVE  x \in Queued' \cup lost'
    <3>1. PICK i \in 1..Len(onCommit) : onCommit[i] = x
      BY <1>0, QueuedLemma
    <3>2. x # Clear
      BY <1>0, QueuedLemma
    <3>3. i \in 1..Len(onCommit') \/ i \in (b.mark + 1)..Len(onCommit)
      BY <1>1
    <3> QED
      BY <1>0, <1>1, <1>2, <3>1, <3>2, <3>3
  <2> QED
    BY <1>0, <2>1 DEF Inv, NoLockLeftBehind
<1> QED
  BY <1>4, <1>5, <1>6, <1>7, <1>8, <1>9 DEF Inv

-----------------------------------------------------------------------------
(* Theorems. *)

(* The inductive invariant holds in every reachable state. *)
THEOREM Invariant == Spec => []Inv
<1>1. Init => Inv
  <2> SUFFICES ASSUME Init PROVE Inv
    OBVIOUS
  <2>0. /\ lock = [i \in Instances |-> NoToken] /\ blocks = <<>> /\ onCommit = <<>>
        /\ registry = <<>> /\ lost = {} /\ runs = 0
    BY DEF Init
  <2>1. onCommit \in Seq(Unlocks \cup {Clear}) /\ Len(onCommit) = 0
    BY <2>0, EmptySeq
  <2>2. blocks \in Seq(Block) /\ Len(blocks) = 0
    BY <2>0, EmptySeq
  <2>3. registry \in Seq(Unlocks)
    BY <2>0, EmptySeq
  <2>4. TypeOK
    BY <2>0, <2>1, <2>2, <2>3, ConstantsAssumption
       DEF TypeOK, ConstantsAssumption, NoToken
  <2>5. Tokens /\ ClearQueuedSecond /\ Nested /\ Windows
    BY <2>0, <2>1, <2>2 DEF Tokens, ClearQueuedSecond, Nested, Windows
  <2>6. UncommittedWriteIsLocked /\ NoLockLeftBehind
    <3>1. Queued = {}
      <4>1. \A x : x \in ToSet(onCommit) <=> \E i \in 1..Len(onCommit) : onCommit[i] = x
        BY <2>1, MembersLemma
      <4>2. \A i : i \notin 1..Len(onCommit)
        BY <2>1
      <4> QED
        BY <4>1, <4>2 DEF Queued
    <3> QED
      BY <2>0, <3>1 DEF UncommittedWriteIsLocked, NoLockLeftBehind
  <2> QED
    BY <2>4, <2>5, <2>6 DEF Inv
<1>2. Inv /\ [Next]_vars => Inv'
  <2> SUFFICES ASSUME Inv, [Next]_vars PROVE Inv'
    OBVIOUS
  <2>1. CASE UNCHANGED vars
    <3>1. UNCHANGED <<lock, blocks, onCommit, registry, lost, runs>>
      BY <2>1 DEF vars
    <3>2. Tokens' /\ UncommittedWriteIsLocked' /\ NoLockLeftBehind'
      BY <3>1, SameQueue
    <3>3. TypeOK' /\ ClearQueuedSecond' /\ Nested'
      BY <3>1 DEF Inv, TypeOK, ClearQueuedSecond, Nested
    <3>4. Windows'
      BY <3>1 DEF Inv, Windows
    <3> QED
      BY <3>2, <3>3, <3>4 DEF Inv
  <2>2. CASE Open("hook") \/ Open("plain")
    BY <2>2, OpenStep
  <2>3. ASSUME NEW i \in Instances, Drive(i) PROVE Inv'
    BY <2>3, DriveStep
  <2>4. ASSUME NEW i \in Instances, Expire(i) PROVE Inv'
    BY <2>4, ExpireStep
  <2>5. ASSUME NEW n \in 0..Len(onCommit), Commit(n) PROVE Inv'
    BY <2>5, CommitStep
  <2> QED
    BY <2>1, <2>2, <2>3, <2>4, <2>5, LeaveStep, RollBackHookStep, RollBackPlainStep DEF Next
<1> QED
  BY <1>1, <1>2, PTL DEF Spec

(* Tokens, blocks and both queues keep their types. *)
THEOREM TypeCorrect == Spec => []TypeOK
<1>1. Inv => TypeOK
  BY DEF Inv
<1> QED
  BY <1>1, Invariant, PTL

(* DEFER_UNLOCK_UNTIL_COMMIT excludes: what can still commit is locked.    *)
THEOREM WritesStayLocked == Spec => []UncommittedWriteIsLocked
<1>1. Inv => UncommittedWriteIsLocked
  BY DEF Inv
<1> QED
  BY <1>1, Invariant, PTL

(* _run_in_savepoint and _release_lock: a lock that no commit will release *)
(* was dropped by a rollback of the project's own blocks or by an entry    *)
(* that raised, or its release did not reach the cache.                    *)
THEOREM LeftLocksWereLost == Spec => []NoLockLeftBehind
<1>1. Inv => NoLockLeftBehind
  BY DEF Inv
<1> QED
  BY <1>1, Invariant, PTL

(* note_deferred_unlock: the clear is the second entry of every queue, so  *)
(* that a commit which gets there drains the registry.                     *)
THEOREM RegistryIsDrained == Spec => CommitDrainsRegistry
<1>1. ASSUME Inv
      PROVE  \A n \in 2..Len(onCommit) : Commit(n) => registry' = <<>>
  <2> SUFFICES ASSUME NEW n \in 2..Len(onCommit), Commit(n) PROVE registry' = <<>>
    OBVIOUS
  <2>1. TypeOK /\ Len(onCommit) \in Nat
    BY <1>1, QueuedLemma DEF Inv
  <2>2. n \in 0..Len(onCommit) /\ 2 \in 1..n
    BY <2>1
  <2>3. onCommit[2] = Clear
    BY <1>1, <2>1 DEF Inv, ClearQueuedSecond
  <2>4. Clear \in ToSet(SubSeq(onCommit, 1, n))
    BY <2>1, <2>2, <2>3, RanLemma
  <2> QED
    BY <2>4 DEF Commit
<1> QED
  BY <1>1, Invariant, PTL DEF CommitDrainsRegistry
=============================================================================
