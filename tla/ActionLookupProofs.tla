------------------------ MODULE ActionLookupProofs ------------------------
(***************************************************************************)
(* What the lookups of ActionLookup guarantee for every process tree, and  *)
(* for every sequence of deployments between the call and the attempt.     *)
(*                                                                         *)
(* The properties speak of the transition a row was enqueued for, which    *)
(* the code does not record.  The invariant ties it to what the row does   *)
(* record: its name, the class that declared it and the class the call     *)
(* entered through, in the version of the code that enqueued it.           *)
(***************************************************************************)
EXTENDS ActionLookup, TLAPS

RowNamesWanted == row # NoRow => Name[row.wanted] = row.name

OwnerDeclaresWanted ==
  row # NoRow /\ row.owner # NoClass =>
    row.wanted \in Declared[row.version][row.owner]

OwnerInTree ==
  row # NoRow /\ row.owner # NoClass /\ row.origin = "call" =>
    /\ row.path \in Importable[row.version]
    /\ row.owner \in Tree(row.version, row.path)

Inv == TypeOK /\ RowNamesWanted /\ OwnerDeclaresWanted /\ OwnerInTree

(* A call walks no class that the worker's walk would not reach: a set     *)
(* closed under all nesting is closed under the nesting of valid classes.  *)
LEMMA WalkedInTree ==
  ASSUME NEW v \in Versions, NEW root \in Classes
  PROVE  Walked(v, root) \subseteq Tree(v, root)
BY DEF Walked, Tree, Reached, Valid

(* What a name resolves to is declared by its owner, which was walked.     *)
LEMMA ResolvedIsDeclared ==
  ASSUME ConstantsAssumption, NEW v \in Versions, NEW root \in Classes,
         NEW a, NEW p \in Resolved(v, root, a)
  PROVE  /\ p[1] \in Transitions /\ p[2] \in Classes
         /\ p[1] \in Declared[v][p[2]]
         /\ p[2] \in Tree(v, root)
<1>1. p \in Transitions \X Walked(v, root) /\ p[1] \in Declared[v][p[2]]
  BY DEF Resolved, Available
<1>2. Walked(v, root) \subseteq Classes
  BY DEF Walked, Valid
<1> QED
  BY <1>1, <1>2, WalkedInTree

(* Every row that is enqueued satisfies the invariant.                     *)
LEMMA EnqueueKeepsInv ==
  ASSUME ConstantsAssumption, TypeOK,
         NEW t \in Transitions, Background[t],
         NEW owner \in Classes \cup {NoClass}, NEW path \in Classes \cup {NoClass},
         NEW side \in Sides, NEW origin \in Origins,
         owner # NoClass => t \in Declared[code[side]][owner],
         owner # NoClass /\ origin = "call" =>
           path \in Importable[code[side]] /\ owner \in Tree(code[side], path),
         Enqueue(t, owner, path, side, origin)
  PROVE  /\ row' \in Rows
         /\ RowNamesWanted' /\ OwnerDeclaresWanted' /\ OwnerInTree'
<1>1. code[side] \in Versions /\ Name[t] \in Actions
  BY DEF TypeOK, ConstantsAssumption
<1>2. row' = [name |-> Name[t], owner |-> owner, path |-> path, wanted |-> t,
              version |-> code[side], origin |-> origin]
  BY DEF Enqueue
<1>3. row' \in Rows
  BY <1>1, <1>2 DEF Rows
<1>4. RowNamesWanted' /\ OwnerDeclaresWanted'
  BY <1>2 DEF RowNamesWanted, OwnerDeclaresWanted
<1>5. OwnerInTree'
  BY <1>2 DEF OwnerInTree, Tree, Reached
<1> QED
  BY <1>3, <1>4, <1>5

(* A call leaves a good row or a good follow-up.                           *)
LEMMA DriveKeepsInv ==
  ASSUME ConstantsAssumption, Inv,
         NEW t \in Transitions,
         NEW owner \in Classes, NEW path \in Classes \cup {NoClass},
         NEW side \in Sides, NEW origin \in Origins,
         t \in Declared[code[side]][owner],
         origin = "call" =>
           path \in Importable[code[side]] /\ owner \in Tree(code[side], path),
         Drive(t, owner, path, side, origin),
         UNCHANGED <<code, passes, restored>>
  PROVE  Inv'
<1>1. CASE Background[t] /\ Enqueue(t, owner, path, side, origin)
             /\ hook' = [hook EXCEPT ![side] = NoHook]
  <2>1. row' \in Rows /\ RowNamesWanted' /\ OwnerDeclaresWanted' /\ OwnerInTree'
    BY <1>1, EnqueueKeepsInv DEF Inv
  <2>2. TypeOK'
    BY <1>1, <2>1 DEF Inv, TypeOK
  <2> QED
    BY <2>1, <2>2 DEF Inv
<1>2. CASE /\ ~Background[t]
           /\ hook' = [hook EXCEPT ![side] = HookOf(t, path)]
           /\ UNCHANGED row
  <2>1. HookOf(t, path) \in Hooks \cup {NoHook}
    BY DEF HookOf, Hooks, ConstantsAssumption
  <2>2. TypeOK'
    BY <1>2, <2>1 DEF Inv, TypeOK
  <2> QED
    BY <1>2, <2>2
       DEF Inv, RowNamesWanted, OwnerDeclaresWanted, OwnerInTree, Tree, Reached
<1> QED
  BY <1>1, <1>2 DEF Drive

(* The other steps leave the row alone or end it.                          *)
LEMMA RowKeptOrEnded ==
  ASSUME Inv, row' \in {row, NoRow}
  PROVE  RowNamesWanted' /\ OwnerDeclaresWanted' /\ OwnerInTree'
BY DEF Inv, RowNamesWanted, OwnerDeclaresWanted, OwnerInTree, Tree, Reached

(* What an attempt finds was declared somewhere.                           *)
LEMMA FoundIsTransition == Found \subseteq Transitions
BY DEF Found, InOwner, Restorable, Candidates

LEMMA AttemptKeepsInv ==
  ASSUME ConstantsAssumption, Inv, Attempt
  PROVE  Inv'
<1>1. /\ row' \in {row, NoRow}
      /\ restored' \in Transitions \cup {NoTransition}
  BY FoundIsTransition DEF Attempt, AttemptRuns, Unrestorable
<1>2. hook' \in [Sides -> Hooks \cup {NoHook}]
  <2>1. ASSUME NEW t \in Transitions PROVE HookOf(t, row.path) \in Hooks \cup {NoHook}
    <3>1. row \in Rows /\ row.path \in Classes \cup {NoClass}
      BY DEF Inv, TypeOK, Attempt, Rows
    <3> QED
      BY <3>1 DEF HookOf, Hooks, ConstantsAssumption
  <2> QED
    BY <2>1 DEF Attempt, AttemptRuns, Unrestorable, Inv, TypeOK
<1>3. TypeOK'
  BY <1>1, <1>2 DEF Inv, TypeOK, Attempt
<1> QED
  BY <1>1, <1>3, RowKeptOrEnded DEF Inv

THEOREM InitInv == ConstantsAssumption /\ Init => Inv
BY DEF Init, Inv, TypeOK, RowNamesWanted, OwnerDeclaresWanted, OwnerInTree,
       ConstantsAssumption

(* Every step keeps the invariant.                                         *)
THEOREM StepInv == ConstantsAssumption /\ Inv /\ [Next]_vars => Inv'
<1> SUFFICES ASSUME ConstantsAssumption, Inv, [Next]_vars PROVE Inv'
  OBVIOUS
<1>1. ASSUME NEW c \in Classes, NEW a \in Actions, Call(c, a) PROVE Inv'
  <2>1. PICK p \in Resolved(code["web"], c, a) : Drive(p[1], p[2], c, "web", "call")
    BY <1>1 DEF Call
  <2>2. code["web"] \in Versions /\ c \in Importable[code["web"]]
    BY <1>1 DEF Call, Inv, TypeOK, Sides, ConstantsAssumption
  <2>3. /\ p[1] \in Transitions /\ p[2] \in Classes
        /\ p[1] \in Declared[code["web"]][p[2]]
        /\ p[2] \in Tree(code["web"], c)
    BY <2>1, <2>2, ResolvedIsDeclared
  <2> QED
    BY <1>1, <2>1, <2>2, <2>3, DriveKeepsInv DEF Call, Sides, Origins
<1>2. ASSUME NEW t \in Transitions, DirectChange(t) PROVE Inv'
  <2>1. row' \in Rows /\ RowNamesWanted' /\ OwnerDeclaresWanted' /\ OwnerInTree'
    BY <1>2, EnqueueKeepsInv DEF DirectChange, Inv, Sides, Origins
  <2> QED
    BY <1>2, <2>1 DEF DirectChange, Inv, TypeOK
<1>3. ASSUME NEW side \in Sides, Follow(side) PROVE Inv'
  <2> DEFINE bound == Bound[code[side]]
  <2>1. code[side] \in Versions /\ bound \in Classes
    BY <1>3 DEF Follow, Inv, TypeOK, ConstantsAssumption
  <2>2. PICK p \in Resolved(code[side], bound, hook[side].name) :
          Drive(p[1], p[2], Inherited(hook[side].path, bound), side, "follow_up")
    BY <1>3 DEF Follow
  <2>3. /\ p[1] \in Transitions /\ p[2] \in Classes
        /\ p[1] \in Declared[code[side]][p[2]]
    BY <2>1, <2>2, ResolvedIsDeclared
  <2>4. Inherited(hook[side].path, bound) \in Classes \cup {NoClass}
    <3>1. hook[side] \in Hooks
      BY <1>3 DEF Follow, Inv, TypeOK
    <3> QED
      BY <2>1, <3>1 DEF Inherited, Hooks
  <2>5. UNCHANGED <<code, passes, restored>>
    BY <1>3 DEF Follow
  <2>6. "follow_up" \in Origins
    BY DEF Origins
  <2> QED
    BY <2>2, <2>3, <2>4, <2>5, <2>6, DriveKeepsInv
<1>4. ASSUME NEW side \in Sides, DropHook(side) PROVE Inv'
  BY <1>4, RowKeptOrEnded DEF DropHook, Inv, TypeOK
<1>5. CASE Attempt
  BY <1>5, AttemptKeepsInv
<1>6. ASSUME NEW x \in Conditional, Flip(x) PROVE Inv'
  BY <1>6, RowKeptOrEnded DEF Flip, Inv, TypeOK
<1>7. ASSUME NEW side \in Sides, NEW v \in Versions, Deploy(side, v) PROVE Inv'
  BY <1>7, RowKeptOrEnded DEF Deploy, Inv, TypeOK
<1>8. CASE UNCHANGED vars
  BY <1>8, RowKeptOrEnded DEF vars, Inv, TypeOK
<1> QED
  BY <1>1, <1>2, <1>3, <1>4, <1>5, <1>6, <1>7, <1>8 DEF Next

(* The invariant of rows, and with it type correctness.                    *)
THEOREM Invariant == Spec => []Inv
<1>1. ConstantsAssumption
  BY ConstantsAssumption
<1> QED
  BY <1>1, InitInv, StepInv, PTL DEF Spec

(* Type correctness (TypeOK) for every process tree.                       *)
THEOREM TypeCorrect == Spec => []TypeOK
<1>1. Inv => TypeOK
  BY DEF Inv
<1> QED
  BY <1>1, Invariant, PTL

-----------------------------------------------------------------------------
(* A transition found in its recorded owner is the one that was enqueued:  *)
(* the validator keeps names unique within a class.                        *)
LEMMA OwnerFindsWanted ==
  ASSUME ConstantsAssumption, UniqueBackgroundNames, Inv, row # NoRow,
         NEW t \in InOwner
  PROVE  t = row.wanted
<1>1. /\ t \in Transitions /\ Name[t] = row.name /\ Background[t]
      /\ row.owner \in Searched /\ t \in Declared[code["worker"]][row.owner]
  BY DEF InOwner, Candidates
<1>2. row \in Rows /\ code["worker"] \in Versions
  BY DEF Inv, TypeOK, Sides
<1>3. row.owner \in Classes
  BY <1>1, <1>2 DEF Searched, Tree, Reached, ConstantsAssumption
<1>4. row.wanted \in Declared[row.version][row.owner] /\ Name[row.wanted] = row.name
  BY <1>3 DEF Inv, OwnerDeclaresWanted, RowNamesWanted, ConstantsAssumption
<1>5. Background[row.wanted] /\ row.version \in Versions
  BY <1>2 DEF Rows
<1> QED
  BY <1>1, <1>2, <1>3, <1>4, <1>5 DEF UniqueBackgroundNames

LEMMA AttemptNeverGuesses ==
  ASSUME ConstantsAssumption, UniqueBackgroundNames, Inv, Attempt
  PROVE  restored' \in {row.wanted, NoTransition} \/ Restorable = {restored'}
<1>1. CASE Unrestorable
  BY <1>1 DEF Unrestorable
<1>2. CASE \E t \in Transitions : AttemptRuns(t)
  <2>1. restored' \in Found
    BY <1>2 DEF AttemptRuns
  <2>2. CASE InOwner # {}
    BY <2>1, <2>2, OwnerFindsWanted DEF Found, Attempt
  <2>3. CASE InOwner = {}
    BY <2>1, <2>3 DEF Found
  <2> QED
    BY <2>2, <2>3
<1> QED
  BY <1>1, <1>2 DEF Attempt

(* NeverTheWrongSibling, whatever is deployed between call and attempt.    *)
THEOREM NoWrongSibling == Spec => NeverTheWrongSibling
<1>1. ConstantsAssumption /\ UniqueBackgroundNames
  BY ConstantsAssumption, ValidatorAssumption
<1>2. Inv /\ [Next]_vars =>
        [Attempt => \/ restored' \in {row.wanted, NoTransition}
                    \/ Restorable = {restored'}]_vars
  BY <1>1, AttemptNeverGuesses
<1> QED
  BY <1>2, Invariant, PTL DEF Spec, NeverTheWrongSibling

(* A row whose owner is found in the tree of its recorded class runs what   *)
(* was enqueued, whatever kind of call left it.                            *)
LEMMA AttemptFindsWanted ==
  ASSUME ConstantsAssumption, UniqueBackgroundNames, Inv, Attempt, ResolvedHere,
         row.path \in Importable[row.version],
         row.owner \in Tree(row.version, row.path)
  PROVE  restored' = row.wanted
<1>1. row \in Rows /\ row # NoRow
  BY DEF Inv, TypeOK, Attempt
<1>2. /\ row.path \in Importable[code["worker"]]
      /\ row.owner \in Tree(code["worker"], row.path)
      /\ row.wanted \in Declared[code["worker"]][row.owner]
      /\ Name[row.wanted] = row.name
  BY <1>1 DEF ResolvedHere, Inv, OwnerDeclaresWanted, RowNamesWanted
<1>3. row.path # NoClass
  BY <1>1, <1>2 DEF Inv, TypeOK, Sides, ConstantsAssumption
<1>4. Searched = Tree(code["worker"], row.path)
  BY <1>2, <1>3 DEF Searched, Root
<1>5. row.wanted \in InOwner
  BY <1>1, <1>2, <1>4 DEF InOwner, Candidates, Rows
<1>6. Found = {row.wanted}
  BY <1>1, <1>5, OwnerFindsWanted DEF Found
<1> QED
  BY <1>6 DEF Attempt, AttemptRuns, Unrestorable

(* CallRunsWhatItEnqueued, for every process tree and all conditions.      *)
THEOREM CallRunsWanted == Spec => CallRunsWhatItEnqueued
<1>1. ConstantsAssumption /\ UniqueBackgroundNames
  BY ConstantsAssumption, ValidatorAssumption
<1>2. Inv /\ [Next]_vars =>
        [Attempt /\ ResolvedHere /\ row.origin = "call" => restored' = row.wanted]_vars
  BY <1>1, AttemptFindsWanted DEF Inv, OwnerInTree, Attempt, ResolvedHere
<1> QED
  BY <1>2, Invariant, PTL DEF Spec, CallRunsWhatItEnqueued

-----------------------------------------------------------------------------
(***************************************************************************)
(* Follow-ups.  A follow-up is resolved under the bound class and enqueued *)
(* with the class its predecessor inherited, so the worker may walk another*)
(* tree than the call did.  The classes a path can name are those calls    *)
(* enter through and the bound ones; if the bound class is below each of   *)
(* them, whatever is found under it is found again under any of them.      *)
(***************************************************************************)
Starts == (UNION {Entries[v] \cup {Bound[v]} : v \in Versions}) \ {NoClass}

OneTree ==
  \A v \in Versions : Bound[v] # NoClass =>
    \A c \in Starts \cap Importable[v] : Bound[v] \in Tree(v, c)

(* A pending follow-up names a class of the code that will call it.        *)
HookStarts ==
  \A side \in Sides : hook[side] # NoHook =>
    hook[side].path \in {NoClass} \cup (Starts \cap Importable[code[side]])

RowStarts ==
  row # NoRow => row.path \in {NoClass} \cup Starts

(* OwnerInTree of the rows of follow-ups, too.                             *)
OwnerUnderPath ==
  row # NoRow /\ row.owner # NoClass =>
    /\ row.path \in Importable[row.version]
    /\ row.owner \in Tree(row.version, row.path)

PathInv == Inv /\ HookStarts /\ RowStarts /\ OwnerUnderPath

LEMMA TreeTransitive ==
  ASSUME ConstantsAssumption, NEW v \in Versions,
         NEW p, NEW b \in Tree(v, p), NEW c \in Tree(v, b)
  PROVE  c \in Tree(v, p)
<1>1. /\ b \in Importable[v] /\ c \in Importable[v]
      /\ Importable[v] \subseteq Classes
  BY DEF Tree, Reached, ConstantsAssumption
<1>2. ASSUME NEW S \in SUBSET Importable[v], p \in S,
             \A d \in S \cap Classes : Nested[v][d] \subseteq S
      PROVE  c \in S
  <2>1. b \in S
    BY <1>2 DEF Tree, Reached
  <2> QED
    BY <1>2, <2>1 DEF Tree, Reached
<1> QED
  BY <1>1, <1>2 DEF Tree, Reached

LEMMA StartsAreClasses == ConstantsAssumption => Starts \subseteq Classes
BY DEF Starts, ConstantsAssumption

(* A call under a class that starts a tree leaves a row or a follow-up of  *)
(* the invariant.                                                          *)
LEMMA DriveKeepsPaths ==
  ASSUME ConstantsAssumption, PathInv,
         NEW t \in Transitions,
         NEW owner \in Classes, NEW side \in Sides, NEW origin \in Origins,
         NEW path \in Starts \cap Importable[code[side]],
         owner \in Tree(code[side], path),
         Drive(t, owner, path, side, origin),
         UNCHANGED code
  PROVE  HookStarts' /\ RowStarts' /\ OwnerUnderPath'
<1>1. hook \in [Sides -> Hooks \cup {NoHook}]
  BY DEF PathInv, Inv, TypeOK
<1>2. CASE Background[t] /\ Enqueue(t, owner, path, side, origin)
             /\ hook' = [hook EXCEPT ![side] = NoHook]
  <2>1. HookStarts'
    BY <1>1, <1>2 DEF PathInv, HookStarts
  <2>2. RowStarts' /\ OwnerUnderPath'
    BY <1>2 DEF Enqueue, RowStarts, OwnerUnderPath, Tree, Reached
  <2> QED
    BY <2>1, <2>2
<1>3. CASE /\ ~Background[t]
           /\ hook' = [hook EXCEPT ![side] = HookOf(t, path)]
           /\ UNCHANGED row
  <2>1. HookStarts'
    BY <1>1, <1>3 DEF PathInv, HookStarts, HookOf, NoHook
  <2>2. RowStarts' /\ OwnerUnderPath'
    BY <1>3 DEF PathInv, RowStarts, OwnerUnderPath, Tree, Reached
  <2> QED
    BY <2>1, <2>2
<1> QED
  BY <1>2, <1>3 DEF Drive

LEMMA EndedKeepsPaths ==
  ASSUME PathInv, row' \in {row, NoRow}
  PROVE  RowStarts' /\ OwnerUnderPath'
BY DEF PathInv, RowStarts, OwnerUnderPath, Tree, Reached

(* The follow-up an attempt leaves names the class the attempt walked.     *)
LEMMA AttemptKeepsPaths ==
  ASSUME ConstantsAssumption, PathInv, Attempt
  PROVE  HookStarts' /\ RowStarts' /\ OwnerUnderPath'
<1>1. hook \in [Sides -> Hooks \cup {NoHook}] /\ UNCHANGED code
  BY DEF PathInv, Inv, TypeOK, Attempt
<1>2. row' \in {row, NoRow}
  BY DEF Attempt, AttemptRuns, Unrestorable
<1>3. ASSUME NEW t \in Transitions, t \in Found,
             hook' = [hook EXCEPT !["worker"] = HookOf(t, row.path)]
      PROVE  HookStarts'
  <2>1. Root # NoClass
    BY <1>3 DEF Found, InOwner, Restorable, Candidates, Searched
  <2>2. row.path \in {NoClass} \cup (Starts \cap Importable[code["worker"]])
    BY <2>1 DEF Root, PathInv, RowStarts, Attempt
  <2> QED
    BY <1>1, <1>3, <2>2 DEF PathInv, HookStarts, HookOf, NoHook
<1>4. ASSUME UNCHANGED hook PROVE HookStarts'
  BY <1>1, <1>4 DEF PathInv, HookStarts
<1>5. HookStarts'
  BY <1>3, <1>4 DEF Attempt, AttemptRuns, Unrestorable
<1> QED
  BY <1>2, <1>5, EndedKeepsPaths

THEOREM InitPaths == ConstantsAssumption /\ Init => PathInv
BY InitInv DEF Init, PathInv, HookStarts, RowStarts, OwnerUnderPath, NoHook

(* Every step keeps the paths under the bound class.                       *)
THEOREM StepPaths ==
  ConstantsAssumption /\ OneTree /\ PathInv /\ [Next]_vars => PathInv'
<1> SUFFICES ASSUME ConstantsAssumption, OneTree, PathInv, [Next]_vars
             PROVE  PathInv'
  OBVIOUS
<1>1. Inv'
  BY StepInv DEF PathInv
<1>2. /\ code \in [Sides -> Versions] /\ hook \in [Sides -> Hooks \cup {NoHook}]
      /\ "web" \in Sides
  BY DEF PathInv, Inv, TypeOK, Sides
<1>3. ASSUME NEW c \in Classes, NEW a \in Actions, Call(c, a)
      PROVE  HookStarts' /\ RowStarts' /\ OwnerUnderPath'
  <2>1. PICK p \in Resolved(code["web"], c, a) : Drive(p[1], p[2], c, "web", "call")
    BY <1>3 DEF Call
  <2>2. c \in Starts \cap Importable[code["web"]]
    BY <1>2, <1>3 DEF Call, Starts, ConstantsAssumption
  <2>3. p[1] \in Transitions /\ p[2] \in Classes /\ p[2] \in Tree(code["web"], c)
    BY <1>2, <2>1, ResolvedIsDeclared
  <2> QED
    BY <1>2, <1>3, <2>1, <2>2, <2>3, DriveKeepsPaths DEF Call, Origins
<1>4. ASSUME NEW t \in Transitions, DirectChange(t)
      PROVE  HookStarts' /\ RowStarts' /\ OwnerUnderPath'
  BY <1>4 DEF DirectChange, Enqueue, PathInv, HookStarts, RowStarts, OwnerUnderPath
<1>5. ASSUME NEW side \in Sides, Follow(side)
      PROVE  HookStarts' /\ RowStarts' /\ OwnerUnderPath'
  <2> DEFINE v == code[side]
             bound == Bound[v]
             path == Inherited(hook[side].path, bound)
  <2>1. v \in Versions /\ bound \in Classes \cap Starts \cap Importable[v]
    <3>1. v \in Versions /\ bound # NoClass
      BY <1>2, <1>5 DEF Follow
    <3> QED
      BY <3>1 DEF Starts, ConstantsAssumption
  <2>2. PICK p \in Resolved(v, bound, hook[side].name) :
          Drive(p[1], p[2], path, side, "follow_up")
    BY <1>5 DEF Follow
  <2>3. p[1] \in Transitions /\ p[2] \in Classes /\ p[2] \in Tree(v, bound)
    BY <2>1, <2>2, ResolvedIsDeclared
  <2>4. path \in Starts \cap Importable[v]
    BY <1>5, <2>1 DEF Follow, Inherited, PathInv, HookStarts
  <2>5. bound \in Tree(v, path)
    BY <2>1, <2>4 DEF OneTree, ConstantsAssumption
  <2>6. p[2] \in Tree(v, path)
    BY <2>1, <2>3, <2>5, TreeTransitive
  <2>7. UNCHANGED code /\ "follow_up" \in Origins
    BY <1>5 DEF Follow, Origins
  <2> HIDE DEF path, bound
  <2> QED
    BY <2>2, <2>3, <2>4, <2>6, <2>7, DriveKeepsPaths
<1>6. ASSUME NEW side \in Sides, DropHook(side)
      PROVE  HookStarts' /\ RowStarts' /\ OwnerUnderPath'
  BY <1>2, <1>6, EndedKeepsPaths DEF DropHook, PathInv, HookStarts
<1>7. CASE Attempt
  BY <1>1, <1>7, AttemptKeepsPaths DEF PathInv
<1>8. ASSUME NEW x \in Conditional, Flip(x)
      PROVE  HookStarts' /\ RowStarts' /\ OwnerUnderPath'
  BY <1>8, EndedKeepsPaths DEF Flip, PathInv, HookStarts
<1>9. ASSUME NEW side \in Sides, NEW v \in Versions, Deploy(side, v)
      PROVE  HookStarts' /\ RowStarts' /\ OwnerUnderPath'
  BY <1>2, <1>9, EndedKeepsPaths DEF Deploy, PathInv, HookStarts
<1>10. CASE UNCHANGED vars
  BY <1>1, <1>10, EndedKeepsPaths DEF vars, PathInv, HookStarts
<1> QED
  BY <1>1, <1>3, <1>4, <1>5, <1>6, <1>7, <1>8, <1>9, <1>10 DEF Next, PathInv

(* RestoresWhatWasEnqueued: what the validator's comment promises of every *)
(* row holds of follow-ups too, where no second class of the same          *)
(* process_name leads anywhere the bound class does not belong.            *)
THEOREM FollowUpsRunWanted ==
  ASSUME OneTree
  PROVE  Spec => RestoresWhatWasEnqueued
<1>1. ConstantsAssumption /\ UniqueBackgroundNames
  BY ConstantsAssumption, ValidatorAssumption
<1>2. Spec => []PathInv
  BY <1>1, OneTree, InitPaths, StepPaths, PTL DEF Spec
<1>3. PathInv /\ [Next]_vars => [Attempt /\ ResolvedHere => restored' = row.wanted]_vars
  BY <1>1, AttemptFindsWanted
     DEF PathInv, OwnerUnderPath, Attempt, ResolvedHere
<1> QED
  BY <1>2, <1>3, PTL DEF Spec, RestoresWhatWasEnqueued
=============================================================================
