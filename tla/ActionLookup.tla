---------------------------- MODULE ActionLookup ----------------------------
(***************************************************************************)
(* How an action name becomes a transition, twice.  The call walks the     *)
(* process classes under the one it entered through and takes the only     *)
(* transition of that name whose conditions pass.  The row it enqueues     *)
(* keeps the name, the class that declared the transition and the class    *)
(* the call entered through, and the worker walks the tree again with      *)
(* these, later, without conditions, and maybe on another version of the   *)
(* code.  Follow-ups (next_transition) call by name from either side.      *)
(*                                                                         *)
(* One instance, and its one uncompleted row.  Conditions, permissions and *)
(* the state in the sources of a transition are one verdict: it passes or  *)
(* it does not, and that can change at any time.                           *)
(***************************************************************************)
CONSTANTS
  Classes, Transitions, Actions,
  Name,         \* Name[t]: the action name of a transition
  Background,   \* Background[t]: is_background
  FollowUp,     \* FollowUp[t]: the name in next_transition, or NoAction
  Conditional,  \* the classes and transitions that have conditions
  Versions,     \* the versions of the code that may be deployed
  Bound,        \* Bound[v]: the class behind instance.<process_name>, or NoClass
  Entries,      \* Entries[v]: the classes calls enter through
  Importable,   \* Importable[v]: the classes that exist
  Nested,       \* Nested[v][c]: nested_processes
  Declared,     \* Declared[v][c]: transitions
  NoClass, NoTransition, NoAction

ASSUME ConstantsAssumption ==
  /\ Name \in [Transitions -> Actions]
  /\ Background \in [Transitions -> BOOLEAN]
  /\ FollowUp \in [Transitions -> Actions \cup {NoAction}]
  /\ Bound \in [Versions -> Classes \cup {NoClass}]
  /\ Entries \in [Versions -> SUBSET Classes]
  /\ Importable \in [Versions -> SUBSET Classes]
  /\ Nested \in [Versions -> [Classes -> SUBSET Classes]]
  /\ Declared \in [Versions -> [Classes -> SUBSET Transitions]]
  /\ \A v \in Versions :
       /\ Entries[v] \cup {Bound[v]} \subseteq Importable[v] \cup {NoClass}
       /\ \A c \in Importable[v] : Nested[v][c] \subseteq Importable[v]
  /\ NoClass \notin Classes
  /\ NoTransition \notin Transitions
  /\ NoAction \notin Actions

(* Within a class a background name is unique: the validator rejects any   *)
(* other class.  The second version is the reader's notion of "the same    *)
(* transition": a class keeps a background name for one transition as long *)
(* as it declares the name.                                                *)
UniqueBackgroundNames ==
  \A v, w \in Versions, c \in Classes :
    \A t \in Declared[v][c], u \in Declared[w][c] :
      Background[t] /\ Background[u] /\ Name[t] = Name[u] => t = u

ASSUME ValidatorAssumption == UniqueBackgroundNames

Sides == {"web", "worker"}

VARIABLES
  code,     \* the version each side runs
  passes,   \* which classes and transitions pass their conditions
  row,      \* the uncompleted row
  hook,     \* the follow-up each side still has to call (bound: one)
  restored  \* what the latest attempt restored

vars == <<code, passes, row, hook, restored>>

Origins == {"call", "follow_up"}

(***************************************************************************)
(* wanted, version and origin are history: the transition that was         *)
(* enqueued, the code that enqueued it, and what kind of call did.         *)
(***************************************************************************)
Rows ==
  [name : Actions, owner : Classes \cup {NoClass}, path : Classes \cup {NoClass},
   wanted : {t \in Transitions : Background[t]}, version : Versions,
   origin : Origins]
NoRow == [name |-> NoAction]

Hooks == [name : Actions, path : Classes \cup {NoClass}]
NoHook == [name |-> NoAction]

TypeOK ==
  /\ code \in [Sides -> Versions]
  /\ passes \subseteq Conditional
  /\ row \in Rows \cup {NoRow}
  /\ hook \in [Sides -> Hooks \cup {NoHook}]
  /\ restored \in Transitions \cup {NoTransition}

Init ==
  /\ \E v \in Versions : code = [s \in Sides |-> v]
  /\ passes \in SUBSET Conditional
  /\ row = NoRow
  /\ hook = [s \in Sides |-> NoHook]
  /\ restored = NoTransition

-----------------------------------------------------------------------------
(***************************************************************************)
(* The walks.  They visit a class once, whatever the paths to it, so what  *)
(* they reach is the least set that holds the root and is closed under the *)
(* nesting of the classes they go through.  A call does not go below a     *)
(* class that is not valid; the worker asks nothing of the classes.        *)
(***************************************************************************)
Passes(x) == x \in Conditional => x \in passes

Reached(v, through, root) ==
  {c \in Importable[v] :
     \A S \in SUBSET Importable[v] :
       root \in S /\ (\A d \in S \cap through : Nested[v][d] \subseteq S)
         => c \in S}

Tree(v, root) == Reached(v, Classes, root)

Valid == {c \in Classes : Passes(c)}
Walked(v, root) == Reached(v, Valid, root) \cap Valid

(* The pairs of transition and owner a call of that name finds, and the    *)
(* pair it resolves to: a name that leaves a choice resolves to nothing.   *)
Available(v, root, name) ==
  {p \in Transitions \X Walked(v, root) :
     p[1] \in Declared[v][p[2]] /\ Name[p[1]] = name /\ Passes(p[1])}

Resolved(v, root, name) ==
  LET found == Available(v, root, name) IN {p \in found : found = {p}}

(* The background transitions of that name among the given classes.        *)
Candidates(v, cs, name) ==
  {t \in Transitions :
     /\ \E c \in cs : t \in Declared[v][c]
     /\ Name[t] = name
     /\ Background[t]}

-----------------------------------------------------------------------------
(* The class that restore starts from: the recorded class wins over the    *)
(* one behind the attribute, and a class that is gone is an error.         *)
Root ==
  LET v == code["worker"]
  IN  IF row.path = NoClass THEN Bound[v]
      ELSE IF row.path \in Importable[v] THEN row.path ELSE NoClass

(* Mutant: restore walks the tree as a call does, conditions and all.      *)
SearchedValid == IF Root = NoClass THEN {} ELSE Walked(code["worker"], Root)

Searched == IF Root = NoClass THEN {} ELSE Tree(code["worker"], Root)

Restorable == Candidates(code["worker"], Searched, row.name)
InOwner == Candidates(code["worker"], Searched \cap {row.owner}, row.name)

(* Mutant: the first of the transitions with that name.                    *)
FirstFound == IF InOwner # {} THEN InOwner ELSE Restorable

(* _find_transition: the recorded owner first, else the name if it leaves  *)
(* one choice.  An empty set is a restore error.                           *)
Found ==
  IF InOwner # {} THEN InOwner
  ELSE LET named == Restorable IN {t \in named : named = {t}}

-----------------------------------------------------------------------------
Enqueue(t, owner, path, side, origin) ==
  /\ row = NoRow
  /\ row' = [name |-> Name[t], owner |-> owner, path |-> path, wanted |-> t,
             version |-> code[side], origin |-> origin]

HookOf(t, path) ==
  IF FollowUp[t] = NoAction THEN NoHook ELSE [name |-> FollowUp[t], path |-> path]

(* Mutant: every call leaves a row.                                        *)
DriveRow(t, owner, path, side, origin) ==
  /\ Enqueue(t, owner, path, side, origin)
  /\ hook' = [hook EXCEPT ![side] = NoHook]

(* What a call of t does on one side: a row, or a run that leaves its      *)
(* follow-up.  A synchronous run waits for the row to be completed.        *)
Drive(t, owner, path, side, origin) ==
  \/ /\ Background[t]
     /\ Enqueue(t, owner, path, side, origin)
     /\ hook' = [hook EXCEPT ![side] = NoHook]
  \/ /\ ~Background[t]
     /\ row = NoRow
     /\ hook' = [hook EXCEPT ![side] = HookOf(t, path)]
     /\ UNCHANGED row

(* A request calls an action on an instance of an entry class.             *)
Call(c, a) ==
  /\ hook["web"] = NoHook
  /\ c \in Entries[code["web"]]
  /\ \E p \in Resolved(code["web"], c, a) : Drive(p[1], p[2], c, "web", "call")
  /\ UNCHANGED <<code, passes, restored>>

(* change_state of a background transition outside a process: a row with   *)
(* no owner and no class, as rows of older releases have.                  *)
DirectChange(t) ==
  /\ Background[t]
  /\ Enqueue(t, NoClass, NoClass, "web", "call")
  /\ UNCHANGED <<code, passes, hook, restored>>

(* A follow-up is called on the bound process.  It inherits the keyword    *)
(* arguments of the run before it, process_class among them.               *)
Inherited(path, bound) == IF path = NoClass THEN bound ELSE path

Follow(side) ==
  LET bound == Bound[code[side]]
  IN  /\ hook[side] # NoHook
      /\ bound # NoClass
      /\ \E p \in Resolved(code[side], bound, hook[side].name) :
           Drive(p[1], p[2], Inherited(hook[side].path, bound), side, "follow_up")
      /\ UNCHANGED <<code, passes, restored>>

(* A follow-up that is not available, ambiguous or fails is dropped.       *)
DropHook(side) ==
  /\ hook[side] # NoHook
  /\ hook' = [hook EXCEPT ![side] = NoHook]
  /\ UNCHANGED <<code, passes, row, restored>>

-----------------------------------------------------------------------------
(* The attempt completes the row and leaves its follow-up, ends it without *)
(* one (superseded, failed for good), or keeps it for a retry.             *)
AttemptRuns(t) ==
  /\ t \in Found
  /\ restored' = t
  /\ \/ /\ row' = NoRow
        /\ hook' = [hook EXCEPT !["worker"] = HookOf(t, row.path)]
     \/ row' = NoRow /\ UNCHANGED hook
     \/ UNCHANGED <<row, hook>>

Unrestorable ==
  /\ Found = {}
  /\ restored' = NoTransition
  /\ row' = NoRow
  /\ UNCHANGED hook

Attempt ==
  /\ row # NoRow
  /\ hook["worker"] = NoHook
  /\ (\E t \in Transitions : AttemptRuns(t)) \/ Unrestorable
  /\ UNCHANGED <<code, passes>>

-----------------------------------------------------------------------------
(* Data, state or permissions change.                                      *)
Flip(x) ==
  /\ passes' = IF x \in passes THEN passes \ {x} ELSE passes \cup {x}
  /\ UNCHANGED <<code, row, hook, restored>>

(* A side restarts on a version of the code; its follow-up is lost.        *)
Deploy(side, v) ==
  /\ v # code[side]
  /\ code' = [code EXCEPT ![side] = v]
  /\ hook' = [hook EXCEPT ![side] = NoHook]
  /\ UNCHANGED <<passes, row, restored>>

Next ==
  \/ \E c \in Classes, a \in Actions : Call(c, a)
  \/ \E t \in Transitions : DirectChange(t)
  \/ \E side \in Sides : Follow(side) \/ DropHook(side)
  \/ Attempt
  \/ \E x \in Conditional : Flip(x)
  \/ \E side \in Sides, v \in Versions : Deploy(side, v)

Spec == Init /\ [][Next]_vars

-----------------------------------------------------------------------------
(***************************************************************************)
(* Whatever is deployed and whatever its conditions say by now, an attempt *)
(* restores the transition that was enqueued, or nothing, or the only      *)
(* background transition that bears its name: with siblings to choose from *)
(* it never guesses (runner.py, _find_transition).                         *)
(***************************************************************************)
NeverTheWrongSibling ==
  [][Attempt => \/ restored' \in {row.wanted, NoTransition}
                \/ Restorable = {restored'}]_vars

(***************************************************************************)
(* A worker on the version that enqueued a row restores exactly what the   *)
(* call resolved, also when the conditions that chose it have flipped, the *)
(* name is shared by siblings, or the class is not the bound one.          *)
(***************************************************************************)
ResolvedHere == row.owner # NoClass /\ row.version = code["worker"]

CallRunsWhatItEnqueued ==
  [][Attempt /\ ResolvedHere /\ row.origin = "call" => restored' = row.wanted]_vars

(***************************************************************************)
(* The same of follow-ups: "Enqueue's transition resolution picks exactly  *)
(* one; the worker restores that exact one via the recorded class"         *)
(* (process.py, _validate_unique_background_action_names).                 *)
(***************************************************************************)
RestoresWhatWasEnqueued ==
  [][Attempt /\ ResolvedHere => restored' = row.wanted]_vars

=============================================================================
