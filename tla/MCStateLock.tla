----------------------------- MODULE MCStateLock -----------------------------
(***************************************************************************)
(* Instances of StateLock for TLC: a payment that can be taken and taken   *)
(* back, an Action that notes a failure, and a background export.          *)
(***************************************************************************)
EXTENDS StateLock

McTransitions == {"pay", "reset", "note", "export"}
McStates == {"draft", "exporting", "paid", "failed"}

McKind ==
  [t \in McTransitions |-> CASE t = "export" -> "background"
                             [] t = "note"   -> "action"
                             [] OTHER        -> "sync"]
McSources ==
  [t \in McTransitions |-> CASE t = "pay"    -> {"draft"}
                             [] t = "reset"  -> {"paid", "failed"}
                             [] t = "export" -> {"draft", "exporting"}
                             [] t = "note"   -> McStates]
McTarget ==
  [t \in McTransitions |-> CASE t = "reset" -> "draft"
                             [] t = "note"  -> NoState
                             [] OTHER       -> "paid"]
McFailedState ==
  [t \in McTransitions |-> IF t = "reset" THEN NoState ELSE "failed"]

(* The export marks its instance while it runs, or runs from its source. *)
MarkedExport ==
  [t \in McTransitions |-> IF t = "export" THEN "exporting" ELSE NoState]
UnmarkedExport == [t \in McTransitions |-> NoState]

AllButExport == McTransitions \ {"export"}
=============================================================================
