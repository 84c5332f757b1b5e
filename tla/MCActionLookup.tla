--------------------------- MODULE MCActionLookup ---------------------------
(***************************************************************************)
(* A conversation whose messages go out through one of two integrations,   *)
(* and a second process class of the same process_name.  The configuration *)
(* takes the Mc names: TLC evaluates the definition behind a constant at   *)
(* every use, and the tables it refers to once.                            *)
(***************************************************************************)
EXTENDS ActionLookup, TLC

AllClasses == {"main", "gmail", "mail", "dummy", "other"}
AllTransitions == {"open", "gmailSend", "dummySend", "otherSend", "archive"}
Names ==
  [t \in AllTransitions |-> IF t \in {"open", "archive"} THEN t ELSE "send"]
FollowUps ==
  "open" :> "send" @@ "gmailSend" :> "archive"
    @@ [t \in AllTransitions |-> NoAction]
InBackground == "open" :> FALSE @@ [t \in AllTransitions |-> TRUE]

(* A diamond, a class renamed, a class less, and a cycle without a bound   *)
(* class.                                                                  *)
AllVersions == {"first", "renamed", "dropped", "unbound"}
BoundClass == "unbound" :> NoClass @@ [v \in AllVersions |-> "main"]
EntryClasses == "unbound" :> {"main"} @@ [v \in AllVersions |-> {"main", "other"}]
Existing ==
  "first"   :> {"main", "gmail", "dummy", "other"} @@
  "renamed" :> {"main", "mail", "dummy", "other"} @@
  "dropped" :> {"main", "dummy", "other"} @@
  "unbound" :> {"main", "gmail", "dummy"}

Leaves == [c \in AllClasses |-> {}]
Nesting ==
  "first"   :> ("main" :> {"gmail", "dummy"} @@ "gmail" :> {"dummy"} @@ Leaves) @@
  "renamed" :> ("main" :> {"mail", "dummy"} @@ Leaves) @@
  "dropped" :> ("main" :> {"dummy"} @@ Leaves) @@
  "unbound" :> ("main" :> {"gmail", "dummy"} @@ "gmail" :> {"main"} @@ Leaves)

Declarations ==
  "main"  :> {"open", "archive"} @@ "gmail" :> {"gmailSend"} @@
  "mail"  :> {"gmailSend"}       @@ "dummy" :> {"dummySend"} @@
  "other" :> {"open", "otherSend"}
Declaring == [v \in AllVersions |-> Declarations]

McClasses == AllClasses
McTransitions == AllTransitions
McName == Names
McFollowUp == FollowUps
McBackground == InBackground
McVersions == AllVersions
McBound == BoundClass
McEntries == EntryClasses
McImportable == Existing
McNested == Nesting
McDeclared == Declaring
=============================================================================
