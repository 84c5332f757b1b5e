---------------------------- MODULE MCKwargsWire ----------------------------
(***************************************************************************)
(* Instances of KwargsWire for TLC: every value up to three levels deep    *)
(* over a few scalars and keys, alone and next to the reserved keys, with  *)
(* a worker that knows every tag and one that is older.                    *)
(***************************************************************************)
EXTENDS KwargsWire, FiniteSets, TLC

McNonString == {"int 1"}
McBadKeys == {"nul key"}
McLabels ==
  {"k", "value", "1", "int 1", "nul key", "0", "x", TypeTag} \cup Loud \cup Quiet \cup ContextKeys
McKeyText == [l \in McLabels |-> IF l = "int 1" THEN "1" ELSE l]

(* Noon in a zone has the offset of the zone, and a second noon is a noon. *)
McIsoText ==
  "noon Kyiv" :> "noon +03" @@ "noon +03" :> "noon +03" @@ "noon, fold" :> "noon" @@ "noon" :> "noon"

McUsers == {"7"}
McVersions == {"current", "older"}
McKnows == "current" :> Tags @@ "older" :> (Tags \ {"frozenset", "uuid"})

(* A string, a string with NUL, null, and two scalars with a tag, one of   *)
(* which is not kept as it is.                                             *)
Scalars ==
  {Leaf("str", "uuid"), Leaf("nul", "nul"), Nothing, Leaf("uuid", "u"),
   Leaf("datetime", "noon Kyiv")}
Times == {Leaf("datetime", "noon +03"), Leaf("time", "noon, fold"), Leaf("time", "noon")}
Rejects == {Leaf("nan", "nan"), Leaf("object", "request")}

DictKeys == {"k", "value", TypeTag, "int 1", "1", "nul key"}
Sequenced == TaggedContainers \cup {"list"}

(* Containers of a kind with one element, with two, or with none. *)
Holding(kind, items) ==
  {Node(kind, "0" :> i) : i \in
     {i \in items : kind \in {"set", "frozenset"} => Hashable(i)}}
Pairs(kind) ==
  {Node(kind, "0" :> Leaf("str", "uuid") @@ "1" :> i) : i \in {Leaf("uuid", "u"), Nothing}}
Dicts(items) == {Node("dict", k :> i) : k \in DictKeys, i \in items}
BigDicts ==
  {Node("dict", k :> Leaf("uuid", "u") @@ l :> Leaf("str", "uuid")) : k \in DictKeys, l \in DictKeys}

Level1 == Scalars \cup Rejects
WithTimes == Times \cup Dicts(Times) \cup UNION {Holding(kind, Times) : kind \in Sequenced}
Level2 ==
  UNION {Holding(kind, Level1) \cup Pairs(kind) \cup {Node(kind, NoParts)} : kind \in Sequenced}
  \cup Dicts(Level1) \cup BigDicts \cup {Node("dict", NoParts)}
Level3 == UNION {Holding(kind, Level2) : kind \in Sequenced} \cup Dicts(Level2)
Nested == Level1 \cup Level2 \cup Level3 \cup WithTimes

(* One value alone, or a plain value next to the keys the engine reserves. *)
Alone(v) == Node("dict", "x" :> v)
Engine ==
  { "request" :> Leaf("object", "request"), "user_id" :> Leaf("int", "9"),
    "user" :> Leaf("user", "7"), "user" :> Leaf("user", "unsaved"),
    "context" :> Node("dict", NoParts), "owning_process_class" :> Leaf("str", "path"),
    "tr_id" :> Leaf("uuid", "t"), "tr_id" :> Nothing,
    TypeTag :> Leaf("str", "set") }
Together ==
  {Node("dict", e @@ f @@ "x" :> v) :
     e \in Engine, f \in Engine, v \in Level1 \cup Dicts({Leaf("uuid", "u")})}

EveryCall == {Alone(v) : v \in Nested} \cup Together

(* The calls, what the engine makes of them, and every value inside. *)
Whole == EveryCall \cup {Reserved(c) : c \in EveryCall}
EveryValue == Whole \cup Nested \cup UNION {{c.of[l] : l \in DOMAIN c.of} : c \in Whole}

RECURSIVE Deep(_)
Deep(v) ==
  LET inner == {Deep(v.of[l]) : l \in DOMAIN v.of}
  IN  IF inner = {} THEN 0 ELSE 1 + CHOOSE d \in inner : \A e \in inner : e <= d
EveryHeight == [v \in EveryValue |-> Deep(v)]

(* TLC keeps the value of a definition and evaluates a substituted one anew. *)
McCalls == EveryCall
McValues == EveryValue
McHeight == EveryHeight
=============================================================================
