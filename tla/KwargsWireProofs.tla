-------------------------- MODULE KwargsWireProofs --------------------------
(***************************************************************************)
(* Theorems of KwargsWire for every set of Python values, however deep and *)
(* with whatever keys, for every caller and every mix of worker versions.  *)
(*                                                                         *)
(* What encode_value and decode_value do to a value follows from what they *)
(* do to its parts.  An instance of TreeRecursion gives the equation of    *)
(* each recursive function, and a smallest counterexample, a value that    *)
(* breaks a claim while its parts keep it, is the induction.               *)
(***************************************************************************)
EXTENDS KwargsWire, TLAPS

(* What the parts of v become. *)
PartsEncoded(v) == [l \in DOMAIN v.of |-> Encode(v.of[l])]
PartsTextual(v) == [l \in DOMAIN v.of |-> Textual(v.of[l])]
PartsRead(v, ver) == [l \in DOMAIN v.of |-> Decode(Encode(v.of[l]), ver)]

-----------------------------------------------------------------------------
(* Trees. *)

(* The fields of a tree. *)
LEMMA TreeFields ==
  ASSUME NEW kind, NEW text, NEW parts
  PROVE  /\ Tree(kind, text, parts).is = kind
         /\ Tree(kind, text, parts).text = text
         /\ Tree(kind, text, parts).of = parts
         /\ Tree(kind, text, parts).kinds =
              {kind} \cup UNION {parts[l].kinds : l \in DOMAIN parts}
         /\ Tree(kind, text, parts).keys =
              (IF kind = "dict" THEN DOMAIN parts ELSE {})
                \cup UNION {parts[l].keys : l \in DOMAIN parts}
  BY DEF Tree

(* The times in a tree. *)
LEMMA TreeTimes ==
  ASSUME NEW kind, NEW text, NEW parts
  PROVE  Tree(kind, text, parts).times =
           (IF kind \in IsoKinds THEN {text} ELSE {})
             \cup UNION {parts[l].times : l \in DOMAIN parts}
  BY DEF Tree

(* The fields of a node. *)
LEMMA NodeFields ==
  ASSUME NEW kind, NEW parts
  PROVE  Node(kind, parts).is = kind /\ Node(kind, parts).of = parts
  BY DEF Tree, Node

(* What occurs in a node. *)
LEMMA NodeHolds ==
  ASSUME NEW kind, NEW parts
  PROVE  /\ Node(kind, parts).kinds = {kind} \cup UNION {parts[l].kinds : l \in DOMAIN parts}
         /\ Node(kind, parts).keys = (IF kind = "dict" THEN DOMAIN parts ELSE {})
                                      \cup UNION {parts[l].keys : l \in DOMAIN parts}
  BY DEF Tree, Node

(* A dict adds its own keys to those inside. *)
LEMMA DictFields ==
  ASSUME NEW parts
  PROVE  /\ Node("dict", parts).is = "dict" /\ Node("dict", parts).of = parts
         /\ Node("dict", parts).kinds = {"dict"} \cup UNION {parts[l].kinds : l \in DOMAIN parts}
         /\ Node("dict", parts).keys = DOMAIN parts \cup UNION {parts[l].keys : l \in DOMAIN parts}
  BY DEF Tree, Node

(* A leaf carries its kind and no keys. *)
LEMMA LeafFields ==
  ASSUME NEW kind, NEW text
  PROVE  /\ Leaf(kind, text).is = kind /\ Leaf(kind, text).text = text
         /\ Leaf(kind, text).of = NoParts /\ DOMAIN Leaf(kind, text).of = {}
         /\ Leaf(kind, text).kinds = {kind}
         /\ kind # "dict" => Leaf(kind, text).keys = {}
<1>1. DOMAIN NoParts = {}
  BY DEF NoParts
<1> QED
  BY <1>1, TreeFields DEF Leaf

(* A leaf that is no time holds none. *)
LEMMA LeafTimes ==
  ASSUME NEW kind, NEW text, kind \notin IsoKinds
  PROVE  Leaf(kind, text).times = {}
<1>1. DOMAIN NoParts = {}
  BY DEF NoParts
<1> QED
  BY <1>1, TreeTimes DEF Leaf

(* The wrapping of a tagged value. *)
LEMMA TaggedFields ==
  ASSUME NEW tag, NEW payload
  PROVE  /\ Tagged(tag, payload).is = "dict"
         /\ DOMAIN Tagged(tag, payload).of = {TypeTag, "value"}
         /\ Tagged(tag, payload).of[TypeTag].text = tag
         /\ Tagged(tag, payload).of["value"] = payload
         /\ Tagged(tag, payload).kinds = {"dict", "str"} \cup payload.kinds
         /\ Tagged(tag, payload).keys = {TypeTag, "value"} \cup payload.keys
         /\ IsTagged(Tagged(tag, payload))
<1> DEFINE parts == [k \in {TypeTag, "value"} |-> IF k = TypeTag THEN Leaf("str", tag) ELSE payload]
<1>1. /\ DOMAIN parts = {TypeTag, "value"} /\ parts[TypeTag] = Leaf("str", tag)
      /\ parts["value"] = payload
  BY DEF TypeTag
<1>2. /\ UNION {parts[l].kinds : l \in DOMAIN parts} = {"str"} \cup payload.kinds
      /\ UNION {parts[l].keys : l \in DOMAIN parts} = payload.keys
  <2> HIDE DEF parts
  <2> QED
    BY <1>1, LeafFields
<1>3. Tagged(tag, payload) = Node("dict", parts)
  BY DEF Tagged
<1>4. Nothing # Leaf("str", tag)
  <2>1. Nothing.is = "none" /\ Leaf("str", tag).is = "str"
    BY LeafFields DEF Nothing
  <2> QED
    BY <2>1
<1> HIDE DEF parts
<1>5. Tagged(tag, payload).is = "dict" /\ Tagged(tag, payload).of = parts
  BY <1>3, DictFields
<1>6. Tagged(tag, payload).kinds = {"dict"} \cup {"str"} \cup payload.kinds
  BY <1>2, <1>3, DictFields
<1>7. Tagged(tag, payload).keys = {TypeTag, "value"} \cup payload.keys
  BY <1>1, <1>2, <1>3, DictFields
<1>8. IsTagged(Tagged(tag, payload))
  BY <1>1, <1>4, <1>5 DEF IsTagged
<1> QED
  BY <1>1, <1>5, <1>6, <1>7, <1>8, LeafFields

(* What a dict becomes in JSON: every text comes from a key of the dict,   *)
(* and no key is the tag of the module unless it was before.               *)
LEMMA JsonKeys ==
  ASSUME NEW v \in Values, v.is = "dict", NEW t \in {KeyText[k] : k \in DOMAIN v.of}
  PROVE  /\ Survivor(DOMAIN v.of, t) \in DOMAIN v.of
         /\ KeyText[Survivor(DOMAIN v.of, t)] = t
         /\ t \notin NonString
         /\ t = TypeTag => TypeTag \in DOMAIN v.of
         /\ v.keys \cap BadKeys = {} => t \notin BadKeys
<1>1. \E k \in DOMAIN v.of : KeyText[k] = t
  OBVIOUS
<1>2. Survivor(DOMAIN v.of, t) \in DOMAIN v.of /\ KeyText[Survivor(DOMAIN v.of, t)] = t
  BY <1>1 DEF Survivor
<1>3. DOMAIN v.of \subseteq v.keys
  <2>1. v = Node("dict", v.of)
    BY ValuesAssumption DEF Node, Containers
  <2> QED
    BY <2>1, DictFields
<1> QED
  BY <1>2, <1>3, KeysAssumption

(* The tag of the module is a text of a dict exactly when it is a key. *)
LEMMA TagStaysKey ==
  ASSUME NEW v \in Values, v.is = "dict", TypeTag \in DOMAIN v.of
  PROVE  TypeTag \in {KeyText[k] : k \in DOMAIN v.of}
<1>1. DOMAIN v.of \subseteq v.keys
  <2>1. v = Node("dict", v.of)
    BY ValuesAssumption DEF Node, Containers
  <2> QED
    BY <2>1, DictFields
<1>2. KeyText[TypeTag] = TypeTag
  BY <1>1, KeysAssumption
<1> QED
  BY <1>2

(* A dict with strings for keys keeps them, with what they stand for. *)
LEMMA StringKeysStay ==
  ASSUME NEW v \in Values, v.is = "dict", DOMAIN v.of \cap NonString = {},
         NEW items, DOMAIN items = DOMAIN v.of, items = [l \in DOMAIN v.of |-> items[l]]
  PROVE  JsonObject(items) = Node("dict", items)
<1>1. \A k \in DOMAIN v.of : KeyText[k] = k
  <2>1. DOMAIN v.of \subseteq v.keys
    <3>1. v = Node("dict", v.of)
      BY ValuesAssumption DEF Node, Containers
    <3> QED
      BY <3>1, DictFields
  <2> QED
    BY <2>1, KeysAssumption
<1>2. {KeyText[k] : k \in DOMAIN v.of} = DOMAIN v.of
  BY <1>1
<1>3. \A t \in DOMAIN v.of : Survivor(DOMAIN v.of, t) = t
  BY <1>1 DEF Survivor
<1>4. [t \in {KeyText[k] : k \in DOMAIN v.of} |-> items[Survivor(DOMAIN v.of, t)]] = items
  BY <1>2, <1>3
<1> QED
  BY <1>4 DEF JsonObject

-----------------------------------------------------------------------------
(* The equations of the recursive functions. *)

(* The parts of a value are less deep than the value. *)
LEMMA PartsAreLower ==
  ASSUME NEW v \in Values, NEW l \in DOMAIN v.of
  PROVE  v.of[l] \in Values /\ Height[v.of[l]] < Height[v]
  BY ValuesAssumption

(* A set of values has one whose parts are all outside it: the induction   *)
(* principle of this module.                                               *)
LEMMA SmallestValue ==
  ASSUME NEW S, S \subseteq Values, S # {}
  PROVE  \E v \in S : \A l \in DOMAIN v.of : v.of[l] \in Values \ S
<1>1. Encoding!WellFounded(Values)
  BY Encoding!HeightsAreWellFounded, PartsAreLower, ValuesAssumption DEF Children
<1> QED
  BY <1>1, PartsAreLower DEF Encoding!WellFounded, Children

(* encode_value. *)
LEMMA EncodeEquation ==
  ASSUME NEW v \in Values
  PROVE  Encode(v) = Encoded(v, PartsEncoded(v))
<1>1. Encoding!WellFounded(Values)
  BY Encoding!HeightsAreWellFounded, PartsAreLower, ValuesAssumption DEF Children
<1>2. Encoding!Fold[v] = Encoded(v, Encoding!OfParts(Encoding!Fold, v))
  BY <1>1, Encoding!Folds
<1>3. Encoding!OfParts(Encoding!Fold, v) = PartsEncoded(v)
  BY DEF Encoding!OfParts, PartsEncoded, Encode, Children
<1> QED
  BY <1>2, <1>3 DEF Encode

(* The same value with the keys that JSON gives it. *)
LEMMA TextualEquation ==
  ASSUME NEW v \in Values
  PROVE  Textual(v) = Rebuilt(v, PartsTextual(v))
<1>1. Keyed!WellFounded(Values)
  BY Keyed!HeightsAreWellFounded, PartsAreLower, ValuesAssumption DEF Children
<1>2. Keyed!Fold[v] = Rebuilt(v, Keyed!OfParts(Keyed!Fold, v))
  BY <1>1, Keyed!Folds
<1>3. Keyed!OfParts(Keyed!Fold, v) = PartsTextual(v)
  BY DEF Keyed!OfParts, PartsTextual, Textual, Children
<1> QED
  BY <1>2, <1>3 DEF Textual

(* The readings that are no misreading. *)
LEMMA ReadingEquation ==
  ASSUME NEW v \in Values
  PROVE  Reading!Fold[v] = ReadOrTagged(v, [l \in DOMAIN v.of |-> Reading!Fold[v.of[l]]])
<1>1. Reading!WellFounded(Values)
  BY Reading!HeightsAreWellFounded, PartsAreLower, ValuesAssumption DEF Children
<1>2. Reading!Fold[v] = ReadOrTagged(v, Reading!OfParts(Reading!Fold, v))
  BY <1>1, Reading!Folds
<1>3. Reading!OfParts(Reading!Fold, v) = [l \in DOMAIN v.of |-> Reading!Fold[v.of[l]]]
  BY DEF Reading!OfParts, Children
<1> QED
  BY <1>2, <1>3

-----------------------------------------------------------------------------
(* What is stored, and what decode_value calls itself for. *)

(* The items of a dict under the keys that JSON gives them. *)
Kept(items) == [t \in {KeyText[k] : k \in DOMAIN items} |-> items[Survivor(DOMAIN items, t)]]

(* A stored dict has the kept items, whatever they are. *)
LEMMA KeptItems ==
  ASSUME NEW items
  PROVE  JsonObject(items) = Node("dict", Kept(items))
  BY DEF JsonObject, Kept

(* A value is the tree of its parts, and only containers have any. *)
LEMMA ValueFields ==
  ASSUME NEW v \in Values
  PROVE  /\ v = Tree(v.is, v.text, v.of)
         /\ v.is \in Containers => v = Node(v.is, v.of)
         /\ v.is \notin Containers => v = Leaf(v.is, v.text) /\ v.of = NoParts /\ DOMAIN v.of = {}
<1>1. v = Tree(v.is, v.text, v.of)
  BY ValuesAssumption
<1>2. v.is \in Containers => v.text = ""
  BY ValuesAssumption
<1>3. v.is \notin Containers => v.of = NoParts
  BY ValuesAssumption
<1>4. DOMAIN NoParts = {}
  BY DEF NoParts
<1> QED
  BY <1>1, <1>2, <1>3, <1>4 DEF Node, Leaf

(* A value that is no container has nothing in it. *)
LEMMA ScalarsHoldNothing ==
  ASSUME NEW v \in Values, v.is \notin Containers, NEW ver
  PROVE  PartsEncoded(v) = NoParts /\ PartsTextual(v) = NoParts /\ PartsRead(v, ver) = NoParts
<1>1. DOMAIN v.of = {}
  BY ValueFields
<1> QED
  BY <1>1 DEF PartsEncoded, PartsTextual, PartsRead, NoParts

(* The form of each kind of value in the column. *)
LEMMA StoredForms ==
  ASSUME NEW v \in Values
  PROVE  /\ v.is \in TaggedScalars => Encode(v) = Tagged(v.is, Leaf("str", ScalarText(v)))
         /\ v.is \in TaggedContainers => Encode(v) = Tagged(v.is, Node("list", PartsEncoded(v)))
         /\ v.is = "list" => Encode(v) = Node("list", PartsEncoded(v))
         /\ v.is = "dict" => Encode(v) = Escape(PartsEncoded(v))
         /\ v.is \notin TaggedScalars \cup Containers => Encode(v) = v
<1>1. Encode(v) = Encoded(v, PartsEncoded(v))
  BY EncodeEquation
<1>2. CASE v.is \in TaggedScalars
  BY <1>1, <1>2 DEF Encoded, TaggedScalars, TaggedContainers, Containers
<1>3. CASE v.is \in TaggedContainers
  BY <1>1, <1>3 DEF Encoded, TaggedScalars, TaggedContainers, Containers
<1>4. CASE v.is = "list"
  BY <1>1, <1>4 DEF Encoded, TaggedScalars, TaggedContainers, Containers
<1>5. CASE v.is = "dict"
  BY <1>1, <1>5 DEF Encoded, TaggedScalars, TaggedContainers, Containers
<1>6. CASE v.is \notin TaggedScalars \cup Containers
  BY <1>1, <1>6 DEF Encoded, TaggedScalars, TaggedContainers, Containers
<1> QED
  BY <1>2, <1>3, <1>4, <1>5, <1>6 DEF Containers

(* A dict with the tag key is wrapped, and another dict is no tagged one. *)
LEMMA StoredDict ==
  ASSUME NEW v \in Values, v.is = "dict"
  PROVE  \/ Encode(v) = Tagged("dict", Node("dict", Kept(PartsEncoded(v))))
         \/ Encode(v) = Node("dict", Kept(PartsEncoded(v))) /\ ~IsTagged(Encode(v))
<1>1. DOMAIN PartsEncoded(v) = DOMAIN v.of
  BY DEF PartsEncoded
<1>2. Encode(v) = Escape(PartsEncoded(v))
  BY StoredForms
<1>3. JsonObject(PartsEncoded(v)) = Node("dict", Kept(PartsEncoded(v)))
  BY KeptItems
<1>4. CASE TypeTag \in DOMAIN v.of
  BY <1>1, <1>2, <1>3, <1>4 DEF Escape
<1>5. CASE TypeTag \notin DOMAIN v.of
  <2>1. Encode(v) = Node("dict", Kept(PartsEncoded(v)))
    BY <1>1, <1>2, <1>3, <1>5 DEF Escape
  <2>2. DOMAIN Kept(PartsEncoded(v)) = {KeyText[k] : k \in DOMAIN v.of}
    BY <1>1 DEF Kept
  <2>3. TypeTag \notin DOMAIN Kept(PartsEncoded(v))
    BY <1>5, <2>2, JsonKeys
  <2>4. DOMAIN Encode(v).of = DOMAIN Kept(PartsEncoded(v))
    BY <2>1, DictFields
  <2> QED
    BY <2>1, <2>3, <2>4 DEF IsTagged
<1> QED
  BY <1>4, <1>5

(* decode_value calls itself for the stored forms of the parts, and for no *)
(* other tree.                                                             *)
LEMMA InsideOfStored ==
  ASSUME NEW v \in Values
  PROVE  Inside(Encode(v)) = IF v.is = "dict" THEN Kept(PartsEncoded(v)) ELSE PartsEncoded(v)
<1>1. CASE v.is \in TaggedScalars
  <2>1. Inside(Encode(v)) = NoParts
    BY <1>1, StoredForms, TaggedFields, LeafFields DEF Inside
  <2>2. v.is \notin Containers
    BY <1>1 DEF TaggedScalars, Containers, TaggedContainers
  <2> QED
    BY <2>1, <2>2, ScalarsHoldNothing DEF Containers
<1>2. CASE v.is \in TaggedContainers
  <2>1. Inside(Encode(v)) = Node("list", PartsEncoded(v)).of
    BY <1>2, StoredForms, TaggedFields DEF Inside
  <2> QED
    BY <1>2, <2>1, NodeFields DEF TaggedContainers
<1>3. CASE v.is = "list"
  <2>1. Encode(v).is = "list" /\ Encode(v).of = PartsEncoded(v)
    BY <1>3, StoredForms, NodeFields
  <2> QED
    BY <1>3, <2>1 DEF Inside, IsTagged
<1>4. CASE v.is = "dict"
  <2>1. CASE Encode(v) = Tagged("dict", Node("dict", Kept(PartsEncoded(v))))
    BY <1>4, <2>1, TaggedFields, DictFields DEF Inside
  <2>2. CASE Encode(v) = Node("dict", Kept(PartsEncoded(v))) /\ ~IsTagged(Encode(v))
    BY <1>4, <2>2, DictFields DEF Inside
  <2> QED
    BY <1>4, <2>1, <2>2, StoredDict
<1>5. CASE v.is \notin TaggedScalars \cup Containers
  <2>1. Encode(v) = v /\ ~IsTagged(v)
    BY <1>5, StoredForms DEF IsTagged, Containers
  <2>2. Inside(Encode(v)) = NoParts
    BY <1>5, <2>1, ValueFields DEF Inside
  <2> QED
    BY <1>5, <2>2, ScalarsHoldNothing DEF Containers
<1> QED
  BY <1>1, <1>2, <1>3, <1>4, <1>5 DEF Containers

(* Every tree inside the stored form of v is the stored form of a part. *)
LEMMA InsideArePartsOfValue ==
  ASSUME NEW v \in Values, NEW l \in DOMAIN Inside(Encode(v))
  PROVE  \E k \in DOMAIN v.of : Inside(Encode(v))[l] = Encode(v.of[k])
<1>1. CASE v.is = "dict"
  <2>1. DOMAIN PartsEncoded(v) = DOMAIN v.of
    BY DEF PartsEncoded
  <2>2. l \in {KeyText[k] : k \in DOMAIN v.of}
    BY <1>1, <2>1, InsideOfStored DEF Kept
  <2>3. Inside(Encode(v))[l] = PartsEncoded(v)[Survivor(DOMAIN v.of, l)]
    BY <1>1, <2>1, <2>2, InsideOfStored DEF Kept
  <2>4. Survivor(DOMAIN v.of, l) \in DOMAIN v.of
    BY <1>1, <2>2, JsonKeys
  <2> QED
    BY <2>3, <2>4 DEF PartsEncoded
<1>2. CASE v.is # "dict"
  BY <1>2, InsideOfStored DEF PartsEncoded
<1> QED
  BY <1>1, <1>2

(* decode_value comes to an end for everything that is stored. *)
LEMMA RowsAreWellFounded == Decoding!WellFounded(Rows)
<1>1. ASSUME NEW r \in Rows, NEW l \in DOMAIN Inside(r)
      PROVE  Inside(r)[l] \in Rows
  <2>1. PICK v \in Values : r = Encode(v)
    BY DEF Rows
  <2>2. PICK k \in DOMAIN v.of : Inside(r)[l] = Encode(v.of[k])
    BY <2>1, InsideArePartsOfValue
  <2> QED
    BY <2>2, PartsAreLower DEF Rows
<1>2. ASSUME NEW S \in SUBSET Rows, S # {}
      PROVE  \E r \in S : \A l \in DOMAIN Inside(r) : Inside(r)[l] \notin S
  <2> DEFINE T == {v \in Values : Encode(v) \in S}
  <2>1. T # {} /\ T \subseteq Values
    BY <1>2 DEF Rows
  <2>2. PICK v \in T : \A l \in DOMAIN v.of : v.of[l] \in Values \ T
    <3> HIDE DEF T
    <3> QED
      BY <2>1, SmallestValue
  <2>3. ASSUME NEW l \in DOMAIN Inside(Encode(v))
        PROVE  Inside(Encode(v))[l] \notin S
    <3>1. PICK k \in DOMAIN v.of : Inside(Encode(v))[l] = Encode(v.of[k])
      BY InsideArePartsOfValue
    <3> QED
      BY <2>2, <3>1
  <2> QED
    BY <2>3
<1> QED
  BY <1>1, <1>2 DEF Decoding!WellFounded, Decoding!Closed

(* decode_value, in a worker of version ver. *)
LEMMA DecodeEquation ==
  ASSUME NEW r \in Rows, NEW ver \in Versions
  PROVE  Decode(r, ver) =
           DecodedBy(Knows[ver], r, [l \in DOMAIN Inside(r) |-> Decode(Inside(r)[l], ver)])
<1> DEFINE items == Decoding!OfParts(Decoding!Fold, r)
<1>1. Decoding!Fold[r] = Decoded(r, items)
  BY RowsAreWellFounded, Decoding!Folds
<1>2. DOMAIN items = DOMAIN Inside(r) /\ \A l \in DOMAIN items : items[l] = Decoding!Fold[Inside(r)[l]]
  BY DEF Decoding!OfParts
<1> HIDE DEF items
<1>3. Decoded(r, items)[ver] = DecodedBy(Knows[ver], r, [l \in DOMAIN items |-> items[l][ver]])
  BY DEF Decoded
<1>4. [l \in DOMAIN items |-> items[l][ver]] = [l \in DOMAIN Inside(r) |-> Decode(Inside(r)[l], ver)]
  BY <1>2 DEF Decode
<1> QED
  BY <1>1, <1>3, <1>4 DEF Decode

(* The trees inside the stored form of v, once they are read. *)
LEMMA InsideRead ==
  ASSUME NEW v \in Values, NEW ver
  PROVE  [l \in DOMAIN Inside(Encode(v)) |-> Decode(Inside(Encode(v))[l], ver)]
           = IF v.is = "dict" THEN Kept(PartsRead(v, ver)) ELSE PartsRead(v, ver)
<1>1. DOMAIN PartsEncoded(v) = DOMAIN v.of /\ DOMAIN PartsRead(v, ver) = DOMAIN v.of
  BY DEF PartsEncoded, PartsRead
<1>2. CASE v.is = "dict"
  <2>1. ASSUME NEW t \in {KeyText[k] : k \in DOMAIN v.of}
        PROVE  Decode(Kept(PartsEncoded(v))[t], ver) = PartsRead(v, ver)[Survivor(DOMAIN v.of, t)]
    <3>1. Survivor(DOMAIN v.of, t) \in DOMAIN v.of
      BY <1>2, JsonKeys
    <3>2. Kept(PartsEncoded(v))[t] = PartsEncoded(v)[Survivor(DOMAIN v.of, t)]
      BY <1>1 DEF Kept
    <3> QED
      BY <3>1, <3>2 DEF PartsEncoded, PartsRead
  <2>2. DOMAIN Kept(PartsEncoded(v)) = {KeyText[k] : k \in DOMAIN v.of}
    BY <1>1 DEF Kept
  <2>3. Kept(PartsRead(v, ver)) =
          [t \in {KeyText[k] : k \in DOMAIN v.of} |-> PartsRead(v, ver)[Survivor(DOMAIN v.of, t)]]
    BY <1>1 DEF Kept
  <2> QED
    BY <1>2, <2>1, <2>2, <2>3, InsideOfStored
<1>3. CASE v.is # "dict"
  BY <1>3, InsideOfStored DEF PartsEncoded, PartsRead
<1> QED
  BY <1>2, <1>3

(***************************************************************************)
(* What a worker makes of a stored value: the value with its parts as they *)
(* were read, or the stored form as it is.  The latter only if the worker  *)
(* does not know the tag, or if a part of a set was read as no element.    *)
(***************************************************************************)
LEMMA DecodedForms ==
  ASSUME NEW v \in Values, NEW ver \in Versions
  PROVE  \/ Decode(Encode(v), ver) = Rebuilt(v, PartsRead(v, ver))
         \/ /\ Decode(Encode(v), ver) = Encode(v)
            /\ v.is # "dict"
            /\ \/ v.is \in Tags \ Knows[ver]
               \/ /\ v.is \in {"set", "frozenset"}
                  /\ \E l \in DOMAIN v.of : ~Hashable(Decode(Encode(v.of[l]), ver))
<1> DEFINE items == IF v.is = "dict" THEN Kept(PartsRead(v, ver)) ELSE PartsRead(v, ver)
<1>1. Decode(Encode(v), ver) = DecodedBy(Knows[ver], Encode(v), items)
  <2>1. Encode(v) \in Rows
    BY DEF Rows
  <2>2. [l \in DOMAIN Inside(Encode(v)) |-> Decode(Inside(Encode(v))[l], ver)] = items
    BY InsideRead
  <2> QED
    BY <2>1, <2>2, DecodeEquation
<1>2. v.is # "dict" => items = PartsRead(v, ver)
  OBVIOUS
<1>3. v.is = "dict" => items = Kept(PartsRead(v, ver))
  OBVIOUS
<1>4. v.is # "dict" => Rebuilt(v, PartsRead(v, ver)) = Tree(v.is, ScalarText(v), PartsRead(v, ver))
  BY DEF Rebuilt
<1>5. v.is = "dict" => Rebuilt(v, PartsRead(v, ver)) = Node("dict", items)
  BY KeptItems DEF Rebuilt
<1>6. v.is \notin IsoKinds => ScalarText(v) = v.text
  BY DEF ScalarText
<1>14. v.is \in Containers => v.text = "" /\ v.is \notin IsoKinds
  BY ValuesAssumption DEF Containers, TaggedContainers, IsoKinds
<1> HIDE DEF items
<1>7. CASE v.is \in TaggedScalars
  <2> DEFINE r == Encode(v)
  <2>1. /\ r.is = "dict" /\ r.of[TypeTag].text = v.is /\ IsTagged(r)
        /\ r.of["value"] = Leaf("str", ScalarText(v))
    BY <1>7, StoredForms, TaggedFields
  <2>2. v.is \in Tags /\ v.is # "dict" /\ v.is \notin Containers
    BY <1>7 DEF Tags, TaggedScalars, TaggedContainers, Containers
  <2>3. Leaf(v.is, ScalarText(v)) = Rebuilt(v, PartsRead(v, ver))
    BY <1>4, <2>2, ScalarsHoldNothing DEF Leaf
  <2>4. r.of["value"].text = ScalarText(v)
    BY <2>1, LeafFields
  <2> HIDE DEF r
  <2>5. DecodedBy(Knows[ver], r, items) = IF v.is \in Knows[ver] THEN Leaf(v.is, ScalarText(v)) ELSE r
    BY <1>7, <2>1, <2>4 DEF DecodedBy, Unknown
  <2> QED
    BY <1>1, <2>2, <2>3, <2>5 DEF r
<1>8. CASE v.is \in TaggedContainers
  <2> DEFINE r == Encode(v)
  <2>1. r.is = "dict" /\ r.of[TypeTag].text = v.is /\ IsTagged(r)
    BY <1>8, StoredForms, TaggedFields
  <2>2. v.is \in Tags /\ v.is # "dict" /\ v.is \in Containers /\ v.is \notin TaggedScalars
    BY <1>8 DEF Tags, TaggedScalars, TaggedContainers, Containers
  <2>3. Node(v.is, items) = Rebuilt(v, PartsRead(v, ver))
    BY <1>2, <1>4, <1>6, <1>14, <2>2 DEF Node
  <2>4. DOMAIN items = DOMAIN v.of /\ \A l \in DOMAIN items : items[l] = Decode(Encode(v.of[l]), ver)
    BY <1>2, <2>2 DEF PartsRead
  <2> HIDE DEF r
  <2>5. DecodedBy(Knows[ver], r, items) =
          IF v.is \notin Knows[ver] THEN r
          ELSE IF v.is \in {"set", "frozenset"} /\ \E l \in DOMAIN items : ~Hashable(items[l])
          THEN r ELSE Node(v.is, items)
    BY <2>1, <2>2 DEF DecodedBy, Unknown
  <2> QED
    BY <1>1, <2>2, <2>3, <2>4, <2>5 DEF r
<1>9. CASE v.is = "list"
  <2>1. Encode(v).is = "list"
    BY <1>9, StoredForms, NodeFields
  <2>2. DecodedBy(Knows[ver], Encode(v), items) = Node("list", items)
    BY <2>1 DEF DecodedBy, IsTagged
  <2>3. Node("list", items) = Rebuilt(v, PartsRead(v, ver))
    BY <1>2, <1>4, <1>6, <1>9, <1>14 DEF Node, Containers
  <2> QED
    BY <1>1, <2>2, <2>3
<1>10. CASE v.is = "dict"
  <2>1. CASE Encode(v) = Tagged("dict", Node("dict", Kept(PartsEncoded(v))))
    <3> DEFINE r == Encode(v)
    <3>1. r.is = "dict" /\ r.of[TypeTag].text = "dict" /\ IsTagged(r)
      BY <2>1, TaggedFields
    <3>2. "dict" \in Knows[ver]
      BY CallsAssumption
    <3> HIDE DEF r
    <3>3. DecodedBy(Knows[ver], r, items) = Node("dict", items)
      BY <3>1, <3>2 DEF DecodedBy, TaggedScalars
    <3> QED
      BY <1>1, <1>5, <1>10, <3>3 DEF r
  <2>2. CASE Encode(v) = Node("dict", Kept(PartsEncoded(v))) /\ ~IsTagged(Encode(v))
    <3>1. Encode(v).is = "dict"
      BY <2>2, NodeFields
    <3>2. DecodedBy(Knows[ver], Encode(v), items) = Node("dict", items)
      BY <2>2, <3>1 DEF DecodedBy
    <3> QED
      BY <1>1, <1>5, <1>10, <3>2
  <2> QED
    BY <1>10, <2>1, <2>2, StoredDict
<1>11. CASE v.is \notin TaggedScalars \cup Containers
  <2>1. Encode(v) = v /\ v.is # "dict" /\ v.is # "list" /\ ~IsTagged(v)
    BY <1>11, StoredForms DEF IsTagged, Containers
  <2>2. DecodedBy(Knows[ver], v, items) = v
    BY <2>1 DEF DecodedBy
  <2>3. v = Rebuilt(v, PartsRead(v, ver))
    <3>1. v.is \notin IsoKinds
      BY <1>11 DEF IsoKinds, TaggedScalars
    <3> QED
      BY <1>4, <1>6, <1>11, <2>1, <3>1, ValueFields, ScalarsHoldNothing
  <2> QED
    BY <1>1, <2>1, <2>2, <2>3
<1> QED
  BY <1>7, <1>8, <1>9, <1>10, <1>11 DEF Containers

-----------------------------------------------------------------------------
(* What becomes of a value, whatever its parts. *)

(* What occurs in a part occurs in the value. *)
LEMMA PartsAreInside ==
  ASSUME NEW v \in Values
  PROVE  /\ v.kinds = {v.is} \cup UNION {v.of[l].kinds : l \in DOMAIN v.of}
         /\ v.keys = (IF v.is = "dict" THEN DOMAIN v.of ELSE {})
                       \cup UNION {v.of[l].keys : l \in DOMAIN v.of}
         /\ v.times = (IF v.is \in IsoKinds THEN {v.text} ELSE {})
                        \cup UNION {v.of[l].times : l \in DOMAIN v.of}
         /\ \A l \in DOMAIN v.of :
              /\ v.of[l].kinds \subseteq v.kinds /\ v.of[l].keys \subseteq v.keys
              /\ v.of[l].times \subseteq v.times
<1> DEFINE t == Tree(v.is, v.text, v.of)
<1>1. t.kinds = {v.is} \cup UNION {v.of[l].kinds : l \in DOMAIN v.of}
  BY TreeFields
<1>2. t.keys = (IF v.is = "dict" THEN DOMAIN v.of ELSE {}) \cup UNION {v.of[l].keys : l \in DOMAIN v.of}
  BY TreeFields
<1>3. v = t
  BY ValueFields
<1>4. t.times = (IF v.is \in IsoKinds THEN {v.text} ELSE {}) \cup UNION {v.of[l].times : l \in DOMAIN v.of}
  BY TreeTimes
<1> HIDE DEF t
<1> QED
  BY <1>1, <1>2, <1>3, <1>4

(* The form that JSON keeps of a value brings no kind of value with it. *)
LEMMA TextualKinds ==
  ASSUME NEW v \in Values
  PROVE  Textual(v).kinds \subseteq v.kinds
<1> DEFINE S == {w \in Values : ~(Textual(w).kinds \subseteq w.kinds)}
<1>1. SUFFICES ASSUME S # {} PROVE FALSE
  OBVIOUS
<1>2. PICK w \in S : \A l \in DOMAIN w.of : w.of[l] \in Values \ S
  <2>1. S \subseteq Values
    OBVIOUS
  <2> HIDE DEF S
  <2> QED
    BY <1>1, <2>1, SmallestValue
<1>3. \A l \in DOMAIN w.of : Textual(w.of[l]).kinds \subseteq w.kinds
  BY <1>2, PartsAreInside
<1>4. w.is \in w.kinds
  BY PartsAreInside
<1>5. DOMAIN PartsTextual(w) = DOMAIN w.of
      /\ \A l \in DOMAIN w.of : PartsTextual(w)[l].kinds \subseteq w.kinds
  BY <1>3 DEF PartsTextual
<1>6. CASE w.is = "dict"
  <2>1. Textual(w) = Node("dict", Kept(PartsTextual(w)))
    BY <1>6, TextualEquation, KeptItems DEF Rebuilt
  <2>2. ASSUME NEW t \in DOMAIN Kept(PartsTextual(w))
        PROVE  Kept(PartsTextual(w))[t].kinds \subseteq w.kinds
    <3>1. t \in {KeyText[k] : k \in DOMAIN w.of}
      BY <1>5 DEF Kept
    <3>2. Survivor(DOMAIN w.of, t) \in DOMAIN w.of
      BY <1>6, <3>1, JsonKeys
    <3> QED
      BY <1>5, <3>1, <3>2 DEF Kept
  <2>3. Textual(w).kinds \subseteq w.kinds
    BY <1>4, <1>6, <2>1, <2>2, DictFields
  <2> QED
    BY <2>3
<1>7. CASE w.is # "dict"
  <2>1. Textual(w) = Tree(w.is, ScalarText(w), PartsTextual(w))
    BY <1>7, TextualEquation DEF Rebuilt
  <2>2. Textual(w).kinds = {w.is} \cup UNION {PartsTextual(w)[l].kinds : l \in DOMAIN w.of}
    BY <1>5, <2>1, TreeFields
  <2>3. Textual(w).kinds \subseteq w.kinds
    BY <1>4, <1>5, <2>2
  <2> QED
    BY <2>3
<1> QED
  BY <1>6, <1>7

(* A value with strings for keys, and with times that isoformat() keeps,   *)
(* at any depth, keeps everything.                                         *)
LEMMA StringKeysKeepAll ==
  ASSUME NEW v \in Values, v.keys \cap NonString = {}, ~Degrades(v)
  PROVE  Textual(v) = v
<1> DEFINE S == {w \in Values : w.keys \cap NonString = {} /\ ~Degrades(w) /\ Textual(w) # w}
<1>1. SUFFICES ASSUME S # {} PROVE FALSE
  OBVIOUS
<1>2. PICK w \in S : \A l \in DOMAIN w.of : w.of[l] \in Values \ S
  <2>1. S \subseteq Values
    OBVIOUS
  <2> HIDE DEF S
  <2> QED
    BY <1>1, <2>1, SmallestValue
<1>3. \A l \in DOMAIN w.of : w.of[l].keys \cap NonString = {} /\ ~Degrades(w.of[l])
  BY PartsAreInside DEF Degrades
<1>4. \A l \in DOMAIN w.of : Textual(w.of[l]) = w.of[l]
  BY <1>2, <1>3
<1>5. w.of = [l \in DOMAIN w.of |-> w.of[l]]
  BY ValuesAssumption
<1>6. PartsTextual(w) = w.of
  BY <1>4, <1>5 DEF PartsTextual
<1>7. Rebuilt(w, w.of) = w
  <2>1. CASE w.is = "dict"
    <3>1. DOMAIN w.of \cap NonString = {}
      BY <2>1, PartsAreInside
    <3>2. JsonObject(w.of) = Node("dict", w.of)
      BY <1>5, <2>1, <3>1, StringKeysStay
    <3> QED
      BY <2>1, <3>2, ValueFields DEF Rebuilt, Containers
  <2>2. CASE w.is # "dict"
    <3>1. ScalarText(w) = w.text
      BY PartsAreInside DEF ScalarText, Degrades
    <3> QED
      BY <2>2, <3>1, ValueFields DEF Rebuilt
  <2> QED
    BY <2>1, <2>2
<1>8. Textual(w) = w
  BY <1>6, <1>7, TextualEquation
<1> QED
  BY <1>8

(***************************************************************************)
(* A worker that knows every tag gives back each stored value, at whatever *)
(* depth, with nothing changed but the keys that were no strings and the   *)
(* zones and folds of its times.                                           *)
(***************************************************************************)
LEMMA CurrentReadsBack ==
  ASSUME NEW ver \in Versions, Knows[ver] = Tags, NEW v \in Values
  PROVE  Decode(Encode(v), ver) = Textual(v)
<1> DEFINE S == {w \in Values : Decode(Encode(w), ver) # Textual(w)}
<1>1. SUFFICES ASSUME S # {} PROVE FALSE
  OBVIOUS
<1>2. PICK w \in S : \A l \in DOMAIN w.of : w.of[l] \in Values \ S
  <2>1. S \subseteq Values
    OBVIOUS
  <2> HIDE DEF S
  <2> QED
    BY <1>1, <2>1, SmallestValue
<1>3. \A l \in DOMAIN w.of : Decode(Encode(w.of[l]), ver) = Textual(w.of[l])
  BY <1>2
<1>4. PartsRead(w, ver) = PartsTextual(w)
  BY <1>3 DEF PartsRead, PartsTextual
<1>5. ASSUME w.is \in {"set", "frozenset"}, NEW l \in DOMAIN w.of
      PROVE  Hashable(Decode(Encode(w.of[l]), ver))
  <2>1. w.of[l] \in Values /\ Hashable(w.of[l])
    BY <1>5, ValuesAssumption
  <2>2. Textual(w.of[l]).kinds \subseteq w.of[l].kinds
    BY <2>1, TextualKinds
  <2> QED
    BY <1>3, <2>1, <2>2 DEF Hashable
<1>6. Decode(Encode(w), ver) = Rebuilt(w, PartsRead(w, ver))
  BY <1>5, DecodedForms
<1>7. Decode(Encode(w), ver) = Textual(w)
  BY <1>4, <1>6, TextualEquation
<1> QED
  BY <1>7

(* encode_value: two values with the same stored form are the same up to   *)
(* their keys that are no strings and to the zones and folds of their      *)
(* times, which is all that encode_value loses.  So no dict of a caller,   *)
(* whatever tags it contains, is stored as a value of another type is.     *)
THEOREM StoredFormIsUnique ==
  ASSUME NEW ver \in Versions, Knows[ver] = Tags,
         NEW v \in Values, NEW w \in Values, Encode(v) = Encode(w)
  PROVE  /\ Textual(v) = Textual(w)
         /\ (v.keys \cup w.keys) \cap NonString = {} /\ ~Degrades(v) /\ ~Degrades(w) => v = w
<1>1. Textual(v) = Textual(w)
  <2>1. Decode(Encode(v), ver) = Textual(v) /\ Decode(Encode(w), ver) = Textual(w)
    BY CurrentReadsBack
  <2> QED
    BY <2>1
<1>2. ASSUME (v.keys \cup w.keys) \cap NonString = {}, ~Degrades(v), ~Degrades(w)
      PROVE  v = w
  <2>1. Textual(v) = v /\ Textual(w) = w
    BY <1>2, StringKeysKeepAll
  <2> QED
    BY <1>1, <2>1
<1> QED
  BY <1>1, <1>2

(* A worker of any version gives back each stored value as a reading of it. *)
LEMMA EveryVersionReads ==
  ASSUME NEW ver \in Versions, NEW v \in Values
  PROVE  Decode(Encode(v), ver) \in Reading!Fold[v]
<1> DEFINE S == {w \in Values : Decode(Encode(w), ver) \notin Reading!Fold[w]}
<1>1. SUFFICES ASSUME S # {} PROVE FALSE
  OBVIOUS
<1>2. PICK w \in S : \A l \in DOMAIN w.of : w.of[l] \in Values \ S
  <2>1. S \subseteq Values
    OBVIOUS
  <2> HIDE DEF S
  <2> QED
    BY <1>1, <2>1, SmallestValue
<1> DEFINE readings == [l \in DOMAIN w.of |-> Reading!Fold[w.of[l]]]
<1>3. \A l \in DOMAIN w.of : Decode(Encode(w.of[l]), ver) \in readings[l]
  BY <1>2
<1>4. DOMAIN readings = DOMAIN w.of
  OBVIOUS
<1>5. Reading!Fold[w] = ReadOrTagged(w, readings)
  BY ReadingEquation
<1> HIDE DEF readings
<1>6. PartsRead(w, ver) \in Choices(readings)
  BY <1>3, <1>4 DEF PartsRead, Choices
<1>7. Decode(Encode(w), ver) = Encode(w) \/ Decode(Encode(w), ver) = Rebuilt(w, PartsRead(w, ver))
  BY DecodedForms
<1>8. Decode(Encode(w), ver) \in Reading!Fold[w]
  BY <1>5, <1>6, <1>7 DEF ReadOrTagged
<1> QED
  BY <1>8

(* What json.dumps accepts is stored in JSON's own kinds, and no key that  *)
(* jsonb rejects comes into being.                                         *)
LEMMA StoredIsStorable ==
  ASSUME NEW v \in Values, v.kinds \subseteq JsonKinds \cup Tags, v.keys \cap BadKeys = {}
  PROVE  /\ Encode(v).kinds \subseteq JsonKinds
         /\ Encode(v).keys \cap (NonString \cup BadKeys) = {}
<1> DEFINE Storable(r) == r.kinds \subseteq JsonKinds /\ r.keys \cap (NonString \cup BadKeys) = {}
<1> DEFINE S == {w \in Values : /\ w.kinds \subseteq JsonKinds \cup Tags
                               /\ w.keys \cap BadKeys = {} /\ ~Storable(Encode(w))}
<1>1. SUFFICES ASSUME S # {} PROVE FALSE
  OBVIOUS
<1>2. PICK w \in S : \A l \in DOMAIN w.of : w.of[l] \in Values \ S
  <2>1. S \subseteq Values
    OBVIOUS
  <2> HIDE DEF S
  <2> QED
    BY <1>1, <2>1, SmallestValue
<1>3. \A l \in DOMAIN w.of : w.of[l].kinds \subseteq JsonKinds \cup Tags /\ w.of[l].keys \cap BadKeys = {}
  BY PartsAreInside
<1>4. \A l \in DOMAIN w.of : Storable(PartsEncoded(w)[l])
  BY <1>2, <1>3 DEF PartsEncoded
<1>5. DOMAIN PartsEncoded(w) = DOMAIN w.of
  BY DEF PartsEncoded
<1>6. w \in Values /\ w.kinds \subseteq JsonKinds \cup Tags /\ w.keys \cap BadKeys = {}
      /\ ~Storable(Encode(w))
  BY <1>2
<1>7. {TypeTag, "value"} \cap (NonString \cup BadKeys) = {}
  BY KeysAssumption
<1>8. {"dict", "list", "str"} \subseteq JsonKinds
  BY DEF JsonKinds
<1> HIDE DEF S
<1>9. Storable(Node("list", PartsEncoded(w)))
  <2>1. UNION {PartsEncoded(w)[l].kinds : l \in DOMAIN PartsEncoded(w)} \subseteq JsonKinds
    BY <1>4, <1>5
  <2>2. (UNION {PartsEncoded(w)[l].keys : l \in DOMAIN PartsEncoded(w)}) \cap (NonString \cup BadKeys) = {}
    BY <1>4, <1>5
  <2> QED
    BY <1>8, <2>1, <2>2, NodeHolds
<1>10. ASSUME NEW payload, NEW tag, Storable(payload)
       PROVE  Storable(Tagged(tag, payload))
  BY <1>7, <1>8, <1>10, TaggedFields
<1>11. Storable(Leaf("str", ScalarText(w)))
  BY <1>8, LeafFields
<1>12. CASE w.is \in TaggedScalars
  BY <1>6, <1>10, <1>11, <1>12, StoredForms
<1>13. CASE w.is \in TaggedContainers
  BY <1>6, <1>9, <1>10, <1>13, StoredForms
<1>14. CASE w.is = "list"
  BY <1>6, <1>9, <1>14, StoredForms
<1>15. CASE w.is = "dict"
  <2> DEFINE kept == Kept(PartsEncoded(w))
  <2>1. ASSUME NEW t \in DOMAIN kept
        PROVE  Storable(kept[t]) /\ t \notin NonString \cup BadKeys
    <3>1. t \in {KeyText[k] : k \in DOMAIN w.of}
      BY <1>5 DEF Kept
    <3>2. Survivor(DOMAIN w.of, t) \in DOMAIN w.of /\ t \notin NonString \cup BadKeys
      BY <1>6, <1>15, <3>1, JsonKeys
    <3>3. kept[t] = PartsEncoded(w)[Survivor(DOMAIN w.of, t)]
      BY <1>5, <3>1 DEF Kept
    <3> QED
      BY <1>4, <3>2, <3>3
  <2> HIDE DEF kept
  <2>2. UNION {kept[t].kinds : t \in DOMAIN kept} \subseteq JsonKinds
    BY <2>1
  <2>3. (UNION {kept[t].keys : t \in DOMAIN kept}) \cap (NonString \cup BadKeys) = {}
    BY <2>1
  <2>4. Storable(Node("dict", kept))
    BY <1>8, <2>1, <2>2, <2>3, DictFields
  <2>5. Encode(w) = Node("dict", kept) \/ Encode(w) = Tagged("dict", Node("dict", kept))
    BY <1>6, <1>15, StoredDict DEF kept
  <2> QED
    BY <1>6, <1>10, <2>4, <2>5
<1>16. CASE w.is \notin TaggedScalars \cup Containers
  <2>1. Encode(w) = w /\ w = Leaf(w.is, w.text)
    BY <1>6, <1>16, StoredForms, ValueFields
  <2>2. w.kinds = {w.is} /\ w.keys = {}
    BY <1>16, <2>1, LeafFields DEF Containers
  <2>3. w.is \in JsonKinds
    BY <1>6, <1>16, <2>2 DEF Tags, Containers
  <2> QED
    BY <1>6, <2>1, <2>2, <2>3
<1> QED
  BY <1>12, <1>13, <1>14, <1>15, <1>16 DEF Containers

-----------------------------------------------------------------------------
(* The keyword arguments of one call. *)

(* The keys that are stored for a call, and the values under them. *)
LEMMA ReservedFields ==
  ASSUME NEW c \in Calls
  PROVE  /\ Reserved(c).is = "dict"
         /\ DOMAIN Reserved(c).of =
              (DOMAIN c.of \ (Loud \cup Quiet)) \cup (IF HasPk(c) THEN {"user_id"} ELSE {})
         /\ HasPk(c) => Reserved(c).of["user_id"] = Leaf("int", c.of["user"].text)
         /\ \A k \in Plain(c) : k \in DOMAIN Reserved(c).of /\ Reserved(c).of[k] = c.of[k]
         /\ \A k \in DOMAIN c.of \cap ContextKeys :
              k \in DOMAIN Reserved(c).of /\ Reserved(c).of[k] = AsText(c.of[k])
         /\ DOMAIN Reserved(c).of \cap NonString = {}
<1> DEFINE names == (DOMAIN c.of \ (Loud \cup Quiet)) \cup (IF HasPk(c) THEN {"user_id"} ELSE {})
<1> DEFINE values == [k \in names |-> CASE k = "user_id" -> Leaf("int", c.of["user"].text)
                                        [] k \in ContextKeys -> AsText(c.of[k])
                                        [] OTHER -> c.of[k]]
<1>1. Reserved(c) = Node("dict", values)
  BY DEF Reserved
<1>2. Reserved(c).is = "dict" /\ Reserved(c).of = values
  <2> HIDE DEF values
  <2> QED
    BY <1>1, NodeFields
<1>3. HasPk(c) => values["user_id"] = Leaf("int", c.of["user"].text)
  BY DEF ContextKeys
<1>4. ASSUME NEW k \in Plain(c)
      PROVE  k \in names /\ values[k] = c.of[k]
  BY DEF Plain, EngineKeys, Loud
<1>5. ASSUME NEW k \in DOMAIN c.of \cap ContextKeys
      PROVE  k \in names /\ values[k] = AsText(c.of[k])
  BY DEF ContextKeys, Loud, Quiet
<1>6. names \cap NonString = {}
  BY CallsAssumption, KeysAssumption DEF Loud
<1>7. DOMAIN values = names
  OBVIOUS
<1> HIDE DEF values
<1> QED
  BY <1>2, <1>3, <1>4, <1>5, <1>6, <1>7

(* What a worker decodes for a call: a dict with the keys that were stored *)
(* and, under each, what the worker makes of the value.                    *)
LEMMA CallRead ==
  ASSUME NEW c \in Calls, NEW ver \in Versions
  PROVE  Decode(Encode(Reserved(c)), ver).of = PartsRead(Reserved(c), ver)
<1> DEFINE v == Reserved(c)
<1>1. v \in Values /\ v.is = "dict" /\ DOMAIN v.of \cap NonString = {}
  BY ReservedFields, CallsAssumption
<1> HIDE DEF v
<1>2. Decode(Encode(v), ver) = JsonObject(PartsRead(v, ver))
  BY <1>1, DecodedForms DEF Rebuilt
<1>3. DOMAIN PartsRead(v, ver) = DOMAIN v.of
      /\ PartsRead(v, ver) = [l \in DOMAIN v.of |-> PartsRead(v, ver)[l]]
  BY DEF PartsRead
<1>4. JsonObject(PartsRead(v, ver)) = Node("dict", PartsRead(v, ver))
  BY <1>1, <1>3, StringKeysStay
<1> QED
  BY <1>2, <1>4, NodeFields DEF v

(* A scalar other than a time is read back as it was by a current worker. *)
LEMMA ScalarReadBack ==
  ASSUME NEW ver \in Versions, Knows[ver] = Tags, NEW v \in Values,
         v.is \notin Containers \cup IsoKinds
  PROVE  Decode(Encode(v), ver) = v
<1>1. v.keys = {}
  BY ValueFields, LeafFields DEF Containers
<1>3. ~Degrades(v)
  BY ValueFields, LeafTimes DEF Degrades
<1>2. Textual(v) = v
  BY <1>1, <1>3, StringKeysKeepAll
<1> QED
  BY <1>2, CurrentReadsBack

(* What hooks get of the decoded arguments d when the users in u exist. *)
GivenTo(kwargs, d, u) ==
  /\ DOMAIN kwargs.of =
       (DOMAIN d.of \ {"user_id"}) \cup {"context"} \cup (IF Has(d, "user_id") THEN {"user"} ELSE {})
  /\ \A k \in DOMAIN d.of \ {"user_id", "user", "context"} : kwargs.of[k] = d.of[k]
  /\ Has(d, "user_id") =>
       \/ kwargs.of["user"] = Leaf("user", d.of["user_id"].text)
       \/ kwargs.of["user"] = Nothing /\ d.of["user_id"].text \notin u

(* restore_user gives that to the hooks. *)
LEMMA RestoredGives ==
  ASSUME NEW d
  PROVE  GivenTo(Restored(d), d, users)
<1> DEFINE names == (DOMAIN d.of \ {"user_id"}) \cup {"context"}
<1> DEFINE asked == IF Has(d, "user_id") THEN {"user"} ELSE {}
<1> DEFINE pk == d.of["user_id"].text
<1> DEFINE values == [k \in names \cup asked |->
                       CASE k \in asked -> IF pk \in users THEN Leaf("user", pk) ELSE Nothing
                         [] k = "context" -> Node("dict", NoParts)
                         [] OTHER -> d.of[k]]
<1>1. Restored(d) = Node("dict", values)
  BY DEF Restored
<1>2. DOMAIN values = names \cup asked
  OBVIOUS
<1>3. \A k \in DOMAIN d.of \ {"user_id", "user", "context"} : values[k] = d.of[k]
  OBVIOUS
<1>4. Has(d, "user_id") => values["user"] = IF pk \in users THEN Leaf("user", pk) ELSE Nothing
  OBVIOUS
<1> HIDE DEF values
<1>5. Restored(d).of = values
  BY <1>1, NodeFields
<1> QED
  BY <1>2, <1>3, <1>4, <1>5 DEF GivenTo

-----------------------------------------------------------------------------
(* The invariant: the row is what became of the call, and what the hooks   *)
(* of the last attempt got is what became of the row.                      *)

CallInv == call = NoTree \/ call \in Calls

RowInv ==
  row # NoTree =>
    /\ call \in Calls /\ ~Rejected(call)
    /\ row = Encode(Reserved(call)) /\ warned = Warnings(call)

SeenInv ==
  seen # NotRun =>
    /\ row # NoTree /\ seen.by \in Versions
    /\ GivenTo(seen.kwargs, Decode(row, seen.by), users)

KwargsInv == CallInv /\ RowInv /\ SeenInv

(* A call is not the absence of one. *)
LEMMA CallsAreTrees == NoTree \notin Calls
<1>1. NoTree.is = "absent"
  BY LeafFields DEF NoTree
<1> QED
  BY <1>1, CallsAssumption

(* Nothing is stored before a call. *)
LEMMA InitKwargs == Init => KwargsInv
  BY DEF Init, KwargsInv, CallInv, RowInv, SeenInv

(* Every step keeps the invariant. *)
LEMMA NextKwargs == KwargsInv /\ [Next]_vars => KwargsInv'
<1> SUFFICES ASSUME KwargsInv, [Next]_vars
             PROVE  KwargsInv'
  OBVIOUS
<1>1. ASSUME NEW kw \in Calls, Enqueue(kw)
      PROVE  KwargsInv'
  <2>1. row = NoTree /\ seen = NotRun
    BY <1>1, CallsAreTrees DEF KwargsInv, RowInv, SeenInv, Enqueue
  <2>2. call' = kw /\ seen' = seen /\ strict' = strict
    BY <1>1 DEF Enqueue
  <2>3. CallInv' /\ SeenInv'
    BY <2>1, <2>2 DEF CallInv, SeenInv
  <2>4. CASE Rejected(kw)
    <3>1. row' = row
      BY <1>1, <2>4 DEF Enqueue
    <3> QED
      BY <2>1, <2>3, <3>1 DEF KwargsInv, RowInv
  <2>5. CASE ~Rejected(kw)
    <3>1. row' = Encode(Reserved(kw)) /\ warned' = Warnings(kw)
      BY <1>1, <2>5 DEF Enqueue
    <3>2. Rejected(kw)' = Rejected(kw)
      BY <2>2 DEF Rejected
    <3>3. RowInv'
      BY <2>2, <2>5, <3>1, <3>2 DEF RowInv
    <3> QED
      BY <2>3, <3>3 DEF KwargsInv
  <2> QED
    BY <2>4, <2>5
<1>2. ASSUME NEW v \in Versions, Attempt(v)
      PROVE  KwargsInv'
  <2>1. /\ row # NoTree
        /\ seen' = [by |-> v, kwargs |-> Restored(Decode(row, v))]
        /\ UNCHANGED <<strict, call, row, warned, users>>
    BY <1>2 DEF Attempt, Deserialized
  <2>2. CallInv'
    BY <2>1 DEF KwargsInv, CallInv
  <2>3. RowInv'
    BY <2>1 DEF KwargsInv, RowInv, Rejected
  <2>4. GivenTo(Restored(Decode(row, v)), Decode(row, v), users)
    BY RestoredGives
  <2>5. SeenInv'
    BY <2>1, <2>4 DEF SeenInv
  <2> QED
    BY <2>2, <2>3, <2>5 DEF KwargsInv
<1>3. ASSUME NEW u \in Users, DeleteUser(u)
      PROVE  KwargsInv'
  <2>1. users' \subseteq users /\ UNCHANGED <<strict, call, row, warned, seen>>
    BY <1>3 DEF DeleteUser
  <2>2. CallInv' /\ RowInv'
    BY <2>1 DEF KwargsInv, CallInv, RowInv, Rejected
  <2>3. SeenInv'
    BY <2>1 DEF KwargsInv, SeenInv, GivenTo
  <2> QED
    BY <2>2, <2>3 DEF KwargsInv
<1>4. CASE UNCHANGED vars
  BY <1>4 DEF vars, KwargsInv, CallInv, RowInv, SeenInv, Rejected, GivenTo
<1> QED
  BY <1>1, <1>2, <1>3, <1>4 DEF Next

(* The row is the stored form of an accepted call, and the last attempt    *)
(* decoded that row.                                                       *)
THEOREM KwargsInvariant == Spec => []KwargsInv
  BY InitKwargs, NextKwargs, PTL DEF Spec

-----------------------------------------------------------------------------
(* What the hooks of an attempt get, under each key of the call. *)

(* Every state with an attempt: the hooks got what the worker made of the  *)
(* stored value of each key, and the user if he still exists.              *)
LEMMA AttemptGives ==
  ASSUME KwargsInv, Attempted
  PROVE  /\ call \in Calls /\ ~Rejected(call) /\ warned = Warnings(call) /\ seen.by \in Versions
         /\ DOMAIN seen.kwargs.of =
              (DOMAIN call.of \ (Loud \cup Quiet)) \cup {"context"}
                \cup (IF HasPk(call) THEN {"user"} ELSE {})
         /\ \A k \in DOMAIN Reserved(call).of \ {"user_id"} :
              /\ k \in DOMAIN seen.kwargs.of /\ Reserved(call).of[k] \in Values
              /\ seen.kwargs.of[k] = Decode(Encode(Reserved(call).of[k]), seen.by)
         /\ HasPk(call) =>
              /\ Reserved(call).of["user_id"] \in Values
              /\ LET id == Decode(Encode(Reserved(call).of["user_id"]), seen.by)
                 IN  \/ seen.kwargs.of["user"] = Leaf("user", id.text)
                     \/ seen.kwargs.of["user"] = Nothing /\ id.text \notin users
<1>1. /\ call \in Calls /\ ~Rejected(call) /\ warned = Warnings(call) /\ seen.by \in Versions
      /\ row = Encode(Reserved(call)) /\ GivenTo(seen.kwargs, Decode(row, seen.by), users)
  BY DEF KwargsInv, RowInv, SeenInv, Attempted
<1> DEFINE v == Reserved(call)
<1> DEFINE d == Decode(row, seen.by)
<1>2. d.of = PartsRead(v, seen.by)
  BY <1>1, CallRead
<1>3. v \in Values
  BY <1>1, CallsAssumption
<1>4. DOMAIN v.of = (DOMAIN call.of \ (Loud \cup Quiet)) \cup (IF HasPk(call) THEN {"user_id"} ELSE {})
  BY <1>1, ReservedFields
<1>5. GivenTo(seen.kwargs, d, users)
  BY <1>1
<1> HIDE DEF v, d
<1>6. DOMAIN d.of = DOMAIN v.of
      /\ \A k \in DOMAIN v.of : d.of[k] = Decode(Encode(v.of[k]), seen.by) /\ v.of[k] \in Values
  BY <1>2, <1>3, PartsAreLower DEF PartsRead
<1>7. Has(d, "user_id") <=> HasPk(call)
  BY <1>4, <1>6 DEF Has, Loud
<1>8. "user" \notin DOMAIN v.of /\ "context" \notin DOMAIN v.of
  BY <1>4 DEF Quiet
<1>9. DOMAIN seen.kwargs.of =
        (DOMAIN d.of \ {"user_id"}) \cup {"context"} \cup (IF HasPk(call) THEN {"user"} ELSE {})
  BY <1>5, <1>7 DEF GivenTo
<1>10. DOMAIN v.of \ {"user_id"} = DOMAIN call.of \ (Loud \cup Quiet)
  BY <1>4 DEF Loud
<1>11. ASSUME NEW k \in DOMAIN v.of \ {"user_id"}
       PROVE  k \in DOMAIN seen.kwargs.of /\ v.of[k] \in Values
              /\ seen.kwargs.of[k] = Decode(Encode(v.of[k]), seen.by)
  BY <1>5, <1>6, <1>8, <1>9 DEF GivenTo
<1>12. HasPk(call) =>
         /\ v.of["user_id"] \in Values
         /\ \/ seen.kwargs.of["user"] = Leaf("user", Decode(Encode(v.of["user_id"]), seen.by).text)
            \/ /\ seen.kwargs.of["user"] = Nothing
               /\ Decode(Encode(v.of["user_id"]), seen.by).text \notin users
  BY <1>4, <1>5, <1>6, <1>7 DEF GivenTo
<1>13. DOMAIN seen.kwargs.of =
         (DOMAIN call.of \ (Loud \cup Quiet)) \cup {"context"} \cup (IF HasPk(call) THEN {"user"} ELSE {})
  BY <1>6, <1>9, <1>10
<1> QED
  BY <1>1, <1>11, <1>12, <1>13 DEF v

(* The same for a worker of a current version, under the caller's keys. *)
LEMMA CurrentGives ==
  ASSUME KwargsInv, Current
  PROVE  \A k \in Plain(call) : k \in DOMAIN seen.kwargs.of /\ seen.kwargs.of[k] = Textual(call.of[k])
<1>1. Attempted /\ Knows[seen.by] = Tags
  BY DEF Current
<1>2. call \in Calls /\ seen.by \in Versions
  BY <1>1, AttemptGives
<1> SUFFICES ASSUME NEW k \in Plain(call)
             PROVE  k \in DOMAIN seen.kwargs.of /\ seen.kwargs.of[k] = Textual(call.of[k])
  OBVIOUS
<1>3. k \in DOMAIN Reserved(call).of /\ Reserved(call).of[k] = call.of[k]
  BY <1>2, ReservedFields
<1>4. k # "user_id"
  BY DEF Plain, EngineKeys, Loud
<1>5. /\ k \in DOMAIN seen.kwargs.of /\ call.of[k] \in Values
      /\ seen.kwargs.of[k] = Decode(Encode(call.of[k]), seen.by)
  BY <1>1, <1>3, <1>4, AttemptGives
<1> QED
  BY <1>1, <1>2, <1>5, CurrentReadsBack

-----------------------------------------------------------------------------
(* The invariants of the runs. *)

(* serialize_kwargs: whatever is inserted is made of JSON's own kinds and  *)
(* of keys that jsonb takes, at any depth.                                 *)
THEOREM NothingUnstorableReaches == Spec => []NothingUnstorable
<1>1. KwargsInv => NothingUnstorable
  <2> SUFFICES ASSUME KwargsInv, row # NoTree
               PROVE  row.kinds \subseteq JsonKinds /\ row.keys \cap (NonString \cup BadKeys) = {}
    BY DEF NothingUnstorable
  <2>1. call \in Calls /\ ~Rejected(call) /\ row = Encode(Reserved(call))
    BY DEF KwargsInv, RowInv
  <2>2. Reserved(call) \in Values
    BY <2>1, CallsAssumption
  <2>3. ~Unstorable(Reserved(call)) /\ Dumps(Reserved(call))
    BY <2>1 DEF Rejected
  <2>4. Reserved(call).kinds \subseteq JsonKinds \cup Tags /\ Reserved(call).keys \cap BadKeys = {}
    BY <2>3 DEF Unstorable, Dumps
  <2> QED
    BY <2>1, <2>2, <2>4, StoredIsStorable
<1> QED
  BY <1>1, KwargsInvariant, PTL

(* What that is, in a state of the invariant.                              *)
LEMMA WhatHooksGet ==
  ASSUME KwargsInv, Current
  PROVE  RoundTrip
<1>1. Attempted /\ Knows[seen.by] = Tags
  BY DEF Current
<1>2. /\ call \in Calls /\ seen.by \in Versions
      /\ DOMAIN seen.kwargs.of =
           (DOMAIN call.of \ (Loud \cup Quiet)) \cup {"context"}
             \cup (IF HasPk(call) THEN {"user"} ELSE {})
  BY <1>1, AttemptGives
<1>3. \A k \in Plain(call) : seen.kwargs.of[k] = Textual(call.of[k])
  BY CurrentGives
<1>4. ASSUME NEW k \in DOMAIN call.of \cap ContextKeys
      PROVE  seen.kwargs.of[k] = AsText(call.of[k])
  <2>1. k \in DOMAIN Reserved(call).of /\ Reserved(call).of[k] = AsText(call.of[k])
    BY <1>2, ReservedFields
  <2>2. k # "user_id"
    BY DEF ContextKeys
  <2>3. /\ AsText(call.of[k]) \in Values
        /\ seen.kwargs.of[k] = Decode(Encode(AsText(call.of[k])), seen.by)
    BY <1>1, <2>1, <2>2, AttemptGives
  <2>4. AsText(call.of[k]).is \notin Containers \cup IsoKinds
    BY LeafFields DEF AsText, Containers, TaggedContainers, IsoKinds
  <2> QED
    BY <1>1, <1>2, <2>3, <2>4, ScalarReadBack
<1>5. ASSUME HasPk(call)
      PROVE  \/ seen.kwargs.of["user"] = call.of["user"]
             \/ seen.kwargs.of["user"] = Nothing /\ call.of["user"].text \notin users
  <2> DEFINE text == call.of["user"].text
  <2>1. Reserved(call).of["user_id"] = Leaf("int", text) /\ Leaf("int", text) \in Values
    BY <1>1, <1>2, <1>5, ReservedFields, AttemptGives
  <2>2. Leaf("int", text).is \notin Containers \cup IsoKinds /\ Leaf("int", text).text = text
    BY LeafFields DEF Containers, TaggedContainers, IsoKinds
  <2>3. Decode(Encode(Leaf("int", text)), seen.by) = Leaf("int", text)
    BY <1>1, <1>2, <2>1, <2>2, ScalarReadBack
  <2>4. \/ seen.kwargs.of["user"] = Leaf("user", text)
        \/ seen.kwargs.of["user"] = Nothing /\ text \notin users
    BY <1>1, <1>5, <2>1, <2>2, <2>3, AttemptGives
  <2>5. call.of["user"] = Leaf("user", text)
    <3>1. "user" \in DOMAIN call.of /\ call.of["user"].is = "user"
      BY <1>5 DEF HasPk, Has
    <3>2. call.of["user"] \in Values
      BY <1>2, <3>1, CallsAssumption, PartsAreLower
    <3> QED
      BY <3>1, <3>2, ValueFields DEF Containers, TaggedContainers
  <2> QED
    BY <2>4, <2>5
<1> QED
  BY <1>2, <1>3, <1>4, <1>5 DEF RoundTrip

(* The promise of serializers.py: a current worker gives the hooks what    *)
(* the caller passed, at any depth, on every attempt, up to keys that are  *)
(* no strings and to the zones and folds of times.                         *)
THEOREM HooksGetWhatWasPassed == Spec => []RoundTrip
<1>1. KwargsInv => RoundTrip
  BY WhatHooksGet DEF RoundTrip
<1> QED
  BY <1>1, KwargsInvariant, PTL

(* The docstring of serializers.py: what the hooks of a current worker do  *)
(* not get as it was passed was warned about, and then the setting was not *)
(* strict, or it is one of the silent losses: a user that is not there,    *)
(* the engine's own keys, the zone or the fold of a time.                  *)
THEOREM LossesAreKnown == Spec => []LossIsKnown
<1>1. KwargsInv => LossIsKnown
  <2> SUFFICES ASSUME KwargsInv, Current, NEW k \in DOMAIN call.of
               PROVE  \/ k \in DOMAIN seen.kwargs.of /\ seen.kwargs.of[k] = call.of[k]
                      \/ ~strict /\ k \in warned
                      \/ ~strict /\ "keys" \in warned /\ call.of[k].keys \cap NonString # {}
                      \/ Silent(k)
    BY DEF LossIsKnown
  <2>1. Attempted
    BY DEF Current
  <2>2. call \in Calls /\ ~Rejected(call) /\ warned = Warnings(call)
    BY <2>1, AttemptGives
  <2>3. warned # {} => ~strict
    BY <2>2 DEF Rejected
  <2>4. CASE k \in Loud
    BY <2>2, <2>3, <2>4 DEF Warnings
  <2>5. CASE k \in (Quiet \ {"user"}) \cup ContextKeys
    BY <2>5 DEF Silent
  <2>6. CASE k = "user"
    <3>1. CASE HasPk(call)
      <4>1. RoundTrip
        BY WhatHooksGet
      <4>2. /\ DOMAIN seen.kwargs.of = (DOMAIN call.of \ (Loud \cup Quiet)) \cup {"context"} \cup {"user"}
            /\ \/ seen.kwargs.of["user"] = call.of["user"]
               \/ seen.kwargs.of["user"] = Nothing /\ call.of["user"].text \notin users
        BY <3>1, <4>1 DEF RoundTrip
      <4> QED
        BY <2>6, <4>2 DEF Silent
    <3>2. CASE ~HasPk(call)
      BY <2>6, <3>2 DEF Silent
    <3> QED
      BY <3>1, <3>2
  <2>7. CASE k \in Plain(call)
    <3>2. k \in DOMAIN seen.kwargs.of /\ seen.kwargs.of[k] = Textual(call.of[k])
      BY <2>7, CurrentGives
    <3>3. k \in DOMAIN Reserved(call).of /\ Reserved(call).of[k] = call.of[k] /\ Reserved(call) \in Values
      BY <2>2, <2>7, ReservedFields, CallsAssumption
    <3>4. call.of[k] \in Values /\ call.of[k].keys \subseteq Reserved(call).keys
      BY <3>3, PartsAreInside, PartsAreLower
    <3>5. CASE call.of[k].keys \cap NonString = {} /\ ~Degrades(call.of[k])
      BY <3>2, <3>4, <3>5, StringKeysKeepAll
    <3>6. CASE call.of[k].keys \cap NonString # {}
      <4>1. HasNonStringKey(Reserved(call))
        BY <3>4, <3>6 DEF HasNonStringKey
      <4>2. "keys" \in warned
        BY <2>2, <4>1 DEF Warnings
      <4> QED
        BY <2>3, <3>6, <4>2
    <3>7. CASE Degrades(call.of[k])
      BY <2>7, <3>7 DEF Silent
    <3> QED
      BY <3>5, <3>6, <3>7
  <2> QED
    BY <2>4, <2>5, <2>6, <2>7 DEF Plain, EngineKeys
<1> QED
  BY <1>1, KwargsInvariant, PTL

(* decode_value in a worker of any version, older than the row or not:     *)
(* every value is read, or shown in its tagged form, wherever it sits.     *)
THEOREM NoVersionMisreads == Spec => []NeverMisread
<1>1. KwargsInv => NeverMisread
  <2> SUFFICES ASSUME KwargsInv, Attempted, NEW k \in Plain(call)
               PROVE  k \in DOMAIN seen.kwargs.of /\ seen.kwargs.of[k] \in Reading!Fold[call.of[k]]
    BY DEF NeverMisread
  <2>1. call \in Calls /\ seen.by \in Versions
    BY AttemptGives
  <2>2. k \in DOMAIN Reserved(call).of /\ Reserved(call).of[k] = call.of[k]
    BY <2>1, ReservedFields
  <2>3. k # "user_id"
    BY DEF Plain, EngineKeys, Loud
  <2>4. /\ k \in DOMAIN seen.kwargs.of /\ call.of[k] \in Values
        /\ seen.kwargs.of[k] = Decode(Encode(call.of[k]), seen.by)
    BY <2>2, <2>3, AttemptGives
  <2> QED
    BY <2>1, <2>4, EveryVersionReads
<1> QED
  BY <1>1, KwargsInvariant, PTL
=============================================================================
