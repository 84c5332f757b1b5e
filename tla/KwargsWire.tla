----------------------------- MODULE KwargsWire -----------------------------
(***************************************************************************)
(* serializers.py: what becomes of the keyword arguments of a call on      *)
(* their way through the JSON column of a row to the hooks of an attempt.  *)
(*                                                                         *)
(* A Python value is a tree: its kind, its text when it is a scalar, and   *)
(* its children under labels.  The labels of a dict are its keys; the      *)
(* labels of the other containers are positions.  A key that is no string  *)
(* is a label of its own, and KeyText is the string JSON makes of it.  A   *)
(* string that jsonb rejects (NUL, lone surrogates) is of the kind "nul".  *)
(* A tree carries what occurs anywhere in it: the kinds, the dict keys and  *)
(* the texts of the datetimes and times.                                   *)
(***************************************************************************)
EXTENDS Naturals

CONSTANTS
  Values,     \* the Python values that callers pass, and their parts
  Height,     \* Height[v]: how deep the containers in v are nested
  Calls,      \* the keyword arguments that callers pass: dict trees
  NonString,  \* the labels that are no strings
  KeyText,    \* KeyText[k]: the string that JSON stores for the key k
  IsoText,    \* IsoText[t]: what isoformat() keeps of the datetime or time t
  BadKeys,    \* the string keys with characters that jsonb rejects
  Versions,   \* the versions of the library that workers run
  Knows,      \* Knows[v]: the type tags that version v decodes
  Users       \* the primary keys of the users

TypeTag == "__dl_type__"
Loud == {"request", "user_id"}
Quiet == {"user", "context", "owning_process_class"}
ContextKeys == {"tr_id", "root_id", "parent_id"}

TaggedScalars == {"datetime", "date", "time", "decimal", "uuid"}
IsoKinds == {"datetime", "time"}
TaggedContainers == {"tuple", "set", "frozenset"}
Tags == TaggedScalars \cup TaggedContainers \cup {"dict"}
Containers == TaggedContainers \cup {"dict", "list"}
JsonKinds == {"dict", "list", "str", "int", "none"}

VARIABLES
  strict,     \* the setting STRICT_KWARGS_SERIALIZATION
  call,       \* what the caller passed
  row,        \* TransitionMessage.kwargs
  warned,     \* what enqueue logged
  users,      \* the users that still exist
  seen        \* the last attempt: its version and what its hooks receive

vars == <<strict, call, row, warned, users, seen>>

NoParts == [l \in {} |-> l]

Tree(kind, text, parts) ==
  [is    |-> kind,
   text  |-> text,
   of    |-> parts,
   kinds |-> {kind} \cup UNION {parts[l].kinds : l \in DOMAIN parts},
   keys  |-> (IF kind = "dict" THEN DOMAIN parts ELSE {})
               \cup UNION {parts[l].keys : l \in DOMAIN parts},
   times |-> (IF kind \in IsoKinds THEN {text} ELSE {})
               \cup UNION {parts[l].times : l \in DOMAIN parts}]

Leaf(kind, text) == Tree(kind, text, NoParts)
Node(kind, parts) == Tree(kind, "", parts)
Nothing == Leaf("none", "")
NoTree == Leaf("absent", "")

NotRun == [by |-> "nobody", kwargs |-> NoTree]

Init ==
  /\ strict \in BOOLEAN
  /\ call = NoTree /\ row = NoTree
  /\ warned = {}
  /\ users = Users
  /\ seen = NotRun

-----------------------------------------------------------------------------
(***************************************************************************)
(* What JSON keeps of a dict: keys become strings, and of two keys that    *)
(* become the same string one value survives.                              *)
(***************************************************************************)
Survivor(keys, text) == CHOOSE k \in keys : KeyText[k] = text

JsonObject(items) ==
  LET keys == DOMAIN items
  IN  Node("dict", [t \in {KeyText[k] : k \in keys} |-> items[Survivor(keys, t)]])

(***************************************************************************)
(* isoformat() or str() of a scalar.  isoformat() has the offset of a      *)
(* ZoneInfo and not its name, and nothing of fold; its reader cannot bring *)
(* them back, and nobody warns.                                            *)
(***************************************************************************)
ScalarText(v) == IF v.is \in IsoKinds THEN IsoText[v.text] ELSE v.text

(* A value with its parts replaced, the keys that JSON gives it and, for a *)
(* scalar, the text that is kept of it.                                    *)
Rebuilt(v, items) ==
  IF v.is = "dict" THEN JsonObject(items) ELSE Tree(v.is, ScalarText(v), items)

Children(v) == v.of

Keyed == INSTANCE TreeRecursion WITH Trees <- Values, Parts <- Children, Step <- Rebuilt

(* A value as JSON could keep it if it knew Python's types and its times   *)
(* had neither zones nor folds.                                            *)
Textual(v) == Keyed!Fold[v]

-----------------------------------------------------------------------------
(* encode_value, and the column that stores what it returns. *)

Tagged(tag, payload) ==
  Node("dict", [k \in {TypeTag, "value"} |-> IF k = TypeTag THEN Leaf("str", tag) ELSE payload])

(* Mutant: a dict of the caller is stored as it is. *)
EscapeNothing(items) == JsonObject(items)

(* A dict that happens to contain the tag key is tagged itself. *)
Escape(items) ==
  IF TypeTag \in DOMAIN items THEN Tagged("dict", JsonObject(items)) ELSE JsonObject(items)

(* The form of v in the column, given the forms of its parts. *)
Encoded(v, items) ==
  CASE v.is \in TaggedScalars -> Tagged(v.is, Leaf("str", ScalarText(v)))
    [] v.is \in TaggedContainers -> Tagged(v.is, Node("list", items))
    [] v.is = "list" -> Node("list", items)
    [] v.is = "dict" -> Escape(items)
    [] OTHER -> v

Encoding == INSTANCE TreeRecursion WITH Trees <- Values, Parts <- Children, Step <- Encoded

Encode(v) == Encoding!Fold[v]

(* Mutant: only the keys of a dict itself are looked at. *)
NonStringKeyOnTop(v) == v.is = "dict" /\ DOMAIN v.of \cap NonString # {}

(* _non_string_key_paths finds something. *)
HasNonStringKey(v) == v.keys \cap NonString # {}

(* Mutant: the keys of a dict are not scanned. *)
UnstorableValue(v) == "nul" \in v.kinds

(* _unstorable_text_paths finds something, in a value or in a key. *)
Unstorable(v) == "nul" \in v.kinds \/ v.keys \cap BadKeys # {}

(***************************************************************************)
(* json.dumps(allow_nan=False) accepts what encode_value makes of v: every *)
(* kind in it has a tag or is one of JSON's own.  A string jsonb rejects   *)
(* is fine with json.dumps.                                                *)
(***************************************************************************)
Dumps(v) == v.kinds \subseteq JsonKinds \cup Tags \cup {"nul"}

-----------------------------------------------------------------------------
(* serialize_kwargs. *)

Has(kw, k) == k \in DOMAIN kw.of

(* getattr(user, "pk", None): an anonymous user has none. *)
HasPk(kw) == Has(kw, "user") /\ kw.of["user"].is = "user" /\ kw.of["user"].text \in Users

(* str(value), for the keys of the transition context. *)
AsText(v) == IF v.is \in {"none", "nul"} THEN v ELSE Leaf("str", v.text)

(* The reserved keys are gone, and user_id stands for the user. *)
Reserved(kw) ==
  LET kept == DOMAIN kw.of \ (Loud \cup Quiet)
      ids  == IF HasPk(kw) THEN {"user_id"} ELSE {}
  IN  Node("dict", [k \in kept \cup ids |->
                      CASE k = "user_id" -> Leaf("int", kw.of["user"].text)
                        [] k \in ContextKeys -> AsText(kw.of[k])
                        [] OTHER -> kw.of[k]])

(* What is logged, or raised under the strict setting. *)
Warnings(kw) ==
  (DOMAIN kw.of \cap Loud) \cup (IF HasNonStringKey(Reserved(kw)) THEN {"keys"} ELSE {})

Rejected(kw) ==
  \/ strict /\ Warnings(kw) # {}
  \/ Unstorable(Reserved(kw))
  \/ ~Dumps(Reserved(kw))

-----------------------------------------------------------------------------
(* What the module assumes of Python, of JSON and of the callers. *)

(* A value that Python can put into a set. *)
Hashable(v) == v.kinds \cap {"list", "dict", "set"} = {}

(***************************************************************************)
(* Values are built from their parts, which have labels, a finite number   *)
(* of containers deep; only containers have parts, only scalars have a     *)
(* text, and what is in a set is hashable.                                 *)
(***************************************************************************)
ASSUME ValuesAssumption ==
  \A v \in Values :
    /\ v = Tree(v.is, v.text, v.of)
    /\ v.of = [l \in DOMAIN v.of |-> v.of[l]]
    /\ v.is \in Containers => v.text = ""
    /\ v.is \notin Containers => v.of = NoParts
    /\ Height[v] \in Nat
    /\ \A l \in DOMAIN v.of :
         /\ v.of[l] \in Values
         /\ Height[v.of[l]] < Height[v]
         /\ v.is \in {"set", "frozenset"} => Hashable(v.of[l])

(* The names of the engine are plain strings.  A string stays the key it   *)
(* is; what becomes of another key (a number, a truth value, None) is      *)
(* plain and is not the tag of the module.                                 *)
ASSUME KeysAssumption ==
  /\ ({TypeTag, "value"} \cup Loud \cup Quiet \cup ContextKeys) \cap (NonString \cup BadKeys) = {}
  /\ \A v \in Values : \A k \in v.keys :
       IF k \in NonString
       THEN KeyText[k] \notin NonString \cup BadKeys \cup {TypeTag}
       ELSE KeyText[k] = k

(* Keyword arguments are a dict with names for keys, and so is what the    *)
(* engine makes of them.  Every version decodes escaped dicts.             *)
ASSUME CallsAssumption ==
  /\ \A c \in Calls :
       /\ c \in Values /\ Reserved(c) \in Values
       /\ c.is = "dict" /\ DOMAIN c.of \cap NonString = {}
  /\ Knows \in [Versions -> SUBSET Tags]
  /\ \A v \in Versions : "dict" \in Knows[v]

-----------------------------------------------------------------------------
(* decode_value. *)

(* Mutant: the payload of a tag nobody knows is better than its wrapping. *)
UnknownPayload(r) == r.of["value"]

(* A worker that is older than the writer of the row. *)
Unknown(r) == r

(* The trees in the column, each of which decode_value is called for. *)
Rows == {Encode(v) : v \in Values}

IsTagged(r) == r.is = "dict" /\ TypeTag \in DOMAIN r.of /\ r.of[TypeTag] # Nothing

(* The trees decode_value calls itself for. *)
Inside(r) == IF IsTagged(r) THEN r.of["value"].of ELSE r.of

(***************************************************************************)
(* What a worker that knows the given tags returns for r, given what it    *)
(* returned for the trees inside.  A payload that does not decode, such as *)
(* a set with an element of an unknown tag in it, is passed through like   *)
(* an unknown tag.                                                         *)
(***************************************************************************)
DecodedBy(known, r, items) ==
  LET tag == r.of[TypeTag].text
  IN  CASE r.is = "list" -> Node("list", items)
        [] r.is = "dict" /\ ~IsTagged(r) -> Node("dict", items)
        [] IsTagged(r) ->
             IF tag \notin known THEN Unknown(r)
             ELSE IF tag \in TaggedScalars THEN Leaf(tag, r.of["value"].text)
             ELSE IF tag \in {"set", "frozenset"} /\ \E l \in DOMAIN items : ~Hashable(items[l])
             THEN r
             ELSE Node(tag, items)
        [] OTHER -> r

(* The same, for every version at once. *)
Decoded(r, items) ==
  [v \in Versions |-> DecodedBy(Knows[v], r, [l \in DOMAIN items |-> items[l][v]])]

Decoding == INSTANCE TreeRecursion WITH Trees <- Rows, Parts <- Inside, Step <- Decoded

Decode(r, v) == Decoding!Fold[r][v]

(* restore_user, and the context that the worker rebuilds. *)
Restored(kwargs) ==
  LET names == (DOMAIN kwargs.of \ {"user_id"}) \cup {"context"}
      asked == IF Has(kwargs, "user_id") THEN {"user"} ELSE {}
      pk    == kwargs.of["user_id"].text
  IN  Node("dict", [k \in names \cup asked |->
                      CASE k \in asked -> IF pk \in users THEN Leaf("user", pk) ELSE Nothing
                        [] k = "context" -> Node("dict", NoParts)
                        [] OTHER -> kwargs.of[k]])

(* deserialize_kwargs, in a worker of version v. *)
Deserialized(v) == Restored(Decode(row, v))

-----------------------------------------------------------------------------
(* Steps. *)

Enqueue(kw) ==
  /\ call = NoTree
  /\ call' = kw
  /\ IF Rejected(kw)
     THEN UNCHANGED <<row, warned>>
     ELSE row' = Encode(Reserved(kw)) /\ warned' = Warnings(kw)
  /\ UNCHANGED <<strict, users, seen>>

(* An attempt, the first or a retry, by a worker of any version. *)
Attempt(v) ==
  /\ row # NoTree
  /\ seen' = [by |-> v, kwargs |-> Deserialized(v)]
  /\ UNCHANGED <<strict, call, row, warned, users>>

(* Somebody deletes a user while the row waits. *)
DeleteUser(u) ==
  /\ u \in users
  /\ users' = users \ {u}
  /\ UNCHANGED <<strict, call, row, warned, seen>>

Next ==
  \/ \E kw \in Calls : Enqueue(kw)
  \/ \E v \in Versions : Attempt(v)
  \/ \E u \in Users : DeleteUser(u)

Spec == Init /\ [][Next]_vars

-----------------------------------------------------------------------------
(* Keys whose values the engine may change. *)
EngineKeys == Loud \cup Quiet \cup ContextKeys
Plain(kw) == DOMAIN kw.of \ EngineKeys

Attempted == seen # NotRun
Current == Attempted /\ Knows[seen.by] = Tags

(* serialize_kwargs: nothing reaches the INSERT that jsonb would reject,   *)
(* anywhere in the value.                                                  *)
NothingUnstorable ==
  row # NoTree => row.kinds \subseteq JsonKinds /\ row.keys \cap (NonString \cup BadKeys) = {}

(* The promise of the module, as far as it goes: hooks of a worker of a    *)
(* current version receive the value and the type that were passed, at any *)
(* depth and whatever tags the caller's own dicts contain, on the first    *)
(* attempt and on every retry after attempts of older workers; but keys    *)
(* are the strings that JSON makes of them, and datetimes and times have   *)
(* what isoformat() keeps.                                                 *)
RoundTrip ==
  Current =>
    /\ DOMAIN seen.kwargs.of =
         (DOMAIN call.of \ (Loud \cup Quiet)) \cup {"context"}
           \cup (IF HasPk(call) THEN {"user"} ELSE {})
    /\ \A k \in Plain(call) : seen.kwargs.of[k] = Textual(call.of[k])
    /\ \A k \in DOMAIN call.of \cap ContextKeys : seen.kwargs.of[k] = AsText(call.of[k])
    /\ HasPk(call) =>
         \/ seen.kwargs.of["user"] = call.of["user"]
         \/ seen.kwargs.of["user"] = Nothing /\ call.of["user"].text \notin users

(* It holds a datetime or time with a ZoneInfo or a fold. *)
Degrades(v) == \E t \in v.times : IsoText[t] # t

(***************************************************************************)
(* What hooks may find changed or missing and nobody was warned about: a   *)
(* user without a primary key or deleted since (serializers.py:240-247,    *)
(* 321-324), the keys of the engine, which become strings or are its own   *)
(* (249-251, 234-238), and the zone or fold of a time (18-21).             *)
(***************************************************************************)
Silent(k) ==
  \/ k = "user" /\ (HasPk(call) => call.of[k].text \notin users)
  \/ k \in (Quiet \ {"user"}) \cup ContextKeys
  \/ k \in Plain(call) /\ Degrades(call.of[k])

(* The docstring of the module: a key of the call that a synchronous run   *)
(* would have passed to the hooks as it is and a current worker does not   *)
(* was warned about at enqueue, and under the strict setting its call was  *)
(* never accepted, or the loss is one of those listed under Silent.        *)
LossIsKnown ==
  Current =>
    \A k \in DOMAIN call.of :
      \/ k \in DOMAIN seen.kwargs.of /\ seen.kwargs.of[k] = call.of[k]
      \/ ~strict /\ k \in warned
      \/ ~strict /\ "keys" \in warned /\ call.of[k].keys \cap NonString # {}
      \/ Silent(k)

(* The value in its tagged form, or read, with its parts in either form. *)
Choices(items) ==
  {f \in [DOMAIN items -> UNION {items[l] : l \in DOMAIN items}] :
     \A l \in DOMAIN items : f[l] \in items[l]}
ReadOrTagged(v, items) == {Encode(v)} \cup {Rebuilt(v, f) : f \in Choices(items)}

Reading == INSTANCE TreeRecursion WITH Trees <- Values, Parts <- Children, Step <- ReadOrTagged

(* decode_value: a worker that is older than the row shows a value in its  *)
(* tagged form, wherever it sits, and never as a value of another type.    *)
NeverMisread ==
  Attempted =>
    \A k \in Plain(call) :
      k \in DOMAIN seen.kwargs.of /\ seen.kwargs.of[k] \in Reading!Fold[call.of[k]]
=============================================================================
