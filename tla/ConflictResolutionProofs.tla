----------------------- MODULE ConflictResolutionProofs -----------------------
(* Theorems about the values of the context store and about the two        *)
(* translations of its conflict strategies.                                *)
EXTENDS ConflictResolution, TLAPS

ObjectData == UNION {[F -> Items] : F \in SUBSET Fields}

(* The data of what the script takes for an object is a function from some *)
(* field names to items; that of an empty array has no field.              *)
LEMMA ObjectDataOf ==
    ASSUME NEW v \in Value, LuaIsObject(v)
    PROVE  \E F \in SUBSET Fields : v[2] \in [F -> Items]
<1>1. CASE v[1] = "object"
  <2>1. v \in Object
    BY <1>1 DEF Value, Text, Scalar, Number, Array, Object
  <2>2. v[2] \in ObjectData
    BY <2>1 DEF Object, ObjectData
  <2>3. QED
    BY <2>2 DEF ObjectData
<1>2. CASE v = EmptyArray
  <2>1. v[2] = << >>
    BY <1>2 DEF EmptyArray
  <2>2. << >> \in [{} -> Items]
    OBVIOUS
  <2>3. QED
    BY <2>1, <2>2
<1>3. QED
  BY <1>1, <1>2 DEF LuaIsObject

(* Overlaying one object on another gives an object (the merge strategy    *)
(* stores no other kind of value).                                         *)
LEMMA OverlayType ==
    ASSUME NEW v \in Value, NEW w \in Value, LuaIsObject(v), LuaIsObject(w)
    PROVE  <<"object", Overlay(v[2], w[2])>> \in Object
<1>1. PICK F \in SUBSET Fields : v[2] \in [F -> Items]
  BY ObjectDataOf
<1>2. PICK G \in SUBSET Fields : w[2] \in [G -> Items]
  BY ObjectDataOf
<1>3. Overlay(v[2], w[2]) \in [F \cup G -> Items]
  BY <1>1, <1>2 DEF Overlay
<1>4. Overlay(v[2], w[2]) \in ObjectData
  BY <1>3 DEF ObjectData
<1>5. QED
  BY <1>4 DEF Object, ObjectData

(* Whatever the strategy, the value that wins is a value.                  *)
LEMMA LuaResolveType ==
    ASSUME NEW e, NEW i, NEW c \in BOOLEAN, i.value \in Value,
           Live(e) => e.value \in Value
    PROVE  LuaResolve(e, i, c).value \in Value
<1>1. CASE Live(e) /\ ~i.isDeleted /\ i.strategy = "merge"
  <2>1. ASSUME LuaIsObject(e.value), LuaIsObject(i.value)
        PROVE  <<"object", Overlay(e.value[2], i.value[2])>> \in Value
    BY <1>1, <2>1, OverlayType DEF Value
  <2>2. QED
    BY <1>1, <2>1 DEF LuaResolve, IncomingWins, ExistingWins
<1>2. CASE ~(Live(e) /\ ~i.isDeleted /\ i.strategy = "merge")
  BY <1>2 DEF LuaResolve, IncomingWins, ExistingWins
<1>3. QED
  BY <1>1, <1>2

(* Appending to a value that passes the script's type check gives an array.*)
LEMMA AppendItemsType ==
    ASSUME NEW v \in Value, LuaIsArray(v), NEW items \in Seq(Items),
           NEW max \in Nat
    PROVE  AppendItems(v, items, max) \in Value
<1>1. Elements(v) \in Seq(Items)
  <2>1. CASE v[1] = "array"
    <3>1. v \in Array
      BY <2>1 DEF Value, Text, Scalar, Number, Array, Object
    <3>2. QED
      BY <2>1, <3>1 DEF Array, Elements
  <2>2. CASE v[1] # "array"
    BY <2>2 DEF Elements
  <2>3. QED
    BY <2>1, <2>2
<1> DEFINE s == Elements(v) \o items
<1>2. s \in Seq(Items)
  BY <1>1
<1>3. Newest(s, max) \in Seq(Items)
  <2> HIDE DEF s
  <2> QED
    BY <1>2 DEF Newest
<1>4. QED
  BY <1>3 DEF AppendItems, Array, Value

(* Adding to a value that passes the script's type check gives a number.   *)
LEMMA AddToType ==
    ASSUME NEW v \in Value, NEW by \in Int
    PROVE  AddTo(v, by) \in Value
<1>1. v[1] = "number" => v[2] \in Int
  BY DEF Value, Text, Scalar, Number, Array, Object
<1>2. AddTo(v, by) \in Number
  BY <1>1 DEF AddTo, Number
<1>3. QED
  BY <1>2 DEF Value

(* The TypeScript mirror decides as the Lua script does, the same winner   *)
(* and the same value, except when an empty array is merged.               *)
THEOREM MirrorAgreesWithLua ==
    ASSUME NEW e, NEW i, NEW c \in BOOLEAN,
           i.strategy = "merge" => e.value # EmptyArray /\ i.value # EmptyArray
    PROVE  LuaResolve(e, i, c) = TsResolve(e, i, c)
BY DEF LuaResolve, TsResolve, LuaIsObject, TsIsPlainObject
=============================================================================
