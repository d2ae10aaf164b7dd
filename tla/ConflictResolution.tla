-------------------------- MODULE ConflictResolution --------------------------
(***************************************************************************)
(* The values a context entry can hold and the decision taken when a write *)
(* meets a live entry.  The decision exists twice in the program: in the   *)
(* Lua script of backends/redis-store.ts, which is the one that runs, and  *)
(* in context-store/conflict.ts, a TypeScript mirror of it.  Both are      *)
(* translated here so that they can be compared.                           *)
(*                                                                         *)
(* A value is a pair <<kind, data>>.  "text" stands for every value whose  *)
(* type is not json (text, artifact, artifacts); the other kinds are json  *)
(* data: a string ("scalar"), a number, an array, an object.               *)
(* Confidence is a percentage, 100 being the schema's default of 1.        *)
(***************************************************************************)
EXTENDS Integers, Sequences

CONSTANTS Texts,    \* payloads of text values and of json scalars
          Items,    \* elements of json arrays and fields of json objects
          Fields    \* names of object fields

Text   == {"text"} \X Texts
Scalar == {"scalar"} \X Texts
Number == {"number"} \X Int
Array  == {"array"} \X Seq(Items)
Object == {"object"} \X UNION {[F -> Items] : F \in SUBSET Fields}
Value  == Text \cup Scalar \cup Number \cup Array \cup Object

EmptyArray  == <<"array", << >>>>
Strategies  == {"lww", "conf", "merge", "reject"}
Confidences == 0 .. 100
Full        == 100

-----------------------------------------------------------------------------
(* The overlay of object i on object e: every field of both, i's first.    *)
Overlay(e, i) ==
    [f \in DOMAIN e \cup DOMAIN i |-> IF f \in DOMAIN i THEN i[f] ELSE e[f]]

(* cjson decodes [] and {} into the same empty Lua table, so the script's  *)
(* is_object also accepts an empty array; its data then has no field.      *)
LuaIsObject(v) == v[1] = "object" \/ v = EmptyArray

TsIsPlainObject(v) == v[1] = "object"

IncomingWins(v)    == [winner |-> "incoming", value |-> v]
ExistingWins(e)    == [winner |-> "existing", value |-> e.value]

(* A key without an entry is represented by an entry of version 0.         *)
NoEntry == [version |-> 0]
Live(e) == e.version > 0 /\ ~e.isDeleted

(* Step 5 of the write script.  e is what the key holds, i the incoming    *)
(* write (or tombstone), cas says that an expectedVersion was supplied;    *)
(* that it matched was settled in step 3.                                  *)
LuaResolve(e, i, cas) ==
    LET contested == Live(e) /\ ~i.isDeleted
    IN  IF \/ contested /\ i.strategy = "reject"
           \/ contested /\ i.strategy = "conf"
                        /\ ~(i.confidence > e.confidence \/ cas)
        THEN ExistingWins(e)
        ELSE IF contested /\ i.strategy = "merge"
                /\ LuaIsObject(e.value) /\ LuaIsObject(i.value)
        THEN IncomingWins(<<"object", Overlay(e.value[2], i.value[2])>>)
        ELSE IncomingWins(i.value)

(* resolveConflict of the mirror, on the same arguments.                   *)
TsResolve(e, i, cas) ==
    IF ~Live(e) \/ i.isDeleted THEN IncomingWins(i.value)
    ELSE IF i.strategy = "reject" THEN ExistingWins(e)
    ELSE IF i.strategy = "conf"
         THEN IF i.confidence > e.confidence \/ cas
              THEN IncomingWins(i.value) ELSE ExistingWins(e)
    ELSE IF i.strategy = "merge" /\ TsIsPlainObject(e.value)
            /\ TsIsPlainObject(i.value)
         THEN IncomingWins(<<"object", Overlay(e.value[2], i.value[2])>>)
    ELSE IncomingWins(i.value)

-----------------------------------------------------------------------------
(* What the append script does to a value: the items join the array, and   *)
(* all but the newest maxItems leave it (0 is "unbounded").                *)
Newest(s, maxItems) ==
    IF maxItems > 0 /\ Len(s) > maxItems
    THEN SubSeq(s, Len(s) - maxItems + 1, Len(s))
    ELSE s

(* is_array_or_empty: an empty object passes for an empty array.           *)
LuaIsArray(v) == v[1] = "array" \/ (v[1] = "object" /\ DOMAIN v[2] = {})

Elements(v) == IF v[1] = "array" THEN v[2] ELSE << >>

TrimThenAppend(v, items, maxItems) ==                 \* mutant
    <<"array", Newest(Elements(v), maxItems) \o items>>
AppendItems(v, items, maxItems) ==
    <<"array", Newest(Elements(v) \o items, maxItems)>>

(* What the increment script adds to: a json number, or 0 in place of a    *)
(* value that is not json, which passes the type check (the Lua            *)
(* "cond and data or 0" yields 0 before the type of data is looked at).    *)
LuaIsNumeric(v) == v[1] \in {"number", "text"}

AddTo(v, by) == <<"number", (IF v[1] = "number" THEN v[2] ELSE 0) + by>>

=============================================================================
