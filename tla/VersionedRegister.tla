-------------------------- MODULE VersionedRegister --------------------------
(***************************************************************************)
(* What the context store promises of each key, whatever the request and   *)
(* whatever its strategy: a register whose version grows by one with every *)
(* commit, that remembers which operations it has applied and applies none *)
(* of them while it remembers it, and that forgets its entry or its        *)
(* operations only as a whole, when a lifetime ends.                       *)
(***************************************************************************)
EXTENDS Integers

CONSTANTS FullKeys, OperationIds

VARIABLES version,      \* of each key, 0 when it holds nothing
          writer,       \* the operation that produced that version
          remembered    \* the operations a retry of which is answered

vars == <<version, writer, remembered>>

Nobody == "nobody"

Init ==
    /\ version = [k \in FullKeys |-> 0]
    /\ writer = [k \in FullKeys |-> Nobody]
    /\ remembered = [k \in FullKeys |-> {}]

(* One operation makes one version, and is remembered from the same        *)
(* instant on.                                                             *)
Commit(k, op) ==
    /\ op \notin remembered[k]
    /\ version' = [version EXCEPT ![k] = @ + 1]
    /\ writer' = [writer EXCEPT ![k] = op]
    /\ remembered' = [remembered EXCEPT ![k] = @ \cup {op}]

(* Time takes the entries of the keys in E and the memory of those in F.   *)
Lapse(E, F) ==
    /\ version' = [k \in FullKeys |-> IF k \in E THEN 0 ELSE version[k]]
    /\ writer' = [k \in FullKeys |-> IF k \in E THEN Nobody ELSE writer[k]]
    /\ remembered' = [k \in FullKeys |-> IF k \in F THEN {} ELSE remembered[k]]

Next ==
    \/ \E k \in FullKeys, op \in OperationIds : Commit(k, op)
    \/ \E E, F \in SUBSET FullKeys : Lapse(E, F)

Spec == Init /\ [][Next]_vars
=============================================================================
