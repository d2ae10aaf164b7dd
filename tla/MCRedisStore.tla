----------------------------- MODULE MCRedisStore -----------------------------
(* Small instances of RedisStore for TLC: the keys, each with the requests *)
(* callers make of it.                                                     *)
EXTENDS RedisStore, TLC

CONSTANTS t1, t2, f1, f2, x1, x2, op1, op2, op3, d1, d2

Req(value, strategy, confidence, ttl, expected, restore) ==
    [value |-> value, strategy |-> strategy, confidence |-> confidence,
     ttlSeconds |-> ttl, expectedVersion |-> expected, allowRestore |-> restore]

Asking(writes, appends, increments, deleteExpects) ==
    [writes |-> writes, appends |-> appends, increments |-> increments,
     deleteExpects |-> deleteExpects, listed |-> FALSE, until |-> 3]
Briefly(asking) == [asking EXCEPT !.listed = TRUE, !.until = 1]

PlainAppend == [ttlSeconds |-> 0, maxItems |-> 0]
ByOne       == [ttlSeconds |-> 0, by |-> 1]

(* Plain, conditional, guarded and restoring writes, and deletes, no TTL.  *)
Guarded ==
    Asking({Req(<<"text", t1>>, "lww", Full, 0, None, FALSE),
            Req(<<"text", t2>>, "lww", Full, 0, 1, FALSE),
            Req(<<"text", t2>>, "reject", Full, 0, None, FALSE),
            Req(<<"text", t1>>, "lww", Full, 0, 2, TRUE),
            Req(<<"text", t2>>, "lww", Full, 0, None, TRUE)},
           {}, {}, {None, 1})

(* Writes, appends and deletes with and without a TTL.                     *)
Timed ==
    Asking({Req(<<"text", t1>>, "lww", Full, 0, None, FALSE),
            Req(<<"text", t1>>, "lww", Full, 1, None, FALSE),
            Req(<<"text", t1>>, "reject", Full, 2, None, FALSE)},
           {[ttlSeconds |-> ttl, maxItems |-> 0] : ttl \in {0, 2}}, {}, {None})

(* Merges of overlapping and disjoint fields and of no field, and appends  *)
(* and increments, which only an empty object or no entry lets pass.       *)
Merging ==
    Asking({Req(<<"object", (f1 :> x1)>>, "merge", Full, 0, None, FALSE),
            Req(<<"object", (f2 :> x2)>>, "merge", 50, 0, None, FALSE),
            Req(<<"object", (f1 :> x2) @@ (f2 :> x1)>>, "merge", Full, 0, 1, FALSE),
            Req(<<"object", << >>>>, "merge", Full, 0, None, FALSE)},
           {PlainAppend}, {ByOne}, {})

(* Every kind of value under merge and lww.                                *)
Mixed ==
    Asking({Req(v, s, Full, 0, None, FALSE) :
               v \in {<<"text", t1>>, <<"number", 0>>, <<"array", <<x1>>>>,
                      EmptyArray, <<"object", (f1 :> x1)>>},
               s \in {"lww", "merge"}},
           {PlainAppend}, {ByOne}, {})

(* Writes at three confidences under the confidence strategy.              *)
Ranked ==
    Asking({Req(<<"scalar", t>>, "conf", c, 0, None, FALSE) :
               t \in {t1, t2}, c \in {0, 50, Full}},
           {}, {}, {})

(* A list of the newest two items, and a counter.                          *)
Listed  == Asking({}, {[ttlSeconds |-> 0, maxItems |-> 2]}, {}, {})
Counted == Asking({}, {}, {ByOne}, {})

(* A key that comes and goes.                                              *)
Fleeting ==
    Asking({Req(<<"text", t1>>, "lww", Full, ttl, None, FALSE) : ttl \in {0, 1}},
           {[ttlSeconds |-> ttl, maxItems |-> 0] : ttl \in {0, 1}}, {}, {None})

Life     == {Guarded, Timed}
Values   == {Briefly(w) : w \in {Merging, Mixed, Ranked, Listed, Counted, Fleeting}}
Everyday == Life \cup Values

Symmetry == Permutations({op1, op2, op3}) \cup Permutations({d1, d2})
=============================================================================
