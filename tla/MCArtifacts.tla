----------------------------- MODULE MCArtifacts -----------------------------
(* Small instances of Artifacts for TLC: contents and who asks for what.   *)
EXTENDS Artifacts

(* Two contents of one size, one of another, one too large to be hashed.   *)
Of(name, size) == [name |-> name, size |-> size]
Bytes == {Of("report", 1), Of("revised", 1), Of("short", 0), Of("film", 2)}

Ask(op, declared, sha256, bytes) ==
    [op |-> op, sizeBytes |-> declared.size, sha256 |-> sha256, bytes |-> bytes]
Upload(content)           == Ask("init", content, content, content)
Of1(op)                   == Ask(op, Of("report", 1), Of("report", 1), Of("report", 1))
PutOf(content)            == Ask("put", content, content, content)
CompleteWith(content)     == Ask("complete", content, content, content)

(* An upload that is completed twice and replaced; a wrong size or hash    *)
(* and a large file; bytes of another size put between two checks; a       *)
(* delete and a download during all that, with faults.                     *)
Base == [requests |-> {Upload(Of("report", 1)), Of1("delete")}, scans |-> FALSE, faults |-> 0]
Replaced ==
    [Base EXCEPT !.requests = @ \cup {PutOf(Of("revised", 1)), CompleteWith(Of("revised", 1)),
                                      Of1("download")}]
Mistaken ==
    [Base EXCEPT !.scans = TRUE, !.faults = 1,
                 !.requests = {Ask("init", Of("report", 1), Of("report", 1), Of("short", 0)),
                               Ask("init", Of("report", 1), Of("report", 1), Of("revised", 1)),
                               Of1("complete"), Of1("delete")}]
Resized ==
    [Base EXCEPT !.requests = {Ask("init", Of("report", 1), Of("short", 0), Of("report", 1)),
                               PutOf(Of("short", 0)), Of1("download")}]
Large    == [Base EXCEPT !.requests = {Upload(Of("film", 2)), CompleteWith(Of("short", 0)), Of1("delete")}]
Faulty   == [Base EXCEPT !.faults = 2, !.requests = @ \cup {Of1("download")}]

Everyday == {Replaced, Mistaken, Resized, Large, Faulty}
Reused   == {[Base EXCEPT !.requests = {Upload(Of("report", 1)), PutOf(Of("revised", 1))}]}
=============================================================================
