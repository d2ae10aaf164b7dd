------------------------------ MODULE Artifacts ------------------------------
(***************************************************************************)
(* ArtifactService (artifacts/index.ts) with the artifacts table, the      *)
(* object store and the upload and download of the SDKs.  One action is    *)
(* one round trip, or one step of a client; the first of a call starts it. *)
(*                                                                         *)
(* Left out: getMetadata and the artifact a complete answers with, which   *)
(* only read; the tenant and session of a request (a wrong one is a 404);  *)
(* the soft cap, which init checks on the declared size that complete      *)
(* compares with; and retention, since initUpload stores no expiry (line   *)
(* 107) and listExpired finds nothing.                                     *)
(***************************************************************************)
EXTENDS Integers

CONSTANTS
    Files,          \* artifact ids, and with them storage keys
    Contents,       \* what a file may hold, identified with its sha256
    Callers,        \* clients with a call in flight at once
    HashVerifyMax,  \* SPANOAI_ARTIFACT_HASH_VERIFY_MAX_BYTES, 0: no limit
    None,
    Settings        \* who asks for what in an instance

Status  == {"pending", "available", "quarantined", "rejected", "deleted"}
Request == [op : {"init", "put", "complete", "delete", "download"},
            sizeBytes : Nat, sha256 : Contents, bytes : Contents]
Setting == [requests : SUBSET Request, scans : BOOLEAN, faults : Nat]
Row     == [status : Status, sizeBytes : Nat, sha256 : Contents]

ASSUME ArtifactConstants ==
    /\ Settings \subseteq Setting /\ HashVerifyMax \in Nat
    /\ \A content \in Contents : content.size \in Nat
    /\ None \notin Row \cup Contents \cup Status

VARIABLES
    setting,
    row,            \* artifacts, by id
    object,         \* the bucket, by storage key
    uploadUrls,     \* files whose presigned PUT still works
    calls,
    told,           \* the last status the audit log has of each file
    faults,
    marks           \* history of each file: what excuses it from a property

vars == <<setting, row, object, uploadUrls, calls, told, faults, marks>>

(* A call carries its request, and what it is about to make of the row.    *)
Steps == {"init", "put", "complete", "delete", "download",
          "stat", "hash", "scan", "unlink", "mark", "tell", "get"}
Idle  == [at |-> "idle"]
Call  == [at : Steps, file : Files, req : Request, verdict : Status \cup {None}]

(* A request starts at the step it is named for; upload() is an init that  *)
(* goes on to put and complete.  Who asks knows the id from init's answer. *)
Started(r, f) == [at |-> r.op, file |-> f, req |-> r, verdict |-> None]
Known(r, f)   == r.op = "init" \/ told[f] # None
CallsAt(c, step) ==
    IF calls[c] = Idle
    THEN {call \in {Started(r, f) : r \in setting.requests, f \in Files} :
              call.at = step /\ Known(call.req, call.file)}
    ELSE {call \in {calls[c]} : call.at = step}

Go(c, call, step)           == calls' = [calls EXCEPT ![c] = [call EXCEPT !.at = step]]
Decide(c, call, step, what) == calls' = [calls EXCEPT ![c] = [call EXCEPT !.at = step, !.verdict = what]]
Return(c)                   == calls' = [calls EXCEPT ![c] = Idle]

Mark(f, what) == marks' = [marks EXCEPT ![f] = @ \cup what]
OnFile(f, steps) == {c \in Callers : calls[c].at \in steps /\ calls[c].file = f}
Changing == {"stat", "hash", "scan", "unlink", "mark"}
Overlaps(c, f) ==
    {"raced" : x \in OnFile(f, Changing) \ {c}} \cup {"overlapped" : x \in OnFile(f, {"tell"})}

-----------------------------------------------------------------------------
(* Upload.                                                                 *)

InitUpload(c) ==
    \E call \in CallsAt(c, "init") :
        /\ row[call.file] = None
        /\ row' = [row EXCEPT ![call.file] = [status |-> "pending", sizeBytes |-> call.req.sizeBytes,
                                              sha256 |-> call.req.sha256]]
        /\ uploadUrls' = uploadUrls \cup {call.file}
        /\ Decide(c, call, "tell", "pending")
        /\ UNCHANGED <<setting, object, told, faults, marks>>

(* The bytes go to the bucket past the server, as often as the URL works:  *)
(* also when their size or their hash has been checked.                    *)
PastCheck(call) ==
    \/ row[call.file].status # "pending"
    \/ OnFile(call.file, {"scan", "mark"}) # {}
    \/ OnFile(call.file, {"hash"}) # {} /\ call.req.bytes.size # row[call.file].sizeBytes
Rewrites(call) == IF PastCheck(call) THEN {"rewritten"} ELSE {}
IsLate(f)      == IF "unlinked" \in marks[f] THEN {"late"} ELSE {}

Put(c) ==
    \E call \in CallsAt(c, "put") :
        /\ IF call.file \in uploadUrls
           THEN /\ object' = [object EXCEPT ![call.file] = call.req.bytes]
                /\ Mark(call.file, Rewrites(call) \cup IsLate(call.file))
                /\ IF call.req.op = "init" THEN Go(c, call, "complete") ELSE Return(c)
           ELSE Return(c) /\ UNCHANGED <<object, marks>>
        /\ UNCHANGED <<setting, row, uploadUrls, told, faults>>

-----------------------------------------------------------------------------
(* complete: pending row, size, hash, scan, verdict.                       *)

(* The mutant completes an artifact whatever became of it.                 *)
Exists(f)    == row[f] # None                                        \* mutant
IsPending(f) == row[f] # None /\ row[f].status = "pending"

RequirePending(c) ==
    \E call \in CallsAt(c, "complete") :
        /\ IF IsPending(call.file)
           THEN Go(c, call, "stat") /\ Mark(call.file, Overlaps(c, call.file))
           ELSE Return(c) /\ UNCHANGED marks
        /\ UNCHANGED <<setting, row, object, uploadUrls, told, faults>>

RejectSilently(c, call) == Go(c, call, "unlink")                     \* mutant
Reject(c, call)         == Decide(c, call, "unlink", "rejected")
IsHashed(bytes) == HashVerifyMax = 0 \/ bytes.size <= HashVerifyMax

Stat(c) ==
    \E call \in CallsAt(c, "stat") :
        LET bytes == object[call.file]
        IN  /\ CASE bytes = None -> Return(c)
                 [] bytes # None /\ bytes.size # row[call.file].sizeBytes -> Reject(c, call)
                 [] bytes # None /\ bytes.size = row[call.file].sizeBytes ->
                        Go(c, call, IF IsHashed(bytes) THEN "hash" ELSE "scan")
            /\ UNCHANGED <<setting, row, object, uploadUrls, told, faults, marks>>

AnyHash(bytes, sha256)     == bytes.size = sha256.size               \* mutant
HashMatches(bytes, sha256) == bytes = sha256

Hash(c) ==
    \E call \in CallsAt(c, "hash") :
        LET bytes == object[call.file]
        IN  /\ IF bytes = None THEN Return(c)
               ELSE IF HashMatches(bytes, call.req.sha256) THEN Go(c, call, "scan")
               ELSE Reject(c, call)
            /\ UNCHANGED <<setting, row, object, uploadUrls, told, faults, marks>>

Scan(c) ==
    \E call \in CallsAt(c, "scan"), verdict \in {"available", "quarantined"} :
        /\ verdict = "quarantined" => setting.scans
        /\ Decide(c, call, "mark", verdict)
        /\ UNCHANGED <<setting, row, object, uploadUrls, told, faults, marks>>

-----------------------------------------------------------------------------
(* delete, and what it shares with a verdict: the bytes, the row, the      *)
(* audit entry.  Both UPDATEs are unconditional.                           *)

Delete(c) ==
    \E call \in CallsAt(c, "delete") :
        /\ IF row[call.file] # None /\ row[call.file].status # "deleted"
           THEN Decide(c, call, "unlink", "deleted") /\ Mark(call.file, Overlaps(c, call.file))
           ELSE Return(c) /\ UNCHANGED marks
        /\ UNCHANGED <<setting, row, object, uploadUrls, told, faults>>

(* storage.delete, whose failure is swallowed.                             *)
KeepIt(f) == UNCHANGED object /\ Mark(f, {"unlinked"})                \* mutant
Unlink(f) == object' = [object EXCEPT ![f] = None] /\ Mark(f, {"unlinked"})

DeleteBytes(c) ==
    \E call \in CallsAt(c, "unlink") :
        /\ Unlink(call.file)
        /\ Go(c, call, "mark")
        /\ UNCHANGED <<setting, row, uploadUrls, told, faults>>

FailToDeleteBytes(c) ==
    \E call \in CallsAt(c, "unlink") :
        /\ faults < setting.faults /\ faults' = faults + 1
        /\ Mark(call.file, {"undeleted"})
        /\ Go(c, call, "mark")
        /\ UNCHANGED <<setting, row, object, uploadUrls, told>>

SetStatus(c) ==
    \E call \in CallsAt(c, "mark") :
        /\ row' = [row EXCEPT ![call.file].status = call.verdict,
                              ![call.file].sha256 = IF call.verdict = "available"
                                                    THEN call.req.sha256 ELSE @]
        /\ Go(c, call, "tell")
        /\ UNCHANGED <<setting, object, uploadUrls, told, faults, marks>>

Tell(call) == told' = [told EXCEPT ![call.file] = call.verdict]

Audit(c) ==
    \E call \in CallsAt(c, "tell") :
        /\ Tell(call)
        /\ IF call.verdict = "pending" THEN Go(c, call, "put") ELSE Return(c)
        /\ UNCHANGED <<setting, row, object, uploadUrls, faults, marks>>

-----------------------------------------------------------------------------
(* Download: the grant of an available artifact, then GET of its URL.      *)
DownloadUrl(c) ==
    \E call \in CallsAt(c, "download") :
        /\ row[call.file] # None /\ row[call.file].status = "available"
        /\ Go(c, call, "get")
        /\ UNCHANGED <<setting, row, object, uploadUrls, told, faults, marks>>

Get(c) ==
    /\ calls[c].at = "get"
    /\ Return(c)
    /\ UNCHANGED <<setting, row, object, uploadUrls, told, faults, marks>>

UrlExpires(f) ==
    /\ f \in uploadUrls /\ uploadUrls' = uploadUrls \ {f}
    /\ UNCHANGED <<setting, row, object, calls, told, faults, marks>>

(* A call throws or its server dies; a client answered with a 5xx, or with *)
(* nothing, sends its complete again.                                      *)
Fail(c) ==
    /\ calls[c] # Idle /\ calls[c].at # "get"
    /\ faults < setting.faults /\ faults' = faults + 1
    /\ Mark(calls[c].file, {"died"})
    /\ \/ Return(c)
       \/ calls[c].verdict # "deleted" /\ calls[c].at \in Changing \cup {"tell"}
          /\ Decide(c, calls[c], "complete", None)
    /\ UNCHANGED <<setting, row, object, uploadUrls, told>>

Init ==
    /\ setting \in Settings
    /\ row = [f \in Files |-> None] /\ object = [f \in Files |-> None]
    /\ uploadUrls = {} /\ told = [f \in Files |-> None]
    /\ calls = [c \in Callers |-> Idle]
    /\ faults = 0 /\ marks = [f \in Files |-> {}]

CallStep(c) ==
    \/ InitUpload(c) \/ Put(c)
    \/ RequirePending(c) \/ Stat(c) \/ Hash(c) \/ Scan(c)
    \/ Delete(c) \/ DeleteBytes(c) \/ FailToDeleteBytes(c) \/ SetStatus(c) \/ Audit(c)
    \/ DownloadUrl(c) \/ Get(c)

Next ==
    \/ \E c \in Callers : CallStep(c) \/ Fail(c)
    \/ \E f \in Files : UrlExpires(f)

Spec == Init /\ [][Next]_vars

-----------------------------------------------------------------------------
(* Properties.                                                             *)

StatusOf(f) == IF row[f] = None THEN None ELSE row[f].status
Excused(f, excuses) == marks[f] \cap excuses # {}

(* Every variable has its type; a call past its verdict has one, and       *)
(* nothing is stored for a file that was never announced.                  *)
TypeOK ==
    /\ setting \in Setting
    /\ row \in [Files -> Row \cup {None}] /\ object \in [Files -> Contents \cup {None}]
    /\ uploadUrls \subseteq Files /\ calls \in [Callers -> Call \cup {Idle}]
    /\ told \in [Files -> Status \cup {None}] /\ faults \in Nat
    /\ marks \in [Files -> SUBSET {"rewritten", "late", "unlinked", "undeleted",
                                  "raced", "overlapped", "died"}]
    /\ \A c \in Callers : calls[c].at \in {"unlink", "mark", "tell"} => calls[c].verdict # None
    /\ \A f \in Files : row[f] = None => object[f] = None /\ f \notin uploadUrls

(* "Verified on completion" (artifacts.mdx:68): what a download returns    *)
(* has the declared size, and the recorded sha256 if it was small enough   *)
(* to be hashed, unless the upload URL was used again after these checks.  *)
DownloadsAreVerified ==
    \A f \in Files :
        /\ StatusOf(f) = "available" \/ OnFile(f, {"get"}) # {}
        /\ object[f] # None /\ ~Excused(f, {"rewritten"})
        => /\ object[f].size = row[f].sizeBytes
           /\ IsHashed(object[f]) => object[f] = row[f].sha256

(* The bucket follows the row: a rejected or deleted artifact keeps no     *)
(* bytes, unless storage refused to delete them or they were uploaded      *)
(* after that; an available one has them, unless it is being deleted, a    *)
(* delete died half-way, or a complete and another call raced.             *)
BytesFollowStatus ==
    \A f \in Files :
        /\ StatusOf(f) \in {"rejected", "deleted"} /\ ~Excused(f, {"late", "undeleted"})
           => object[f] = None
        /\ StatusOf(f) = "available" /\ ~Excused(f, {"raced", "died"})
           /\ OnFile(f, {"unlink", "mark"}) = {}
           => object[f] # None

(* The lifecycle of models/artifact.ts:5-9: a verdict is final but for a   *)
(* delete, and a delete is final, unless two calls raced.                  *)
LifecycleHolds ==
    [][\A f \in Files : StatusOf(f) # StatusOf(f)' /\ "raced" \notin marks[f] =>
            \/ StatusOf(f) = None /\ StatusOf(f)' = "pending"
            \/ StatusOf(f) = "pending"
            \/ StatusOf(f)' = "deleted"]_vars

(* The audit log ends with the status the row has, once that status is     *)
(* audited, unless a call died or two overlapped.                          *)
TrailEndsAtStatus ==
    \A f \in Files :
        ~Excused(f, {"raced", "overlapped", "died"}) /\ OnFile(f, {"tell"}) = {} => told[f] = StatusOf(f)

(* What the row says is so: of the bytes in the bucket and for the reader  *)
(* of the audit log.                                                       *)
StatusIsTrue == BytesFollowStatus /\ TrailEndsAtStatus

(* "A mismatch never reaches available" (artifacts.mdx:69): when the row   *)
(* becomes available, the bytes in the bucket are the recorded ones.       *)
MismatchIsNeverAvailable ==
    [][\A f \in Files : StatusOf(f) # "available" /\ StatusOf(f)' = "available"
            => object[f] = row'[f].sha256]_vars
=============================================================================
