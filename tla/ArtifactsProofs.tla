---------------------------- MODULE ArtifactsProofs ----------------------------
(***************************************************************************)
(* Theorems about artifacts, for any files, contents and clients and any   *)
(* limit up to which complete hashes.  Two invariants carry them: Inv, what*)
(* a call has verified of the bytes it found, and Life, what it may still  *)
(* rely on when it changes the row.                                        *)
(***************************************************************************)
EXTENDS Artifacts, TLAPS

(* Types, with what makes them inductive: a call past its first step has a *)
(* row to work on, and one that will change it knows to which final status.*)
Proper(x) ==
    /\ x \in Call
    /\ x.at \in {"stat", "hash", "scan", "unlink", "mark", "tell", "get"} => row[x.file] # None
    /\ x.at \in {"mark", "tell"} => x.verdict # None
    /\ x.at = "mark" => x.verdict # "pending"
    /\ x.at = "unlink" => x.verdict \in {"rejected", "deleted"}
CallsOK ==
    /\ calls \in [Callers -> Call \cup {Idle}]
    /\ \A c \in Callers : calls[c] # Idle => Proper(calls[c])
RowsOK ==
    /\ row \in [Files -> Row \cup {None}] /\ object \in [Files -> Contents \cup {None}]
    /\ uploadUrls \subseteq Files
    /\ \A f \in Files : row[f] = None => object[f] = None /\ f \notin uploadUrls
Marks  == {"rewritten", "late", "unlinked", "undeleted", "raced", "overlapped", "died"}
RestOK ==
    /\ setting \in Setting /\ faults \in Nat
    /\ told \in [Files -> Status \cup {None}] /\ marks \in [Files -> SUBSET Marks]
Typed == CallsOK /\ RowsOK /\ RestOK

-----------------------------------------------------------------------------
(* A call in flight, and what a step makes of it.                          *)

LEMMA AtStep ==
    ASSUME Typed, NEW c \in Callers, NEW step \in Steps, NEW call \in CallsAt(c, step)
    PROVE  /\ call \in Call /\ call.at = step /\ call.file \in Files /\ call.req \in Request
           /\ call = calls[c] => Proper(call)
           /\ step \notin {"init", "put", "complete", "delete", "download"} => call = calls[c] /\ calls[c] # Idle
           /\ calls[c] # Idle => call = calls[c]
<1>1. CASE calls[c] = Idle
  <2>1. PICK r \in setting.requests, f \in Files : call = Started(r, f)
    BY <1>1 DEF CallsAt
  <2>2. r \in Request
    BY DEF Typed, RestOK, Setting
  <2>3. call.at = step /\ call.at = r.op
    BY <1>1, <2>1 DEF CallsAt, Started
  <2>4. call \in Call /\ call.at \in {"init", "put", "complete", "delete", "download"}
    BY <2>1, <2>2 DEF Started, Call, Request, Steps
  <2>5. call # Idle
    BY <2>3 DEF Idle, Steps
  <2>6. QED
    BY <1>1, <2>3, <2>4, <2>5 DEF Call
<1>2. CASE calls[c] # Idle
  <2>1. call = calls[c] /\ call.at = step /\ Proper(call)
    BY <1>2 DEF CallsAt, Typed, CallsOK
  <2>2. QED
    BY <1>2, <2>1 DEF Proper, Call
<1>3. QED
  BY <1>1, <1>2

LEMMA Moved ==
    ASSUME NEW c, NEW call \in Call, NEW step \in Steps, Go(c, call, step)
    PROVE  \E x \in Call :
              /\ calls' = [calls EXCEPT ![c] = x] /\ x # Idle
              /\ x.at = step /\ x.file = call.file /\ x.req = call.req /\ x.verdict = call.verdict
<1> DEFINE x == [call EXCEPT !.at = step]
<1>1. x \in Call /\ x.at = step /\ x.file = call.file /\ x.req = call.req /\ x.verdict = call.verdict
  BY DEF Call
<1>2. x # Idle
  BY <1>1 DEF Idle, Steps
<1>3. calls' = [calls EXCEPT ![c] = x]
  BY DEF Go
<1> HIDE DEF x
<1>4. QED
  BY <1>1, <1>2, <1>3

LEMMA Decided ==
    ASSUME NEW c, NEW call \in Call, NEW step \in Steps, NEW what \in Status \cup {None},
           Decide(c, call, step, what)
    PROVE  \E x \in Call :
              /\ calls' = [calls EXCEPT ![c] = x] /\ x # Idle
              /\ x.at = step /\ x.file = call.file /\ x.req = call.req /\ x.verdict = what
<1> DEFINE x == [call EXCEPT !.at = step, !.verdict = what]
<1>1. x \in Call /\ x.at = step /\ x.file = call.file /\ x.req = call.req /\ x.verdict = what
  BY DEF Call
<1>2. x # Idle
  BY <1>1 DEF Idle, Steps
<1>3. calls' = [calls EXCEPT ![c] = x]
  BY DEF Decide
<1> HIDE DEF x
<1>4. QED
  BY <1>1, <1>2, <1>3

(* One call changes, or ends, and no row goes away.                        *)
LEMMA CallsStep ==
    ASSUME CallsOK, NEW c \in Callers, NEW x, calls' = [calls EXCEPT ![c] = x],
           x = Idle \/ Proper(x)',
           \A f \in Files : row[f] # None => row'[f] # None
    PROVE  CallsOK'
<1>1. x \in Call \cup {Idle}
  BY DEF Proper
<1>2. \A d \in Callers \ {c} : calls'[d] = calls[d]
  BY DEF CallsOK
<1>3. ASSUME NEW d \in Callers \ {c}, calls[d] # Idle PROVE Proper(calls[d])'
  <2>1. Proper(calls[d]) /\ calls[d].file \in Files
    BY <1>3 DEF CallsOK, Proper, Call
  <2>2. calls'[d] = calls[d]
    BY <1>2
  <2>3. QED
    BY <2>1, <2>2 DEF Proper
<1>4. calls'[c] = x
  BY DEF CallsOK
<1>5. \A d \in Callers : calls'[d] # Idle => Proper(calls[d])'
  BY <1>2, <1>3, <1>4 DEF Proper
<1>6. QED
  BY <1>1, <1>5 DEF CallsOK

-----------------------------------------------------------------------------
(* What a call knows of the bytes, until they are rewritten: their size    *)
(* once stat has compared it, and their hash once it was compared or was   *)
(* found too expensive; and what it makes the row say of them.             *)
SizeOK(f)        == object[f] # None => object[f].size = row[f].sizeBytes
Verified(f, sha) == SizeOK(f) /\ (object[f] # None /\ IsHashed(object[f]) => object[f] = sha)
Good(x) ==
    "rewritten" \notin marks[x.file] =>
        /\ x.at = "hash" => SizeOK(x.file)
        /\ x.at = "scan" => Verified(x.file, x.req.sha256)
        /\ x.at = "mark" /\ x.verdict = "available" => Verified(x.file, x.req.sha256)
        /\ x.at = "get" => row[x.file].status # "pending" /\ Verified(x.file, row[x.file].sha256)
RowGood(f) ==
    row[f] # None /\ row[f].status = "available" /\ "rewritten" \notin marks[f]
        => Verified(f, row[f].sha256)
Sound ==
    /\ \A c \in Callers : calls[c] # Idle => Good(calls[c])
    /\ \A f \in Files : RowGood(f)
Inv == Typed /\ Sound

(* A step of one call that leaves rows and bytes alone.                    *)
LEMMA QuietStep ==
    ASSUME Inv, NEW c \in Callers, NEW x, calls' = [calls EXCEPT ![c] = x],
           x = Idle \/ (Proper(x) /\ Good(x)),
           setting' = setting, row' = row, object' = object, uploadUrls' \subseteq uploadUrls,
           faults' \in Nat, told' \in [Files -> Status \cup {None}],
           marks' \in [Files -> SUBSET Marks], \A f \in Files : marks[f] \subseteq marks'[f]
    PROVE  Inv'
<1>1. Proper(x) => Proper(x)'
  BY DEF Proper
<1>2. CallsOK'
  BY <1>1, CallsStep DEF Inv, Typed
<1>3. RowsOK' /\ RestOK'
  BY DEF Inv, Typed, RowsOK, RestOK
<1>4. ASSUME NEW y \in Call, Good(y)
      PROVE  Good(y)'
  <2>1. y.file \in Files
    BY DEF Call
  <2>2. QED
    BY <1>4, <2>1 DEF Good, Verified, SizeOK
<1>5. ASSUME NEW d \in Callers, calls'[d] # Idle
      PROVE  Good(calls[d])'
  <2>1. CASE d = c
    <3>1. calls'[d] = x /\ x \in Call /\ Good(x)
      BY <1>5, <2>1 DEF Inv, Typed, CallsOK, Proper
    <3>2. Good(x)'
      BY <1>4, <3>1
    <3>3. QED
      BY <3>1, <3>2 DEF Good, Verified, SizeOK
  <2>2. CASE d # c
    <3>1. calls'[d] = calls[d] /\ calls[d] \in Call /\ Good(calls[d])
      BY <1>5, <2>2 DEF Inv, Typed, CallsOK, Proper, Sound
    <3>2. ASSUME NEW y \in Call, y = calls[d] PROVE Good(y)'
      BY <1>4, <3>1, <3>2
    <3>3. QED
      BY <3>1, <3>2 DEF Good, Verified, SizeOK
  <2>3. QED
    BY <2>1, <2>2
<1>6. \A f \in Files : RowGood(f)'
  BY DEF Inv, Sound, RowGood, Verified, SizeOK
<1>7. QED
  BY <1>2, <1>3, <1>5, <1>6 DEF Inv, Typed, Sound

LEMMA ReturnStep ==
    ASSUME Inv, NEW c \in Callers, Return(c),
           setting' = setting, row' = row, object' = object, uploadUrls' \subseteq uploadUrls,
           faults' \in Nat, told' \in [Files -> Status \cup {None}],
           marks' \in [Files -> SUBSET Marks], \A f \in Files : marks[f] \subseteq marks'[f]
    PROVE  Inv'
BY QuietStep DEF Return

LEMMA MarkTyped ==
    ASSUME marks \in [Files -> SUBSET Marks], NEW f \in Files, NEW what \in SUBSET Marks, Mark(f, what)
    PROVE  /\ marks' \in [Files -> SUBSET Marks]
           /\ \A g \in Files : marks[g] \subseteq marks'[g]
BY DEF Mark

-----------------------------------------------------------------------------
(* complete and delete keep the invariant while they read and decide, ...  *)

LEMMA Quiet ==
    ASSUME Inv
    PROVE  /\ faults \in Nat /\ told \in [Files -> Status \cup {None}]
           /\ marks \in [Files -> SUBSET Marks]
           /\ row \in [Files -> Row \cup {None}] /\ object \in [Files -> Contents \cup {None}]
BY DEF Inv, Typed, RowsOK, RestOK

LEMMA RequirePendingKeeps ==
    ASSUME Inv, NEW c \in Callers, RequirePending(c)
    PROVE  Inv'
<1>1. PICK call \in CallsAt(c, "complete") :
         /\ IF IsPending(call.file)
            THEN Go(c, call, "stat") /\ Mark(call.file, Overlaps(c, call.file))
            ELSE Return(c) /\ UNCHANGED marks
         /\ UNCHANGED <<setting, row, object, uploadUrls, told, faults>>
  BY DEF RequirePending
<1>2. call \in Call /\ call.file \in Files
  BY AtStep DEF Inv, Steps
<1>3. CASE IsPending(call.file)
  <2>1. PICK x \in Call : calls' = [calls EXCEPT ![c] = x] /\ x.at = "stat" /\ x.file = call.file
    BY <1>1, <1>2, <1>3, Moved DEF Steps
  <2>2. Proper(x) /\ Good(x)
    BY <1>3, <2>1 DEF Proper, Good, IsPending
  <2>3. Mark(call.file, Overlaps(c, call.file)) /\ Overlaps(c, call.file) \in SUBSET Marks
    BY <1>1, <1>3 DEF Overlaps, Marks
  <2>4. marks' \in [Files -> SUBSET Marks] /\ \A g \in Files : marks[g] \subseteq marks'[g]
    BY <1>2, <2>3, MarkTyped, Quiet
  <2>5. QED
    BY <1>1, <2>1, <2>2, <2>4, Quiet, QuietStep
<1>4. CASE ~IsPending(call.file)
  BY <1>1, <1>4, Quiet, ReturnStep
<1>5. QED
  BY <1>3, <1>4

LEMMA RejectKeeps ==
    ASSUME Inv, NEW c \in Callers, NEW call \in Call, Reject(c, call), row[call.file] # None,
           UNCHANGED <<setting, row, object, uploadUrls, told, faults, marks>>
    PROVE  Inv'
<1>1. PICK x \in Call : /\ calls' = [calls EXCEPT ![c] = x]
                        /\ x.at = "unlink" /\ x.file = call.file /\ x.verdict = "rejected"
  BY Decided DEF Reject, Steps, Status
<1>2. Proper(x) /\ Good(x)
  BY <1>1 DEF Proper, Good
<1>3. QED
  BY <1>1, <1>2, Quiet, QuietStep

LEMMA StatKeeps ==
    ASSUME Inv, NEW c \in Callers, Stat(c)
    PROVE  Inv'
<1>1. PICK call \in CallsAt(c, "stat") :
         /\ CASE object[call.file] = None -> Return(c)
              [] object[call.file] # None /\ object[call.file].size # row[call.file].sizeBytes -> Reject(c, call)
              [] object[call.file] # None /\ object[call.file].size = row[call.file].sizeBytes ->
                     Go(c, call, IF IsHashed(object[call.file]) THEN "hash" ELSE "scan")
         /\ UNCHANGED <<setting, row, object, uploadUrls, told, faults, marks>>
  BY DEF Stat
<1>2. call \in Call /\ call.at = "stat" /\ call.file \in Files /\ row[call.file] # None
  BY AtStep DEF Inv, Steps, Proper
<1>3. CASE object[call.file] = None
  BY <1>1, <1>3, Quiet, ReturnStep
<1>4. CASE object[call.file] # None /\ object[call.file].size # row[call.file].sizeBytes
  BY <1>1, <1>2, <1>4, RejectKeeps
<1>5. CASE object[call.file] # None /\ object[call.file].size = row[call.file].sizeBytes
  <2>1. CASE IsHashed(object[call.file])
    <3>1. Go(c, call, "hash")
      BY <1>1, <1>5, <2>1
    <3>2. PICK x \in Call : calls' = [calls EXCEPT ![c] = x] /\ x.at = "hash" /\ x.file = call.file
      BY <1>2, <3>1, Moved DEF Steps
    <3>3. Proper(x) /\ Good(x)
      BY <1>2, <1>5, <3>2 DEF Proper, Good, SizeOK
    <3>4. QED
      BY <1>1, <3>2, <3>3, Quiet, QuietStep
  <2>2. CASE ~IsHashed(object[call.file])
    <3>1. Go(c, call, "scan")
      BY <1>1, <1>5, <2>2
    <3>2. PICK x \in Call : calls' = [calls EXCEPT ![c] = x] /\ x.at = "scan" /\ x.file = call.file
      BY <1>2, <3>1, Moved DEF Steps
    <3>3. Proper(x) /\ Good(x)
      BY <1>2, <1>5, <2>2, <3>2 DEF Proper, Good, SizeOK, Verified
    <3>4. QED
      BY <1>1, <3>2, <3>3, Quiet, QuietStep
  <2>3. QED
    BY <2>1, <2>2
<1>6. QED
  BY <1>3, <1>4, <1>5

LEMMA HashKeeps ==
    ASSUME Inv, NEW c \in Callers, Hash(c)
    PROVE  Inv'
<1>1. PICK call \in CallsAt(c, "hash") :
         /\ IF object[call.file] = None THEN Return(c)
            ELSE IF HashMatches(object[call.file], call.req.sha256) THEN Go(c, call, "scan")
            ELSE Reject(c, call)
         /\ UNCHANGED <<setting, row, object, uploadUrls, told, faults, marks>>
  BY DEF Hash
<1>2. /\ call \in Call /\ call.at = "hash" /\ call.file \in Files
      /\ call = calls[c] /\ calls[c] # Idle /\ row[call.file] # None
  BY AtStep DEF Inv, Steps, Proper
<1>3. CASE object[call.file] = None
  BY <1>1, <1>3, Quiet, ReturnStep
<1>4. CASE object[call.file] # None /\ ~HashMatches(object[call.file], call.req.sha256)
  BY <1>1, <1>2, <1>4, RejectKeeps
<1>5. CASE object[call.file] # None /\ HashMatches(object[call.file], call.req.sha256)
  <2>1. Go(c, call, "scan")
    BY <1>1, <1>5
  <2>2. PICK x \in Call : /\ calls' = [calls EXCEPT ![c] = x]
                          /\ x.at = "scan" /\ x.file = call.file /\ x.req = call.req
    BY <1>2, <2>1, Moved DEF Steps
  <2>3. "rewritten" \notin marks[call.file] => SizeOK(call.file)
    BY <1>2 DEF Inv, Sound, Good
  <2>4. Proper(x) /\ Good(x)
    BY <1>2, <1>5, <2>2, <2>3 DEF Proper, Good, Verified, HashMatches
  <2>5. QED
    BY <1>1, <2>2, <2>4, Quiet, QuietStep
<1>6. QED
  BY <1>3, <1>4, <1>5

LEMMA ScanKeeps ==
    ASSUME Inv, NEW c \in Callers, Scan(c)
    PROVE  Inv'
<1>1. PICK call \in CallsAt(c, "scan"), verdict \in {"available", "quarantined"} :
         /\ Decide(c, call, "mark", verdict)
         /\ UNCHANGED <<setting, row, object, uploadUrls, told, faults, marks>>
  BY DEF Scan
<1>2. /\ call \in Call /\ call.at = "scan" /\ call.file \in Files
      /\ call = calls[c] /\ calls[c] # Idle /\ row[call.file] # None
  BY AtStep DEF Inv, Steps, Proper
<1>3. verdict \in Status /\ verdict # None /\ verdict # "pending"
  BY ArtifactConstants DEF Status
<1>4. PICK x \in Call : /\ calls' = [calls EXCEPT ![c] = x] /\ x.at = "mark"
                        /\ x.file = call.file /\ x.req = call.req /\ x.verdict = verdict
  BY <1>1, <1>2, <1>3, Decided DEF Steps
<1>5. "rewritten" \notin marks[call.file] => Verified(call.file, call.req.sha256)
  BY <1>2 DEF Inv, Sound, Good
<1>6. Proper(x) /\ Good(x)
  BY <1>2, <1>3, <1>4, <1>5 DEF Proper, Good
<1>7. QED
  BY <1>1, <1>4, <1>6, Quiet, QuietStep

LEMMA DeleteKeeps ==
    ASSUME Inv, NEW c \in Callers, Delete(c)
    PROVE  Inv'
<1>1. PICK call \in CallsAt(c, "delete") :
         /\ IF row[call.file] # None /\ row[call.file].status # "deleted"
            THEN Decide(c, call, "unlink", "deleted") /\ Mark(call.file, Overlaps(c, call.file))
            ELSE Return(c) /\ UNCHANGED marks
         /\ UNCHANGED <<setting, row, object, uploadUrls, told, faults>>
  BY DEF Delete
<1>2. call \in Call /\ call.file \in Files
  BY AtStep DEF Inv, Steps
<1>3. CASE row[call.file] # None /\ row[call.file].status # "deleted"
  <2>1. PICK x \in Call : /\ calls' = [calls EXCEPT ![c] = x]
                          /\ x.at = "unlink" /\ x.file = call.file /\ x.verdict = "deleted"
    BY <1>1, <1>2, <1>3, Decided DEF Steps, Status
  <2>2. Proper(x) /\ Good(x)
    BY <1>3, <2>1 DEF Proper, Good
  <2>3. Mark(call.file, Overlaps(c, call.file)) /\ Overlaps(c, call.file) \in SUBSET Marks
    BY <1>1, <1>3 DEF Overlaps, Marks
  <2>4. marks' \in [Files -> SUBSET Marks] /\ \A g \in Files : marks[g] \subseteq marks'[g]
    BY <1>2, <2>3, MarkTyped, Quiet
  <2>5. QED
    BY <1>1, <2>1, <2>2, <2>4, Quiet, QuietStep
<1>4. CASE ~(row[call.file] # None /\ row[call.file].status # "deleted")
  BY <1>1, <1>4, Quiet, ReturnStep
<1>5. QED
  BY <1>3, <1>4

LEMMA FailToDeleteKeeps ==
    ASSUME Inv, NEW c \in Callers, FailToDeleteBytes(c)
    PROVE  Inv'
<1>1. PICK call \in CallsAt(c, "unlink") :
         /\ faults' = faults + 1 /\ Mark(call.file, {"undeleted"}) /\ Go(c, call, "mark")
         /\ UNCHANGED <<setting, row, object, uploadUrls, told>>
  BY DEF FailToDeleteBytes
<1>2. /\ call \in Call /\ call.at = "unlink" /\ call.file \in Files
      /\ call = calls[c] /\ calls[c] # Idle /\ Proper(call)
  BY AtStep DEF Inv, Steps
<1>3. PICK x \in Call : /\ calls' = [calls EXCEPT ![c] = x] /\ x.at = "mark"
                        /\ x.file = call.file /\ x.req = call.req /\ x.verdict = call.verdict
  BY <1>1, <1>2, Moved DEF Steps
<1>4. call.verdict \notin {None, "pending", "available"}
  BY <1>2, ArtifactConstants DEF Proper, Status
<1>5. Proper(x) /\ Good(x)
  BY <1>2, <1>3, <1>4 DEF Proper, Good
<1>6. marks' \in [Files -> SUBSET Marks] /\ \A g \in Files : marks[g] \subseteq marks'[g]
  BY <1>1, <1>2, MarkTyped, Quiet DEF Marks
<1>7. faults' \in Nat
  BY <1>1, Quiet
<1>8. QED
  BY <1>1, <1>3, <1>5, <1>6, <1>7, Quiet, QuietStep

LEMMA AuditKeeps ==
    ASSUME Inv, NEW c \in Callers, Audit(c)
    PROVE  Inv'
<1>1. PICK call \in CallsAt(c, "tell") :
         /\ Tell(call)
         /\ IF call.verdict = "pending" THEN Go(c, call, "put") ELSE Return(c)
         /\ UNCHANGED <<setting, row, object, uploadUrls, faults, marks>>
  BY DEF Audit
<1>2. call \in Call /\ call.file \in Files /\ row[call.file] # None
  BY AtStep DEF Inv, Steps, Proper
<1>3. told' \in [Files -> Status \cup {None}]
  BY <1>1, <1>2, Quiet DEF Tell, Call
<1>4. CASE call.verdict = "pending"
  <2>1. PICK x \in Call : calls' = [calls EXCEPT ![c] = x] /\ x.at = "put" /\ x.file = call.file
    BY <1>1, <1>2, <1>4, Moved DEF Steps
  <2>2. Proper(x) /\ Good(x)
    BY <1>2, <2>1 DEF Proper, Good
  <2>3. QED
    BY <1>1, <1>3, <2>1, <2>2, Quiet, QuietStep
<1>5. CASE call.verdict # "pending"
  BY <1>1, <1>3, <1>5, Quiet, ReturnStep
<1>6. QED
  BY <1>4, <1>5

LEMMA DownloadUrlKeeps ==
    ASSUME Inv, NEW c \in Callers, DownloadUrl(c)
    PROVE  Inv'
<1>1. PICK call \in CallsAt(c, "download") :
         /\ row[call.file] # None /\ row[call.file].status = "available"
         /\ Go(c, call, "get")
         /\ UNCHANGED <<setting, row, object, uploadUrls, told, faults, marks>>
  BY DEF DownloadUrl
<1>2. call \in Call /\ call.file \in Files
  BY AtStep DEF Inv, Steps
<1>3. PICK x \in Call : calls' = [calls EXCEPT ![c] = x] /\ x.at = "get" /\ x.file = call.file
  BY <1>1, <1>2, Moved DEF Steps
<1>4. RowGood(call.file)
  BY <1>2 DEF Inv, Sound
<1>5. Proper(x) /\ Good(x)
  BY <1>1, <1>3, <1>4 DEF Proper, Good, RowGood
<1>6. QED
  BY <1>1, <1>3, <1>5, Quiet, QuietStep

LEMMA FailKeeps ==
    ASSUME Inv, NEW c \in Callers, Fail(c)
    PROVE  Inv'
<1>1. /\ calls[c] # Idle /\ faults' = faults + 1 /\ Mark(calls[c].file, {"died"})
      /\ UNCHANGED <<setting, row, object, uploadUrls, told>>
  BY DEF Fail
<1>2. calls[c] \in Call /\ calls[c].file \in Files
  BY <1>1 DEF Inv, Typed, CallsOK, Proper, Call
<1>3. marks' \in [Files -> SUBSET Marks] /\ \A g \in Files : marks[g] \subseteq marks'[g]
  BY <1>1, <1>2, MarkTyped, Quiet DEF Marks
<1>4. faults' \in Nat
  BY <1>1, Quiet
<1>5. CASE Return(c)
  BY <1>1, <1>3, <1>4, <1>5, Quiet, ReturnStep
<1>6. CASE Decide(c, calls[c], "complete", None)
  <2>1. PICK x \in Call : calls' = [calls EXCEPT ![c] = x] /\ x.at = "complete" /\ x.file = calls[c].file
    BY <1>2, <1>6, Decided DEF Steps
  <2>2. Proper(x) /\ Good(x)
    BY <2>1 DEF Proper, Good
  <2>3. QED
    BY <1>1, <1>3, <1>4, <2>1, <2>2, Quiet, QuietStep
<1>7. QED
  BY <1>5, <1>6 DEF Fail

-----------------------------------------------------------------------------
(* ... and while they change the row and the bytes of a file.              *)

LEMMA FileStep ==
    ASSUME Inv, NEW c \in Callers, NEW x, NEW f \in Files, calls' = [calls EXCEPT ![c] = x],
           x = Idle \/ (Proper(x)' /\ Good(x)'),
           RowsOK', RestOK', \A g \in Files : row[g] # None => row'[g] # None,
           \A g \in Files \ {f} : row'[g] = row[g] /\ object'[g] = object[g] /\ marks'[g] = marks[g],
           RowGood(f)',
           \A d \in Callers \ {c}, y \in Call : y = calls[d] /\ y # Idle /\ y.file = f => Good(y)'
    PROVE  Inv'
<1>1. CallsOK'
  BY CallsStep DEF Inv, Typed
<1>2. ASSUME NEW d \in Callers, calls'[d] # Idle
      PROVE  Good(calls[d])'
  <2>1. CASE d = c
    <3>1. calls'[d] = x
      BY <2>1 DEF Inv, Typed, CallsOK
    <3>2. Good(x)'
      BY <1>2, <3>1
    <3>3. QED
      BY <3>1, <3>2 DEF Good
  <2>2. CASE d # c
    <3>1. calls'[d] = calls[d] /\ calls[d] \in Call /\ Good(calls[d]) /\ calls[d].file \in Files
      BY <1>2, <2>2 DEF Inv, Typed, CallsOK, Proper, Sound, Call
    <3>2. ASSUME NEW y \in Call, y = calls[d] PROVE Good(y)'
      <4>1. CASE y.file = f
        BY <1>2, <2>2, <3>1, <3>2, <4>1
      <4>2. CASE y.file # f
        BY <3>1, <3>2, <4>2 DEF Good, Verified, SizeOK
      <4>3. QED
        BY <4>1, <4>2
    <3>3. QED
      BY <3>1, <3>2 DEF Good
  <2>3. QED
    BY <2>1, <2>2
<1>3. \A g \in Files : RowGood(g)'
  BY DEF Inv, Sound, RowGood, Verified, SizeOK
<1>4. QED
  BY <1>1, <1>2, <1>3 DEF Inv, Typed, Sound

LEMMA InitUploadKeeps ==
    ASSUME Inv, NEW c \in Callers, InitUpload(c)
    PROVE  Inv'
<1>1. PICK call \in CallsAt(c, "init") :
         /\ row[call.file] = None
         /\ row' = [row EXCEPT ![call.file] = [status |-> "pending", sizeBytes |-> call.req.sizeBytes,
                                               sha256 |-> call.req.sha256]]
         /\ uploadUrls' = uploadUrls \cup {call.file}
         /\ Decide(c, call, "tell", "pending")
         /\ UNCHANGED <<setting, object, told, faults, marks>>
  BY DEF InitUpload
<1>2. call \in Call /\ call.file \in Files /\ call.req \in Request
  BY AtStep DEF Inv, Steps
<1>3. PICK x \in Call : /\ calls' = [calls EXCEPT ![c] = x] /\ x.at = "tell"
                        /\ x.file = call.file /\ x.verdict = "pending"
  BY <1>1, <1>2, Decided DEF Steps, Status
<1>4. row'[call.file] \in Row /\ row'[call.file].status = "pending"
  BY <1>1, <1>2, Quiet DEF Row, Request, Status
<1>5. row'[call.file] # None /\ "pending" # None
  BY <1>4, ArtifactConstants DEF Status
<1>6. \A g \in Files \ {call.file} : row'[g] = row[g]
  BY <1>1, <1>2, Quiet
<1>7. Proper(x)' /\ Good(x)'
  BY <1>3, <1>5 DEF Proper, Good
<1>8. row' \in [Files -> Row \cup {None}]
  BY <1>1, <1>4, <1>2, Quiet
<1>9. RowsOK' /\ RestOK'
  BY <1>1, <1>2, <1>5, <1>6, <1>8 DEF Inv, Typed, RowsOK, RestOK
<1>10. RowGood(call.file)'
  BY <1>4 DEF RowGood
<1>11. ASSUME NEW d \in Callers \ {c}, NEW y \in Call, y = calls[d], y # Idle, y.file = call.file
       PROVE  Good(y)'
  <2>1. Proper(y)
    BY <1>11 DEF Inv, Typed, CallsOK
  <2>2. QED
    BY <1>1, <1>11, <2>1 DEF Proper, Good
<1>12. \A g \in Files : row[g] # None => row'[g] # None
  BY <1>5, <1>6
<1>13. PICK f \in Files : f = call.file
  BY <1>2
<1>14. \A g \in Files \ {f} : row'[g] = row[g] /\ object'[g] = object[g] /\ marks'[g] = marks[g]
  BY <1>1, <1>6, <1>13
<1>15. RowGood(f)'
  BY <1>10, <1>13
<1>16. \A d \in Callers \ {c}, y \in Call : y = calls[d] /\ y # Idle /\ y.file = f => Good(y)'
  BY <1>11, <1>13
<1>17. QED
  BY <1>3, <1>7, <1>9, <1>12, <1>14, <1>15, <1>16, FileStep

LEMMA PutKeeps ==
    ASSUME Inv, NEW c \in Callers, Put(c)
    PROVE  Inv'
<1>1. PICK call \in CallsAt(c, "put") :
         /\ IF call.file \in uploadUrls
            THEN /\ object' = [object EXCEPT ![call.file] = call.req.bytes]
                 /\ Mark(call.file, Rewrites(call) \cup IsLate(call.file))
                 /\ IF call.req.op = "init" THEN Go(c, call, "complete") ELSE Return(c)
            ELSE Return(c) /\ UNCHANGED <<object, marks>>
         /\ UNCHANGED <<setting, row, uploadUrls, told, faults>>
  BY DEF Put
<1>2. call \in Call /\ call.file \in Files /\ call.req \in Request /\ call.req.bytes \in Contents
  BY AtStep DEF Inv, Steps, Request
<1>3. CASE call.file \notin uploadUrls
  BY <1>1, <1>3, Quiet, ReturnStep
<1>4. CASE call.file \in uploadUrls
  <2>1. /\ object' = [object EXCEPT ![call.file] = call.req.bytes]
        /\ Mark(call.file, Rewrites(call) \cup IsLate(call.file))
    BY <1>1, <1>4
  <2>2. \E x : calls' = [calls EXCEPT ![c] = x] /\ (x = Idle \/ (Proper(x)' /\ Good(x)'))
    <3>1. CASE Return(c)
      BY <3>1 DEF Return
    <3>2. CASE Go(c, call, "complete")
      <4>1. PICK x \in Call : calls' = [calls EXCEPT ![c] = x] /\ x.at = "complete"
        BY <1>2, <3>2, Moved DEF Steps
      <4>2. Proper(x)' /\ Good(x)'
        BY <4>1 DEF Proper, Good
      <4>3. QED
        BY <4>1, <4>2
    <3>3. QED
      BY <1>1, <1>4, <3>1, <3>2
  <2>3. PICK x : calls' = [calls EXCEPT ![c] = x] /\ (x = Idle \/ (Proper(x)' /\ Good(x)'))
    BY <2>2
  <2>4. row[call.file] # None
    BY <1>2, <1>4 DEF Inv, Typed, RowsOK
  <2>5. /\ object' \in [Files -> Contents \cup {None}]
        /\ \A g \in Files \ {call.file} : object'[g] = object[g]
        /\ object'[call.file] = call.req.bytes
    BY <1>2, <2>1, Quiet
  <2>6. /\ marks' \in [Files -> SUBSET Marks]
        /\ \A g \in Files \ {call.file} : marks'[g] = marks[g]
        /\ marks'[call.file] = marks[call.file] \cup Rewrites(call) \cup IsLate(call.file)
    BY <1>2, <2>1, Quiet DEF Mark, Marks, Rewrites, IsLate
  <2>7. RowsOK' /\ RestOK'
    BY <1>1, <2>4, <2>5, <2>6 DEF Inv, Typed, RowsOK, RestOK
  <2>8. "rewritten" \notin marks'[call.file] => ~PastCheck(call)
    BY <2>6 DEF Rewrites
  <2>9. RowGood(call.file)'
    BY <1>1, <2>8 DEF RowGood, PastCheck
  <2>10. ASSUME NEW d \in Callers \ {c}, NEW y \in Call, y = calls[d], y # Idle, y.file = call.file,
                "rewritten" \notin marks'[call.file]
         PROVE  Good(y)'
    <3>1. ~PastCheck(call) /\ row[call.file].status = "pending" /\ d \in Callers
      BY <2>8, <2>10 DEF PastCheck
    <3>2. y.at \notin {"scan", "mark"}
      BY <2>10, <3>1 DEF PastCheck, OnFile
    <3>3. y.at = "hash" => call.req.bytes.size = row[call.file].sizeBytes
      BY <2>10, <3>1 DEF PastCheck, OnFile
    <3>4. y.at # "get"
      BY <2>6, <2>10, <3>1 DEF Inv, Sound, Good
    <3>5. y.at = "hash" => SizeOK(call.file)'
      BY <1>1, <2>5, <3>3 DEF SizeOK
    <3>6. QED
      BY <2>10, <3>2, <3>4, <3>5 DEF Good
  <2>11. ASSUME NEW d \in Callers \ {c}, NEW y \in Call, y = calls[d], y # Idle, y.file = call.file
         PROVE  Good(y)'
    BY <2>10, <2>11 DEF Good
  <2>12. /\ \A g \in Files : row[g] # None => row'[g] # None
         /\ \A g \in Files \ {call.file} :
               row'[g] = row[g] /\ object'[g] = object[g] /\ marks'[g] = marks[g]
    BY <1>1, <2>5, <2>6
  <2>13. PICK f \in Files : f = call.file
    BY <1>2
  <2>14. /\ \A g \in Files \ {f} : row'[g] = row[g] /\ object'[g] = object[g] /\ marks'[g] = marks[g]
         /\ RowGood(f)'
    BY <2>9, <2>12, <2>13
  <2>15. \A d \in Callers \ {c}, y \in Call : y = calls[d] /\ y # Idle /\ y.file = f => Good(y)'
    BY <2>11, <2>13
  <2>16. QED
    BY <2>3, <2>7, <2>12, <2>14, <2>15, FileStep
<1>5. QED
  BY <1>3, <1>4

LEMMA DeleteBytesKeeps ==
    ASSUME Inv, NEW c \in Callers, DeleteBytes(c)
    PROVE  Inv'
<1>1. PICK call \in CallsAt(c, "unlink") :
         /\ Unlink(call.file) /\ Go(c, call, "mark")
         /\ UNCHANGED <<setting, row, uploadUrls, told, faults>>
  BY DEF DeleteBytes
<1>2. /\ call \in Call /\ call.at = "unlink" /\ call.file \in Files
      /\ call = calls[c] /\ calls[c] # Idle /\ Proper(call)
  BY AtStep DEF Inv, Steps
<1>3. PICK x \in Call : /\ calls' = [calls EXCEPT ![c] = x] /\ x.at = "mark"
                        /\ x.file = call.file /\ x.verdict = call.verdict
  BY <1>1, <1>2, Moved DEF Steps
<1>4. call.verdict \notin {None, "pending", "available"}
  BY <1>2, ArtifactConstants DEF Proper, Status
<1>5. Proper(x)' /\ Good(x)'
  BY <1>1, <1>2, <1>3, <1>4 DEF Proper, Good
<1>6. /\ object' \in [Files -> Contents \cup {None}] /\ object'[call.file] = None
      /\ \A g \in Files \ {call.file} : object'[g] = object[g]
  BY <1>1, <1>2, Quiet DEF Unlink
<1>7. /\ marks' \in [Files -> SUBSET Marks] /\ marks[call.file] \subseteq marks'[call.file]
      /\ \A g \in Files \ {call.file} : marks'[g] = marks[g]
  BY <1>1, <1>2, Quiet DEF Unlink, Mark, Marks
<1>8. RowsOK' /\ RestOK'
  BY <1>1, <1>6, <1>7 DEF Inv, Typed, RowsOK, RestOK
<1>9. RowGood(call.file)'
  BY <1>6 DEF RowGood, Verified, SizeOK
<1>10. ASSUME NEW d \in Callers \ {c}, NEW y \in Call, y = calls[d], y # Idle, y.file = call.file
       PROVE  Good(y)'
  <2>1. Good(y)
    BY <1>10 DEF Inv, Sound
  <2>2. QED
    BY <1>1, <1>6, <1>7, <1>10, <2>1 DEF Good, Verified, SizeOK
<1>11. /\ \A g \in Files : row[g] # None => row'[g] # None
       /\ \A g \in Files \ {call.file} :
             row'[g] = row[g] /\ object'[g] = object[g] /\ marks'[g] = marks[g]
  BY <1>1, <1>6, <1>7
<1>12. call.file \in Files /\ calls' = [calls EXCEPT ![c] = x]
  BY <1>2, <1>3
<1>13. PICK f \in Files : f = call.file
  BY <1>2
<1>14. /\ \A g \in Files \ {f} : row'[g] = row[g] /\ object'[g] = object[g] /\ marks'[g] = marks[g]
       /\ RowGood(f)'
  BY <1>9, <1>11, <1>13
<1>15. \A d \in Callers \ {c}, y \in Call : y = calls[d] /\ y # Idle /\ y.file = f => Good(y)'
  BY <1>10, <1>13
<1>16. QED
  BY <1>5, <1>8, <1>11, <1>12, <1>14, <1>15, FileStep

LEMMA SetStatusKeeps ==
    ASSUME Inv, NEW c \in Callers, SetStatus(c)
    PROVE  Inv'
<1>1. PICK call \in CallsAt(c, "mark") :
         /\ row' = [row EXCEPT ![call.file].status = call.verdict,
                               ![call.file].sha256 = IF call.verdict = "available"
                                                     THEN call.req.sha256 ELSE @]
         /\ Go(c, call, "tell")
         /\ UNCHANGED <<setting, object, uploadUrls, told, faults, marks>>
  BY DEF SetStatus
<1>2. /\ call \in Call /\ call.at = "mark" /\ call.file \in Files /\ call.req \in Request
      /\ call = calls[c] /\ calls[c] # Idle /\ Proper(call) /\ Good(call)
  BY AtStep DEF Inv, Steps, Sound
<1>3. PICK x \in Call : /\ calls' = [calls EXCEPT ![c] = x] /\ x.at = "tell"
                        /\ x.file = call.file /\ x.verdict = call.verdict
  BY <1>1, <1>2, Moved DEF Steps
<1>4. call.verdict \in Status \ {"pending"} /\ call.req.sha256 \in Contents
  BY <1>2, ArtifactConstants DEF Proper, Call, Request, Status
<1>5. row[call.file] # None /\ row[call.file] \in Row
  BY <1>2, Quiet DEF Proper
<1> DEFINE old == row[call.file]
           new == row'[call.file]
<1>6. /\ row' = [row EXCEPT ![call.file] = new]
      /\ new = [old EXCEPT !.status = call.verdict,
                           !.sha256 = IF call.verdict = "available" THEN call.req.sha256 ELSE @]
  BY <1>1, <1>2, Quiet
<1>7. new \in Row /\ new.status = call.verdict /\ new.sizeBytes = old.sizeBytes
  BY <1>4, <1>5, <1>6 DEF Row
<1>8. new.sha256 = IF call.verdict = "available" THEN call.req.sha256 ELSE old.sha256
  BY <1>5, <1>6 DEF Row
<1>9. row' \in [Files -> Row \cup {None}] /\ \A g \in Files \ {call.file} : row'[g] = row[g]
  BY <1>6, <1>7, <1>2, Quiet
<1>10. new # None /\ \A g \in Files : row[g] # None => row'[g] # None
  BY <1>7, <1>9, ArtifactConstants
<1>11. Proper(x)' /\ Good(x)'
  BY <1>3, <1>10, <1>2 DEF Proper, Good
<1>12. RowsOK' /\ RestOK'
  BY <1>1, <1>9, <1>10 DEF Inv, Typed, RowsOK, RestOK
<1>13. \A sha : Verified(call.file, sha) => Verified(call.file, sha)'
  BY <1>1, <1>7 DEF Verified, SizeOK
<1>14. "rewritten" \notin marks[call.file] /\ call.verdict = "available"
       => Verified(call.file, call.req.sha256)
  BY <1>2 DEF Good
<1>15. RowGood(call.file)'
  BY <1>1, <1>7, <1>8, <1>13, <1>14 DEF RowGood
<1>16. ASSUME NEW d \in Callers \ {c}, NEW y \in Call, y = calls[d], y # Idle, y.file = call.file
       PROVE  Good(y)'
  <2>1. Good(y)
    BY <1>16 DEF Inv, Sound
  <2>2. y.at = "hash" /\ SizeOK(call.file) => SizeOK(call.file)'
    BY <1>1, <1>7 DEF SizeOK
  <2>3. y.at = "get" /\ "rewritten" \notin marks[call.file] => Verified(call.file, new.sha256)
    BY <1>8, <1>14, <1>16, <2>1 DEF Good
  <2>4. new.status # "pending"
    BY <1>4, <1>7
  <2>5. QED
    BY <1>1, <1>13, <1>16, <2>1, <2>2, <2>3, <2>4 DEF Good
<1>17. \A g \in Files \ {call.file} : row'[g] = row[g] /\ object'[g] = object[g] /\ marks'[g] = marks[g]
  BY <1>1, <1>9
<1>18. PICK f \in Files : f = call.file
  BY <1>2
<1>19. /\ \A g \in Files \ {f} : row'[g] = row[g] /\ object'[g] = object[g] /\ marks'[g] = marks[g]
       /\ RowGood(f)'
  BY <1>15, <1>17, <1>18
<1>20. \A d \in Callers \ {c}, y \in Call : y = calls[d] /\ y # Idle /\ y.file = f => Good(y)'
  BY <1>16, <1>18
<1>21. \A g \in Files : row[g] # None => row'[g] # None
  BY <1>10
<1> HIDE DEF old, new
<1>22. QED
  BY <1>3, <1>11, <1>12, <1>19, <1>20, <1>21, FileStep

-----------------------------------------------------------------------------
(* The invariant, and what it says.                                        *)

LEMMA InvInit ==
    Init => Inv
<1> SUFFICES ASSUME Init PROVE Inv
  OBVIOUS
<1>1. Typed
  BY ArtifactConstants DEF Init, Typed, CallsOK, RowsOK, RestOK
<1>2. Sound
  BY DEF Init, Sound, RowGood
<1>3. QED
  BY <1>1, <1>2 DEF Inv

LEMMA InvStep ==
    Inv /\ [Next]_vars => Inv'
<1> SUFFICES ASSUME Inv, [Next]_vars PROVE Inv'
  OBVIOUS
<1>1. ASSUME NEW c \in Callers, CallStep(c) PROVE Inv'
  <2>1. CASE InitUpload(c)        BY <2>1, InitUploadKeeps
  <2>2. CASE Put(c)               BY <2>2, PutKeeps
  <2>3. CASE RequirePending(c)    BY <2>3, RequirePendingKeeps
  <2>4. CASE Stat(c)              BY <2>4, StatKeeps
  <2>5. CASE Hash(c)              BY <2>5, HashKeeps
  <2>6. CASE Scan(c)              BY <2>6, ScanKeeps
  <2>7. CASE Delete(c)            BY <2>7, DeleteKeeps
  <2>8. CASE DeleteBytes(c)       BY <2>8, DeleteBytesKeeps
  <2>9. CASE FailToDeleteBytes(c) BY <2>9, FailToDeleteKeeps
  <2>10. CASE SetStatus(c)        BY <2>10, SetStatusKeeps
  <2>11. CASE Audit(c)            BY <2>11, AuditKeeps
  <2>12. CASE DownloadUrl(c)      BY <2>12, DownloadUrlKeeps
  <2>13. CASE Get(c)
    BY <2>13, Quiet, ReturnStep DEF Get
  <2>14. QED
    BY <1>1, <2>1, <2>2, <2>3, <2>4, <2>5, <2>6, <2>7, <2>8, <2>9, <2>10, <2>11, <2>12, <2>13
    DEF CallStep
<1>2. ASSUME NEW c \in Callers, Fail(c) PROVE Inv'
  BY <1>2, FailKeeps
<1>3. ASSUME NEW f \in Files, UrlExpires(f) PROVE Inv'
  <2>1. CallsOK' /\ RowsOK' /\ RestOK'
    BY <1>3 DEF UrlExpires, Inv, Typed, CallsOK, Proper, RowsOK, RestOK
  <2>2. Sound'
    BY <1>3 DEF UrlExpires, Inv, Sound, Good, RowGood, Verified, SizeOK
  <2>3. QED
    BY <2>1, <2>2 DEF Inv, Typed
<1>4. CASE UNCHANGED vars
  <2>1. CallsOK' /\ RowsOK' /\ RestOK'
    BY <1>4 DEF vars, Inv, Typed, CallsOK, Proper, RowsOK, RestOK
  <2>2. Sound'
    BY <1>4 DEF vars, Inv, Sound, Good, RowGood, Verified, SizeOK
  <2>3. QED
    BY <2>1, <2>2 DEF Inv, Typed
<1>5. QED
  BY <1>1, <1>2, <1>3, <1>4 DEF Next

LEMMA Invariant ==
    Spec => []Inv
BY InvInit, InvStep, PTL DEF Spec

LEMMA InvSays ==
    ASSUME Inv
    PROVE  TypeOK /\ DownloadsAreVerified
<1>1. \A c \in Callers : calls[c].at \in {"unlink", "mark", "tell"} => calls[c].verdict # None
  <2> SUFFICES ASSUME NEW c \in Callers, calls[c].at \in {"unlink", "mark", "tell"}
               PROVE  calls[c].verdict # None
    OBVIOUS
  <2>1. calls[c] # Idle
    BY DEF Idle
  <2>2. Proper(calls[c])
    BY <2>1 DEF Inv, Typed, CallsOK
  <2>3. QED
    BY <2>2, ArtifactConstants DEF Proper, Status
<1>2. TypeOK
  BY <1>1 DEF Inv, Typed, CallsOK, RowsOK, RestOK, Marks, TypeOK
<1>3. ASSUME NEW f \in Files, StatusOf(f) = "available" \/ OnFile(f, {"get"}) # {},
             object[f] # None, ~Excused(f, {"rewritten"})
      PROVE  object[f].size = row[f].sizeBytes /\ (IsHashed(object[f]) => object[f] = row[f].sha256)
  <2>1. "rewritten" \notin marks[f]
    BY <1>3 DEF Excused
  <2>2. row[f] # None
    BY <1>3 DEF Inv, Typed, RowsOK
  <2>3. CASE StatusOf(f) = "available"
    BY <1>3, <2>1, <2>2, <2>3 DEF StatusOf, Inv, Sound, RowGood, Verified, SizeOK
  <2>4. CASE OnFile(f, {"get"}) # {}
    <3>1. PICK c \in Callers : calls[c].at = "get" /\ calls[c].file = f
      BY <2>4 DEF OnFile
    <3>2. Good(calls[c])
      BY <3>1 DEF Idle, Inv, Sound
    <3>3. QED
      BY <1>3, <2>1, <3>1, <3>2 DEF Good, Verified, SizeOK
  <2>5. QED
    BY <1>3, <2>3, <2>4
<1>4. QED
  BY <1>2, <1>3 DEF DownloadsAreVerified

-----------------------------------------------------------------------------
(* Every artifact, object, call and history is well-formed, a call that is *)
(* about to change a row knows to what, and a file nobody announced has    *)
(* neither bytes nor an upload URL.                                        *)
THEOREM ArtifactsTypeCorrect ==
    Spec => []TypeOK
<1>1. Inv => TypeOK
  BY InvSays
<1>2. QED
  BY <1>1, Invariant, PTL

(* "Verified on completion": what a client downloads has the declared size *)
(* and, if it was hashed, the recorded sha256, unless the upload URL was   *)
(* used after the check: for any number of uploads, completes, deletes and *)
(* downloads that overlap, and however they fail.                          *)
THEOREM DownloadsVerified ==
    Spec => []DownloadsAreVerified
<1>1. Inv => DownloadsAreVerified
  BY InvSays
<1>2. QED
  BY <1>1, Invariant, PTL

-----------------------------------------------------------------------------
(* What keeps the status true.  Two calls change a file at once only if it *)
(* is marked so; what a call on its way to a verdict, past its checks,     *)
(* past the deletion of the bytes or past the UPDATE may rely on; and what *)
(* the row, the bucket and the audit log make of it once it is done.       *)
Unraced(f) == ~Excused(f, {"raced"})
Orderly(f) == ~Excused(f, {"raced", "overlapped"})
Plain(f)   == ~Excused(f, {"raced", "overlapped", "died"})
Removed(f) == ~Excused(f, {"late", "undeleted"}) => object[f] = None /\ "unlinked" \in marks[f]
One(f, steps) == \A c, d \in OnFile(f, steps) : c = d

Judges(x) == x.at \in {"stat", "hash", "scan"} \/ (x.at \in {"unlink", "mark"} /\ x.verdict # "deleted")
Passed(x) == x.at = "scan" \/ (x.at = "mark" /\ x.verdict \in {"available", "quarantined"})
Steady(x) ==
    /\ Unraced(x.file) /\ Judges(x) => row[x.file].status = "pending"
    /\ Unraced(x.file) /\ Passed(x) => object[x.file] # None
    /\ x.at = "mark" /\ x.verdict \in {"rejected", "deleted"} => Removed(x.file)
    /\ Plain(x.file) /\ x.at = "tell" => x.verdict = row[x.file].status
Settled(f) ==
    /\ Unraced(f) => One(f, Changing)
    /\ Orderly(f) => One(f, Changing \cup {"tell"})
    /\ StatusOf(f) \in {"rejected", "deleted"} => Removed(f)
    /\ StatusOf(f) = "available" /\ ~Excused(f, {"raced", "died"}) /\ OnFile(f, {"unlink", "mark"}) = {}
          => object[f] # None
    /\ Plain(f) /\ OnFile(f, {"tell"}) = {} => told[f] = StatusOf(f)
Life ==
    /\ \A c \in Callers : calls[c] # Idle => Steady(calls[c])
    /\ \A f \in Files : Settled(f)

(* One call moves on, or ends, and with it the calls on one file change.   *)
Moves(c, f, x) ==
    /\ calls' = [calls EXCEPT ![c] = x]
    /\ calls[c] = Idle \/ calls[c].file = f
    /\ x = Idle \/ (x \in Call /\ x # Idle /\ x.file = f)

LEMMA OnFileStep ==
    ASSUME Typed, NEW c \in Callers, NEW x, NEW f \in Files, Moves(c, f, x), NEW steps, "idle" \notin steps
    PROVE  /\ \A g \in Files \ {f} : OnFile(g, steps)' = OnFile(g, steps)
           /\ x.at \in steps => OnFile(f, steps)' = OnFile(f, steps) \cup {c}
           /\ x.at \notin steps => OnFile(f, steps)' = OnFile(f, steps) \ {c}
           /\ c \in OnFile(f, steps) <=> calls[c].at \in steps
<1>1. /\ calls'[c] = x /\ \A d \in Callers \ {c} : calls'[d] = calls[d]
      /\ calls[c] = Idle \/ calls[c].file = f
      /\ x = Idle \/ x.file = f
  BY DEF Typed, CallsOK, Moves
<1>2. Idle.at = "idle"
  BY DEF Idle
<1>3. c \in OnFile(f, steps) <=> calls[c].at \in steps
  BY <1>1, <1>2 DEF OnFile
<1>4. ASSUME NEW g \in Files \ {f}
      PROVE  OnFile(g, steps)' = OnFile(g, steps)
  <2>1. ASSUME NEW d \in Callers
        PROVE  calls'[d].at \in steps /\ calls'[d].file = g <=> calls[d].at \in steps /\ calls[d].file = g
    BY <1>1, <1>2, <1>4, <2>1
  <2>2. QED
    BY <2>1 DEF OnFile
<1>5. ASSUME x.at \in steps
      PROVE  OnFile(f, steps)' = OnFile(f, steps) \cup {c}
  <2>1. ASSUME NEW d \in Callers
        PROVE  calls'[d].at \in steps /\ calls'[d].file = f
                  <=> (calls[d].at \in steps /\ calls[d].file = f) \/ d = c
    BY <1>1, <1>2, <1>5, <2>1
  <2>2. QED
    BY <2>1 DEF OnFile
<1>6. ASSUME x.at \notin steps
      PROVE  OnFile(f, steps)' = OnFile(f, steps) \ {c}
  <2>1. ASSUME NEW d \in Callers
        PROVE  calls'[d].at \in steps /\ calls'[d].file = f
                  <=> (calls[d].at \in steps /\ calls[d].file = f) /\ d # c
    BY <1>1, <1>2, <1>6, <2>1
  <2>2. QED
    BY <2>1 DEF OnFile
<1>7. QED
  BY <1>3, <1>4, <1>5, <1>6

(* So whatever a step makes of one file, the others are as they were.      *)
LEMMA LifeKept ==
    ASSUME Typed, Life, NEW c \in Callers, NEW x, NEW f \in Files, Moves(c, f, x),
           \A g \in Files \ {f} : /\ row'[g] = row[g] /\ object'[g] = object[g]
                                  /\ marks'[g] = marks[g] /\ told'[g] = told[g],
           Settled(f)', x = Idle \/ Steady(x)',
           \A d \in Callers \ {c} : \A y \in Call :
               y = calls[d] /\ y # Idle /\ y.file = f => Steady(y)'
    PROVE  Life'
<1>1. ASSUME NEW g \in Files \ {f}
      PROVE  Settled(g)'
  <2>1. ASSUME NEW steps, "idle" \notin steps
        PROVE  OnFile(g, steps)' = OnFile(g, steps)
    BY <2>1, OnFileStep
  <2>2. /\ OnFile(g, Changing)' = OnFile(g, Changing)
        /\ OnFile(g, Changing \cup {"tell"})' = OnFile(g, Changing \cup {"tell"})
        /\ OnFile(g, {"unlink", "mark"})' = OnFile(g, {"unlink", "mark"})
        /\ OnFile(g, {"tell"})' = OnFile(g, {"tell"})
    BY <2>1 DEF Changing
  <2>3. Settled(g) /\ row'[g] = row[g] /\ object'[g] = object[g] /\ marks'[g] = marks[g] /\ told'[g] = told[g]
    BY DEF Life
  <2>4. (Unraced(g)' <=> Unraced(g)) /\ (Orderly(g)' <=> Orderly(g)) /\ (Plain(g)' <=> Plain(g))
    BY <2>3 DEF Unraced, Orderly, Plain, Excused
  <2>5. StatusOf(g)' = StatusOf(g) /\ (Removed(g)' <=> Removed(g))
        /\ (Excused(g, {"raced", "died"})' <=> Excused(g, {"raced", "died"}))
    BY <2>3 DEF StatusOf, Removed, Excused
  <2>6. (One(g, Changing)' <=> One(g, Changing))
        /\ (One(g, Changing \cup {"tell"})' <=> One(g, Changing \cup {"tell"}))
    BY <2>2 DEF One
  <2>7. QED
    BY <2>2, <2>3, <2>4, <2>5, <2>6 DEF Settled
<1>2. ASSUME NEW y \in Call, Steady(y), y.file # f
      PROVE  Steady(y)'
  <2>1. y.file \in Files \ {f}
    BY <1>2 DEF Call
  <2>2. row'[y.file] = row[y.file] /\ object'[y.file] = object[y.file] /\ marks'[y.file] = marks[y.file]
    BY <2>1
  <2>3. QED
    BY <1>2, <2>2 DEF Steady, Unraced, Plain, Removed, Excused
<1>3. ASSUME NEW d \in Callers, calls'[d] # Idle
      PROVE  Steady(calls[d])'
  <2>1. CASE d = c
    <3>1. calls'[d] = x
      BY <2>1 DEF Typed, CallsOK, Moves
    <3>2. QED
      BY <1>3, <3>1 DEF Steady, Unraced, Plain, Removed, Excused
  <2>2. CASE d # c
    <3>1. calls'[d] = calls[d] /\ calls[d] \in Call /\ Steady(calls[d])
      BY <1>3, <2>2 DEF Typed, CallsOK, Life, Moves
    <3>2. PICK y \in Call : y = calls[d]
      BY <3>1
    <3>3. Steady(y)'
      BY <1>2, <1>3, <2>2, <3>1, <3>2
    <3>4. QED
      BY <3>1, <3>2, <3>3 DEF Steady, Unraced, Plain, Removed, Excused
  <2>3. QED
    BY <2>1, <2>2
<1>4. QED
  BY <1>1, <1>3 DEF Life

(* A step that leaves row, bytes and audit log alone.  A call that begins  *)
(* to change the file marks it if others do, and one that leaves half-way  *)
(* has died.                                                               *)
LEMMA LifeQuiet ==
    ASSUME Typed, Life, NEW c \in Callers, NEW x, NEW f \in Files, Moves(c, f, x),
           UNCHANGED <<row, object, told>>, marks[f] \subseteq marks'[f],
           \A g \in Files \ {f} : marks'[g] = marks[g],
           x.at # "tell", x = Idle \/ Steady(x)',
           \/ x.at \notin Changing \/ calls[c].at \in Changing
           \/ Overlaps(c, f) \subseteq marks'[f],
           \/ calls[c].at \notin {"unlink", "mark", "tell"}
           \/ calls[c].at = "unlink" /\ x.at = "mark"
           \/ "died" \in marks'[f]
    PROVE  Life'
<1>1. Settled(f)
  BY DEF Life
<1>2. /\ Unraced(f)' => Unraced(f)
      /\ Orderly(f)' => Orderly(f) /\ Unraced(f)'
      /\ Plain(f)' => Plain(f) /\ "died" \notin marks'[f]
      /\ ~Excused(f, {"raced", "died"})' => ~Excused(f, {"raced", "died"}) /\ "died" \notin marks'[f]
      /\ Removed(f) => Removed(f)'
  BY DEF Unraced, Orderly, Plain, Removed, Excused
<1>3. ASSUME Unraced(f)'
      PROVE  One(f, Changing)'
  <2>1. "idle" \notin Changing
    BY DEF Changing
  <2>2. CASE x.at \notin Changing
    <3>1. OnFile(f, Changing)' = OnFile(f, Changing) \ {c}
      BY <2>1, <2>2, OnFileStep
    <3>2. QED
      BY <1>1, <1>2, <1>3, <3>1 DEF Settled, One
  <2>3. CASE x.at \in Changing
    <3>1. OnFile(f, Changing)' = OnFile(f, Changing) \cup {c}
      BY <2>1, <2>3, OnFileStep
    <3>2. c \in OnFile(f, Changing) <=> calls[c].at \in Changing
      BY <2>1, OnFileStep
    <3>3. CASE calls[c].at \in Changing
      BY <1>1, <1>2, <1>3, <3>1, <3>2, <3>3 DEF Settled, One
    <3>4. CASE Overlaps(c, f) \subseteq marks'[f]
      <4>1. OnFile(f, Changing) \ {c} = {}
        BY <1>3, <3>4 DEF Overlaps, Unraced, Excused
      <4>2. QED
        BY <3>1, <4>1 DEF One
    <3>5. QED
      BY <2>3, <3>3, <3>4
  <2>4. QED
    BY <2>2, <2>3
<1>4. ASSUME Orderly(f)'
      PROVE  One(f, Changing \cup {"tell"})'
  <2>1. "idle" \notin Changing \cup {"tell"} /\ "idle" \notin Changing /\ "idle" \notin {"tell"}
    BY DEF Changing
  <2>2. CASE x.at \notin Changing
    <3>1. x.at \notin Changing \cup {"tell"}
      BY <2>2
    <3>2. OnFile(f, Changing \cup {"tell"})' = OnFile(f, Changing \cup {"tell"}) \ {c}
      BY <2>1, <3>1, OnFileStep
    <3>3. QED
      BY <1>1, <1>2, <1>4, <3>2 DEF Settled, One
  <2>3. CASE x.at \in Changing
    <3>1. OnFile(f, Changing \cup {"tell"})' = OnFile(f, Changing \cup {"tell"}) \cup {c}
      <4>1. x.at \in Changing \cup {"tell"}
        BY <2>3
      <4>2. QED
        BY <2>1, <4>1, OnFileStep
    <3>2. c \in OnFile(f, Changing \cup {"tell"}) <=> calls[c].at \in Changing \cup {"tell"}
      BY <2>1, OnFileStep
    <3>3. CASE calls[c].at \in Changing
      BY <1>1, <1>2, <1>4, <3>1, <3>2, <3>3 DEF Settled, One
    <3>4. CASE Overlaps(c, f) \subseteq marks'[f]
      <4>1. OnFile(f, Changing) \ {c} = {} /\ OnFile(f, {"tell"}) = {}
        BY <1>4, <3>4 DEF Overlaps, Orderly, Excused
      <4>2. OnFile(f, Changing \cup {"tell"}) \subseteq {c}
        BY <4>1 DEF OnFile
      <4>3. QED
        BY <3>1, <4>2 DEF One
    <3>5. QED
      BY <2>3, <3>3, <3>4
  <2>4. QED
    BY <2>2, <2>3
<1>5. ASSUME StatusOf(f)' \in {"rejected", "deleted"}
      PROVE  Removed(f)'
  BY <1>1, <1>2, <1>5 DEF Settled, StatusOf
<1>6. ASSUME StatusOf(f)' = "available", ~Excused(f, {"raced", "died"})',
             OnFile(f, {"unlink", "mark"})' = {}
      PROVE  object'[f] # None
  <2>1. calls[c].at \notin {"unlink", "mark"}
    <3>1. x.at \notin {"unlink", "mark"}
      BY <1>6, OnFileStep
    <3>2. QED
      BY <1>2, <1>6, <3>1
  <2>2. OnFile(f, {"unlink", "mark"}) = {}
    <3>1. /\ x.at \in {"unlink", "mark"} =>
                OnFile(f, {"unlink", "mark"})' = OnFile(f, {"unlink", "mark"}) \cup {c}
          /\ x.at \notin {"unlink", "mark"} =>
                OnFile(f, {"unlink", "mark"})' = OnFile(f, {"unlink", "mark"}) \ {c}
          /\ c \in OnFile(f, {"unlink", "mark"}) <=> calls[c].at \in {"unlink", "mark"}
      BY OnFileStep
    <3>2. QED
      BY <1>6, <2>1, <3>1
  <2>3. QED
    BY <1>1, <1>2, <1>6, <2>2 DEF Settled, StatusOf
<1>7. ASSUME Plain(f)', OnFile(f, {"tell"})' = {}
      PROVE  told'[f] = StatusOf(f)'
  <2>1. calls[c].at # "tell"
    BY <1>2, <1>7
  <2>2. OnFile(f, {"tell"}) = {}
    <3>1. /\ OnFile(f, {"tell"})' = OnFile(f, {"tell"}) \ {c}
          /\ c \in OnFile(f, {"tell"}) <=> calls[c].at \in {"tell"}
      BY OnFileStep
    <3>2. QED
      BY <1>7, <2>1, <3>1
  <2>3. QED
    BY <1>1, <1>2, <1>7, <2>2 DEF Settled, StatusOf
<1>8. Settled(f)'
  BY <1>3, <1>4, <1>5, <1>6, <1>7 DEF Settled
<1>9. ASSUME NEW d \in Callers \ {c}, NEW y \in Call, y = calls[d], y # Idle, y.file = f
      PROVE  Steady(y)'
  <2>1. Steady(y)
    BY <1>9 DEF Life
  <2>2. QED
    BY <1>2, <1>9, <2>1 DEF Steady
<1>10. \A g \in Files \ {f} : /\ row'[g] = row[g] /\ object'[g] = object[g]
                              /\ marks'[g] = marks[g] /\ told'[g] = told[g]
  OBVIOUS
<1>11. QED
  BY <1>8, <1>9, <1>10, LifeKept

(* Where a call comes from, and where it goes.                             *)
LEMMA FromStep ==
    ASSUME Typed, Life, NEW c \in Callers, NEW step \in Steps, NEW call \in CallsAt(c, step)
    PROVE  /\ call \in Call /\ call.at = step /\ call.file \in Files
           /\ calls[c].at = step \/ calls[c].at = "idle"
           /\ step \notin {"init", "put", "complete", "delete", "download"} =>
                 calls[c] = call /\ calls[c] # Idle /\ Proper(call) /\ Steady(call)
           /\ Return(c) => Moves(c, call.file, Idle)
<1>1. /\ call \in Call /\ call.at = step /\ call.file \in Files
      /\ call = calls[c] => Proper(call)
      /\ step \notin {"init", "put", "complete", "delete", "download"} => call = calls[c] /\ calls[c] # Idle
      /\ calls[c] # Idle => call = calls[c]
  BY AtStep
<1>2. Idle.at = "idle"
  BY DEF Idle
<1>3. Return(c) => Moves(c, call.file, Idle)
  BY <1>1 DEF Return, Moves
<1>4. call = calls[c] /\ calls[c] # Idle => Steady(calls[c])
  BY DEF Life
<1>5. step \notin {"init", "put", "complete", "delete", "download"} => Steady(call)
  BY <1>1, <1>4
<1>6. QED
  BY <1>1, <1>2, <1>3, <1>5

LEMMA Going ==
    ASSUME Typed, NEW c \in Callers, NEW step \in Steps, NEW call \in CallsAt(c, step),
           NEW next \in Steps, Go(c, call, next)
    PROVE  \E x \in Call : /\ Moves(c, call.file, x) /\ x # Idle /\ x.at = next /\ x.file = call.file
                           /\ x.req = call.req /\ x.verdict = call.verdict
<1>1. call \in Call /\ (calls[c] # Idle => call = calls[c])
  BY AtStep
<1>2. PICK x \in Call :
         /\ calls' = [calls EXCEPT ![c] = x] /\ x # Idle
         /\ x.at = next /\ x.file = call.file /\ x.req = call.req /\ x.verdict = call.verdict
  BY <1>1, Moved
<1>3. Moves(c, call.file, x)
  BY <1>1, <1>2 DEF Moves
<1>4. QED
  BY <1>2, <1>3

LEMMA Deciding ==
    ASSUME Typed, NEW c \in Callers, NEW step \in Steps, NEW call \in CallsAt(c, step),
           NEW next \in Steps, NEW what \in Status \cup {None}, Decide(c, call, next, what)
    PROVE  \E x \in Call : /\ Moves(c, call.file, x) /\ x # Idle /\ x.at = next /\ x.file = call.file
                           /\ x.req = call.req /\ x.verdict = what
<1>1. call \in Call /\ (calls[c] # Idle => call = calls[c])
  BY AtStep
<1> DEFINE x == [call EXCEPT !.at = next, !.verdict = what]
<1>2. x \in Call /\ x.at = next /\ x.file = call.file /\ x.req = call.req /\ x.verdict = what
  BY <1>1 DEF Call
<1>3. x # Idle
  BY <1>2 DEF Idle, Steps
<1>4. calls' = [calls EXCEPT ![c] = x]
  BY DEF Decide
<1> HIDE DEF x
<1>5. Moves(c, call.file, x)
  BY <1>1, <1>2, <1>3, <1>4 DEF Moves
<1>6. QED
  BY <1>2, <1>3, <1>5

LEMMA IdleIsNowhere == Idle.at = "idle" /\ "idle" \notin Changing \cup {"tell"}
BY DEF Idle, Changing

LEMMA MarkOne ==
    ASSUME marks \in [Files -> SUBSET Marks], NEW f \in Files, NEW what, Mark(f, what)
    PROVE  /\ marks'[f] = marks[f] \cup what
           /\ \A g \in Files \ {f} : marks'[g] = marks[g]
BY DEF Mark

(* A call that ends without having changed anything.                       *)
LEMMA LifeReturn ==
    ASSUME Typed, Life, NEW c \in Callers, NEW step \in Steps, NEW call \in CallsAt(c, step), Return(c),
           step \notin {"unlink", "mark", "tell"},
           UNCHANGED <<row, object, told, marks>>
    PROVE  Life'
<1>1. /\ call.file \in Files /\ (calls[c].at = step \/ calls[c].at = "idle")
      /\ Moves(c, call.file, Idle)
  BY FromStep
<1>2. calls[c].at \notin {"unlink", "mark", "tell"}
  BY <1>1
<1>3. /\ marks[call.file] \subseteq marks'[call.file]
      /\ \A g \in Files \ {call.file} : marks'[g] = marks[g]
  OBVIOUS
<1>4. Idle.at # "tell" /\ Idle.at \notin Changing
  BY IdleIsNowhere
<1>5. QED
  BY <1>1, <1>2, <1>3, <1>4, LifeQuiet

(* A call that goes from one of its steps to the next without having       *)
(* changed anything.                                                       *)
LEMMA LifeMoves ==
    ASSUME Typed, Life, NEW c \in Callers, NEW f \in Files, NEW x \in Call, Moves(c, f, x),
           x.at # "tell", x.at \notin Changing \/ calls[c].at \in Changing,
           calls[c].at \notin {"unlink", "mark", "tell"}, Steady(x),
           UNCHANGED <<row, object, told, marks>>
    PROVE  Life'
<1>1. Steady(x)'
  BY DEF Steady, Unraced, Plain, Removed, Excused
<1>2. /\ marks[f] \subseteq marks'[f]
      /\ \A g \in Files \ {f} : marks'[g] = marks[g]
  OBVIOUS
<1>3. QED
  BY <1>1, <1>2, LifeQuiet

-----------------------------------------------------------------------------
(* The steps that leave them alone.                                       *)
LEMMA RequirePendingLives ==
    ASSUME Inv, Life, NEW c \in Callers, RequirePending(c)
    PROVE  Life'
<1>1. PICK call \in CallsAt(c, "complete") :
         /\ IF IsPending(call.file)
            THEN Go(c, call, "stat") /\ Mark(call.file, Overlaps(c, call.file))
            ELSE Return(c) /\ UNCHANGED marks
         /\ UNCHANGED <<setting, row, object, uploadUrls, told, faults>>
  BY DEF RequirePending
<1>2. /\ Typed /\ "complete" \in Steps /\ "stat" \in Steps /\ marks \in [Files -> SUBSET Marks]
  BY DEF Inv, Typed, RestOK, Steps
<1>3. call.file \in Files /\ (calls[c].at = "complete" \/ calls[c].at = "idle")
  BY <1>2, FromStep
<1>4. CASE IsPending(call.file)
  <2>1. PICK x \in Call : Moves(c, call.file, x) /\ x # Idle /\ x.at = "stat" /\ x.file = call.file
    BY <1>1, <1>2, <1>4, Going
  <2>2. /\ marks'[call.file] = marks[call.file] \cup Overlaps(c, call.file)
        /\ \A g \in Files \ {call.file} : marks'[g] = marks[g]
    BY <1>1, <1>2, <1>3, <1>4, MarkOne
  <2>3. Steady(x)'
    BY <1>1, <1>4, <2>1 DEF Steady, Judges, Passed, IsPending
  <2>4. calls[c].at \notin {"unlink", "mark", "tell"} /\ x.at # "tell"
    BY <1>3, <2>1
  <2>5. UNCHANGED <<row, object, told>>
    BY <1>1
  <2>6. QED
    BY <1>2, <1>3, <2>1, <2>2, <2>3, <2>4, <2>5, LifeQuiet
<1>5. CASE ~IsPending(call.file)
  BY <1>1, <1>2, <1>5, LifeReturn
<1>6. QED
  BY <1>4, <1>5

LEMMA RejectLives ==
    ASSUME Inv, Life, NEW c \in Callers, NEW step \in {"stat", "hash"}, NEW call \in CallsAt(c, step),
           Reject(c, call), UNCHANGED <<row, object, told, marks>>
    PROVE  Life'
<1>1. /\ Typed /\ step \in Steps /\ "unlink" \in Steps /\ "rejected" \in Status \cup {None}
  BY DEF Inv, Steps, Status
<1>2. call.file \in Files /\ call.at = step /\ calls[c] = call /\ Steady(call)
  BY <1>1, FromStep
<1>3. PICK x \in Call : /\ Moves(c, call.file, x) /\ x # Idle /\ x.at = "unlink" /\ x.file = call.file
                        /\ x.verdict = "rejected"
  BY <1>1, Deciding DEF Reject
<1>4. Steady(x)
  BY <1>2, <1>3 DEF Steady, Judges, Passed
<1>5. calls[c].at \in Changing /\ calls[c].at \notin {"unlink", "mark", "tell"}
  BY <1>2 DEF Changing
<1>6. QED
  BY <1>1, <1>2, <1>3, <1>4, <1>5, LifeMoves

LEMMA StatLives ==
    ASSUME Inv, Life, NEW c \in Callers, Stat(c)
    PROVE  Life'
<1>1. PICK call \in CallsAt(c, "stat") :
         /\ CASE object[call.file] = None -> Return(c)
              [] object[call.file] # None /\ object[call.file].size # row[call.file].sizeBytes -> Reject(c, call)
              [] object[call.file] # None /\ object[call.file].size = row[call.file].sizeBytes ->
                     Go(c, call, IF IsHashed(object[call.file]) THEN "hash" ELSE "scan")
         /\ UNCHANGED <<setting, row, object, uploadUrls, told, faults, marks>>
  BY DEF Stat
<1>2. /\ Typed /\ "stat" \in Steps
  BY DEF Inv, Steps
<1>3. call.file \in Files /\ call.at = "stat" /\ calls[c] = call /\ Steady(call)
  BY <1>2, FromStep
<1>4. CASE object[call.file] = None
  BY <1>1, <1>2, <1>4, LifeReturn
<1>5. CASE object[call.file] # None /\ object[call.file].size # row[call.file].sizeBytes
  BY <1>1, <1>5, RejectLives
<1>6. CASE object[call.file] # None /\ object[call.file].size = row[call.file].sizeBytes
  <2>1. PICK next \in {"hash", "scan"} : Go(c, call, next)
    BY <1>1, <1>6
  <2>2. next \in Steps
    BY DEF Steps
  <2>3. PICK x \in Call : Moves(c, call.file, x) /\ x # Idle /\ x.at = next /\ x.file = call.file
    BY <1>2, <2>1, <2>2, Going
  <2>4. Steady(x)
    BY <1>3, <1>6, <2>3 DEF Steady, Judges, Passed
  <2>5. calls[c].at \in Changing /\ calls[c].at \notin {"unlink", "mark", "tell"} /\ x.at # "tell"
    BY <1>3, <2>3 DEF Changing
  <2>6. QED
    BY <1>1, <1>2, <1>3, <2>3, <2>4, <2>5, LifeMoves
<1>7. QED
  BY <1>4, <1>5, <1>6

LEMMA HashLives ==
    ASSUME Inv, Life, NEW c \in Callers, Hash(c)
    PROVE  Life'
<1>1. PICK call \in CallsAt(c, "hash") :
         /\ IF object[call.file] = None THEN Return(c)
            ELSE IF HashMatches(object[call.file], call.req.sha256) THEN Go(c, call, "scan")
            ELSE Reject(c, call)
         /\ UNCHANGED <<setting, row, object, uploadUrls, told, faults, marks>>
  BY DEF Hash
<1>2. /\ Typed /\ "hash" \in Steps /\ "scan" \in Steps
  BY DEF Inv, Steps
<1>3. call.file \in Files /\ call.at = "hash" /\ calls[c] = call /\ Steady(call)
  BY <1>2, FromStep
<1>4. CASE object[call.file] = None
  BY <1>1, <1>2, <1>4, LifeReturn
<1>5. CASE object[call.file] # None /\ ~HashMatches(object[call.file], call.req.sha256)
  BY <1>1, <1>5, RejectLives
<1>6. CASE object[call.file] # None /\ HashMatches(object[call.file], call.req.sha256)
  <2>1. PICK x \in Call : Moves(c, call.file, x) /\ x # Idle /\ x.at = "scan" /\ x.file = call.file
    BY <1>1, <1>2, <1>6, Going
  <2>2. Steady(x)
    BY <1>3, <1>6, <2>1 DEF Steady, Judges, Passed
  <2>3. calls[c].at \in Changing /\ calls[c].at \notin {"unlink", "mark", "tell"} /\ x.at # "tell"
    BY <1>3, <2>1 DEF Changing
  <2>4. QED
    BY <1>1, <1>2, <1>3, <2>1, <2>2, <2>3, LifeMoves
<1>7. QED
  BY <1>4, <1>5, <1>6

LEMMA ScanLives ==
    ASSUME Inv, Life, NEW c \in Callers, Scan(c)
    PROVE  Life'
<1>1. PICK call \in CallsAt(c, "scan"), verdict \in {"available", "quarantined"} :
         /\ Decide(c, call, "mark", verdict)
         /\ UNCHANGED <<setting, row, object, uploadUrls, told, faults, marks>>
  BY DEF Scan
<1>2. /\ Typed /\ "scan" \in Steps /\ "mark" \in Steps /\ verdict \in Status \cup {None}
  BY DEF Inv, Steps, Status
<1>3. call.file \in Files /\ call.at = "scan" /\ calls[c] = call /\ Steady(call)
  BY <1>2, FromStep
<1>4. PICK x \in Call : /\ Moves(c, call.file, x) /\ x # Idle /\ x.at = "mark" /\ x.file = call.file
                        /\ x.verdict = verdict
  BY <1>1, <1>2, Deciding
<1>5. Steady(x)
  BY <1>3, <1>4 DEF Steady, Judges, Passed
<1>6. calls[c].at \in Changing /\ calls[c].at \notin {"unlink", "mark", "tell"} /\ x.at # "tell"
  BY <1>3, <1>4 DEF Changing
<1>7. QED
  BY <1>1, <1>2, <1>3, <1>4, <1>5, <1>6, LifeMoves

LEMMA DeleteLives ==
    ASSUME Inv, Life, NEW c \in Callers, Delete(c)
    PROVE  Life'
<1>1. PICK call \in CallsAt(c, "delete") :
         /\ IF row[call.file] # None /\ row[call.file].status # "deleted"
            THEN Decide(c, call, "unlink", "deleted") /\ Mark(call.file, Overlaps(c, call.file))
            ELSE Return(c) /\ UNCHANGED marks
         /\ UNCHANGED <<setting, row, object, uploadUrls, told, faults>>
  BY DEF Delete
<1>2. /\ Typed /\ "delete" \in Steps /\ "unlink" \in Steps /\ "deleted" \in Status \cup {None}
      /\ marks \in [Files -> SUBSET Marks]
  BY DEF Inv, Typed, RestOK, Steps, Status
<1>3. call.file \in Files /\ (calls[c].at = "delete" \/ calls[c].at = "idle")
  BY <1>2, FromStep
<1>4. CASE row[call.file] # None /\ row[call.file].status # "deleted"
  <2>1. PICK x \in Call : /\ Moves(c, call.file, x) /\ x # Idle /\ x.at = "unlink" /\ x.file = call.file
                          /\ x.verdict = "deleted"
    BY <1>1, <1>2, <1>4, Deciding
  <2>2. /\ marks'[call.file] = marks[call.file] \cup Overlaps(c, call.file)
        /\ \A g \in Files \ {call.file} : marks'[g] = marks[g]
    BY <1>1, <1>2, <1>3, <1>4, MarkOne
  <2>3. Steady(x)'
    BY <2>1 DEF Steady, Judges, Passed
  <2>4. calls[c].at \notin {"unlink", "mark", "tell"} /\ x.at # "tell"
    BY <1>3, <2>1
  <2>5. UNCHANGED <<row, object, told>>
    BY <1>1
  <2>6. QED
    BY <1>2, <1>3, <2>1, <2>2, <2>3, <2>4, <2>5, LifeQuiet
<1>5. CASE ~(row[call.file] # None /\ row[call.file].status # "deleted")
  BY <1>1, <1>2, <1>5, LifeReturn
<1>6. QED
  BY <1>4, <1>5

LEMMA FailToDeleteLives ==
    ASSUME Inv, Life, NEW c \in Callers, FailToDeleteBytes(c)
    PROVE  Life'
<1>1. PICK call \in CallsAt(c, "unlink") :
         /\ Mark(call.file, {"undeleted"}) /\ Go(c, call, "mark")
         /\ UNCHANGED <<setting, row, object, uploadUrls, told>>
  BY DEF FailToDeleteBytes
<1>2. /\ Typed /\ "unlink" \in Steps /\ "mark" \in Steps /\ marks \in [Files -> SUBSET Marks]
  BY DEF Inv, Typed, RestOK, Steps
<1>3. call.file \in Files /\ call.at = "unlink" /\ calls[c] = call /\ Steady(call) /\ Proper(call)
  BY <1>2, FromStep
<1>4. PICK x \in Call : /\ Moves(c, call.file, x) /\ x # Idle /\ x.at = "mark" /\ x.file = call.file
                        /\ x.verdict = call.verdict
  BY <1>1, <1>2, Going
<1>5. /\ marks'[call.file] = marks[call.file] \cup {"undeleted"}
      /\ \A g \in Files \ {call.file} : marks'[g] = marks[g]
  BY <1>1, <1>2, <1>3, MarkOne
<1>6. Steady(x)'
  <2>1. Removed(x.file)'
    BY <1>4, <1>5 DEF Removed, Excused
  <2>2. Unraced(x.file)' => Unraced(x.file)
    BY <1>4, <1>5 DEF Unraced, Excused
  <2>3. Unraced(x.file) /\ Judges(x) => row[x.file].status = "pending"
    BY <1>3, <1>4 DEF Steady, Judges
  <2>4. ~Passed(x)
    BY <1>3, <1>4 DEF Passed, Proper
  <2>5. Unraced(x.file)' /\ Judges(x) => row'[x.file].status = "pending"
    BY <1>1, <2>2, <2>3
  <2>6. QED
    BY <1>4, <2>1, <2>4, <2>5 DEF Steady
<1>7. calls[c].at = "unlink" /\ calls[c].at \in Changing /\ x.at # "tell" /\ UNCHANGED <<row, object, told>>
      /\ marks[call.file] \subseteq marks'[call.file]
  BY <1>1, <1>3, <1>4, <1>5 DEF Changing
<1>8. QED
  BY <1>2, <1>3, <1>4, <1>5, <1>6, <1>7, LifeQuiet

LEMMA DownloadUrlLives ==
    ASSUME Inv, Life, NEW c \in Callers, DownloadUrl(c)
    PROVE  Life'
<1>1. PICK call \in CallsAt(c, "download") :
         /\ Go(c, call, "get")
         /\ UNCHANGED <<setting, row, object, uploadUrls, told, faults, marks>>
  BY DEF DownloadUrl
<1>2. /\ Typed /\ "download" \in Steps /\ "get" \in Steps
  BY DEF Inv, Steps
<1>3. call.file \in Files /\ (calls[c].at = "download" \/ calls[c].at = "idle")
  BY <1>2, FromStep
<1>4. PICK x \in Call : Moves(c, call.file, x) /\ x # Idle /\ x.at = "get" /\ x.file = call.file
  BY <1>1, <1>2, Going
<1>5. Steady(x) /\ x.at # "tell" /\ x.at \notin Changing
  BY <1>4 DEF Steady, Judges, Passed, Changing
<1>6. calls[c].at \notin {"unlink", "mark", "tell"}
  BY <1>3
<1>7. QED
  BY <1>1, <1>2, <1>3, <1>4, <1>5, <1>6, LifeMoves

LEMMA GetLives ==
    ASSUME Inv, Life, NEW c \in Callers, Get(c)
    PROVE  Life'
<1>1. /\ Typed /\ "get" \in Steps /\ Return(c) /\ UNCHANGED <<row, object, told, marks>>
  BY DEF Inv, Steps, Get
<1>2. calls[c] # Idle
  BY DEF Get, Idle
<1>3. calls[c] \in CallsAt(c, "get")
  BY <1>2 DEF CallsAt, Get
<1>4. QED
  BY <1>1, <1>3, LifeReturn

LEMMA FailLives ==
    ASSUME Inv, Life, NEW c \in Callers, Fail(c)
    PROVE  Life'
<1>1. /\ Typed /\ calls[c] # Idle /\ calls[c] \in Call /\ calls[c].file \in Files
      /\ marks \in [Files -> SUBSET Marks] /\ "complete" \in Steps /\ None \in Status \cup {None}
      /\ calls[c].at \in Steps
  BY DEF Fail, Inv, Typed, CallsOK, RestOK, Call, Steps
<1>2. PICK f \in Files : f = calls[c].file
  BY <1>1
<1>3. Mark(f, {"died"}) /\ UNCHANGED <<row, object, told>>
  BY <1>2 DEF Fail
<1>4. /\ marks'[f] = marks[f] \cup {"died"}
      /\ \A g \in Files \ {f} : marks'[g] = marks[g]
  BY <1>1, <1>3, MarkOne
<1>5. calls[c] \in CallsAt(c, calls[c].at)
  BY <1>1 DEF CallsAt
<1>6. CASE Return(c)
  <2>1. Moves(c, f, Idle) /\ Idle.at # "tell" /\ Idle.at \notin Changing
    BY <1>2, <1>6, IdleIsNowhere DEF Return, Moves
  <2>2. QED
    BY <1>1, <1>3, <1>4, <2>1, LifeQuiet
<1>7. CASE Decide(c, calls[c], "complete", None)
  <2>1. PICK x \in Call : Moves(c, calls[c].file, x) /\ x # Idle /\ x.at = "complete"
    BY <1>1, <1>5, <1>7, Deciding
  <2>2. Steady(x)' /\ x.at # "tell" /\ x.at \notin Changing
    BY <2>1 DEF Steady, Judges, Passed, Changing
  <2>3. Moves(c, f, x)
    BY <1>2, <2>1
  <2>4. QED
    BY <1>1, <1>3, <1>4, <2>2, <2>3, LifeQuiet
<1>8. QED
  BY <1>6, <1>7 DEF Fail

-----------------------------------------------------------------------------
(* The steps that change bytes, row or audit log.                          *)
LEMMA PutLives ==
    ASSUME Inv, Life, NEW c \in Callers, Put(c)
    PROVE  Life'
<1>1. PICK call \in CallsAt(c, "put") :
         /\ IF call.file \in uploadUrls
            THEN /\ object' = [object EXCEPT ![call.file] = call.req.bytes]
                 /\ Mark(call.file, Rewrites(call) \cup IsLate(call.file))
                 /\ IF call.req.op = "init" THEN Go(c, call, "complete") ELSE Return(c)
            ELSE Return(c) /\ UNCHANGED <<object, marks>>
         /\ UNCHANGED <<setting, row, uploadUrls, told, faults>>
  BY DEF Put
<1>2. /\ Typed /\ "put" \in Steps /\ "complete" \in Steps /\ marks \in [Files -> SUBSET Marks]
      /\ object \in [Files -> Contents \cup {None}]
  BY DEF Inv, Typed, RestOK, RowsOK, Steps
<1>3. call.file \in Files /\ call \in Call /\ (calls[c].at = "put" \/ calls[c].at = "idle")
  BY <1>2, FromStep
<1>4. CASE call.file \notin uploadUrls
  BY <1>1, <1>2, <1>4, LifeReturn
<1>5. CASE call.file \in uploadUrls
  <2> DEFINE f == call.file
  <2>1. \E x : /\ Moves(c, f, x) /\ x.at \in {"idle", "complete"}
    <3>1. CASE Return(c)
      BY <1>2, <3>1, FromStep, IdleIsNowhere
    <3>2. CASE Go(c, call, "complete")
      BY <1>2, <3>2, Going
    <3>3. QED
      BY <1>1, <1>5, <3>1, <3>2
  <2>2. PICK x : Moves(c, f, x) /\ x.at \in {"idle", "complete"}
    BY <2>1
  <2>3. /\ object'[f] = call.req.bytes /\ call.req.bytes \in Contents
        /\ \A g \in Files \ {f} : object'[g] = object[g]
    BY <1>1, <1>2, <1>3, <1>5 DEF Call, Request
  <2>4. object'[f] # None
    BY <2>3, ArtifactConstants
  <2>5. /\ marks'[f] = marks[f] \cup Rewrites(call) \cup IsLate(f)
        /\ \A g \in Files \ {f} : marks'[g] = marks[g]
    BY <1>1, <1>2, <1>3, <1>5, MarkOne
  <2>6. row' = row /\ told' = told
    BY <1>1
  <2>7. Removed(f) => Removed(f)'
    BY <2>5 DEF Removed, Excused, IsLate
  <2>8. Settled(f) /\ f \in Files
    BY <1>3 DEF Life
  <2> HIDE DEF f
  <2>9. /\ Unraced(f)' => Unraced(f)
        /\ Orderly(f)' => Orderly(f)
        /\ Plain(f)' => Plain(f)
        /\ Excused(f, {"raced", "died"}) => Excused(f, {"raced", "died"})'
    BY <2>5 DEF Unraced, Orderly, Plain, Excused
  <2>10. /\ OnFile(f, Changing)' = OnFile(f, Changing)
         /\ OnFile(f, Changing \cup {"tell"})' = OnFile(f, Changing \cup {"tell"})
         /\ OnFile(f, {"tell"})' = OnFile(f, {"tell"})
    <3>1. ASSUME NEW steps, "idle" \notin steps, "put" \notin steps, "complete" \notin steps
          PROVE  OnFile(f, steps)' = OnFile(f, steps)
      <4>1. x.at \notin steps /\ calls[c].at \notin steps
        BY <1>3, <2>2, <3>1
      <4>2. /\ OnFile(f, steps)' = OnFile(f, steps) \ {c}
            /\ c \in OnFile(f, steps) <=> calls[c].at \in steps
        BY <1>2, <2>2, <2>8, <3>1, <4>1, OnFileStep
      <4>3. QED
        BY <4>1, <4>2
    <3>2. QED
      BY <3>1 DEF Changing
  <2>11. Settled(f)'
    BY <2>4, <2>6, <2>7, <2>8, <2>9, <2>10 DEF Settled, StatusOf, One
  <2>12. x = Idle \/ Steady(x)'
    BY <2>2 DEF Steady, Judges, Passed
  <2>13. ASSUME NEW d \in Callers \ {c}, NEW y \in Call, y = calls[d], y # Idle, y.file = f
         PROVE  Steady(y)'
    <3>1. Steady(y)
      BY <2>13 DEF Life
    <3>2. QED
      BY <2>4, <2>6, <2>7, <2>9, <2>13, <3>1 DEF Steady
  <2>14. \A g \in Files \ {f} : /\ row'[g] = row[g] /\ object'[g] = object[g]
                                /\ marks'[g] = marks[g] /\ told'[g] = told[g]
    BY <2>3, <2>5, <2>6 DEF f
  <2>15. QED
    BY <1>2, <2>2, <2>8, <2>11, <2>12, <2>13, <2>14, LifeKept
<1>6. QED
  BY <1>4, <1>5

(* A call that is the only one to change its file is alone there.          *)
LEMMA Alone ==
    ASSUME Typed, Life, NEW c \in Callers, calls[c].at \in Changing, NEW d \in Callers \ {c},
           calls[c].file \in Files, calls[d].file = calls[c].file
    PROVE  /\ Unraced(calls[c].file) => calls[d].at \notin Changing
           /\ Orderly(calls[c].file) => calls[d].at \notin Changing \cup {"tell"}
<1>1. Settled(calls[c].file)
  BY DEF Life
<1>2. QED
  BY <1>1 DEF Settled, One, OnFile

LEMMA DeleteBytesLives ==
    ASSUME Inv, Life, NEW c \in Callers, DeleteBytes(c)
    PROVE  Life'
<1>1. PICK call \in CallsAt(c, "unlink") :
         /\ Unlink(call.file) /\ Go(c, call, "mark")
         /\ UNCHANGED <<setting, row, uploadUrls, told, faults>>
  BY DEF DeleteBytes
<1>2. /\ Typed /\ "unlink" \in Steps /\ "mark" \in Steps /\ marks \in [Files -> SUBSET Marks]
      /\ object \in [Files -> Contents \cup {None}]
  BY DEF Inv, Typed, RestOK, RowsOK, Steps
<1>3. call.file \in Files /\ call.at = "unlink" /\ calls[c] = call /\ Steady(call) /\ Proper(call)
  BY <1>2, FromStep
<1>4. PICK f \in Files : f = call.file
  BY <1>3
<1>5. PICK x \in Call : /\ Moves(c, f, x) /\ x # Idle /\ x.at = "mark" /\ x.file = f
                        /\ x.verdict = call.verdict
  BY <1>1, <1>2, <1>4, Going
<1>6. /\ object'[f] = None /\ row' = row /\ told' = told
      /\ \A g \in Files \ {f} : object'[g] = object[g]
  BY <1>1, <1>2, <1>4 DEF Unlink
<1>7. /\ marks'[f] = marks[f] \cup {"unlinked"}
      /\ \A g \in Files \ {f} : marks'[g] = marks[g]
  BY <1>1, <1>2, <1>4, MarkOne DEF Unlink
<1>8. Removed(f)'
  BY <1>6, <1>7 DEF Removed
<1>9. /\ Unraced(f)' <=> Unraced(f)
      /\ Orderly(f)' <=> Orderly(f)
      /\ Plain(f)' <=> Plain(f)
  BY <1>7 DEF Unraced, Orderly, Plain, Excused
<1>10. Settled(f)
  BY DEF Life
<1>11. /\ OnFile(f, Changing)' = OnFile(f, Changing)
       /\ OnFile(f, Changing \cup {"tell"})' = OnFile(f, Changing \cup {"tell"})
       /\ OnFile(f, {"tell"})' = OnFile(f, {"tell"})
       /\ c \in OnFile(f, {"unlink", "mark"})'
  <2>1. ASSUME NEW steps, "idle" \notin steps, {"unlink", "mark"} \subseteq steps
        PROVE  OnFile(f, steps)' = OnFile(f, steps) /\ c \in OnFile(f, steps)'
    <3>1. x.at \in steps /\ calls[c].at \in steps
      BY <1>3, <1>5, <2>1
    <3>2. /\ OnFile(f, steps)' = OnFile(f, steps) \cup {c}
          /\ c \in OnFile(f, steps) <=> calls[c].at \in steps
      BY <1>2, <1>5, <2>1, <3>1, OnFileStep
    <3>3. QED
      BY <3>1, <3>2
  <2>2. OnFile(f, {"tell"})' = OnFile(f, {"tell"})
    <3>1. /\ OnFile(f, {"tell"})' = OnFile(f, {"tell"}) \ {c}
          /\ c \in OnFile(f, {"tell"}) <=> calls[c].at \in {"tell"}
      BY <1>2, <1>5, OnFileStep
    <3>2. QED
      BY <1>3, <3>1
  <2>3. QED
    BY <2>1, <2>2 DEF Changing
<1>12. Settled(f)'
  BY <1>6, <1>8, <1>9, <1>10, <1>11 DEF Settled, StatusOf, One
<1>13. Steady(x)'
  <2>1. Unraced(f) /\ Judges(x) => row[f].status = "pending"
    BY <1>3, <1>4, <1>5 DEF Steady, Judges
  <2>2. ~Passed(x)
    BY <1>3, <1>5 DEF Passed, Proper
  <2>3. QED
    BY <1>5, <1>6, <1>8, <1>9, <2>1, <2>2 DEF Steady
<1>14. ASSUME NEW d \in Callers \ {c}, NEW y \in Call, y = calls[d], y # Idle, y.file = f
       PROVE  Steady(y)'
  <2>1. Steady(y)
    BY <1>14 DEF Life
  <2>2. Unraced(f) => y.at \notin Changing
    BY <1>2, <1>3, <1>4, <1>14, Alone DEF Changing
  <2>3. Unraced(f) => ~Passed(y)
    BY <2>2 DEF Passed, Changing
  <2>4. QED
    BY <1>6, <1>8, <1>9, <1>14, <2>1, <2>3 DEF Steady
<1>15. \A g \in Files \ {f} : /\ row'[g] = row[g] /\ object'[g] = object[g]
                              /\ marks'[g] = marks[g] /\ told'[g] = told[g]
  BY <1>6, <1>7
<1>16. QED
  BY <1>2, <1>5, <1>12, <1>13, <1>14, <1>15, LifeKept

LEMMA SetStatusIs ==
    ASSUME Inv, Life, NEW c \in Callers, SetStatus(c)
    PROVE  \E f \in Files, call \in Call, x \in Call :
              /\ call = calls[c] /\ call.at = "mark" /\ call.file = f /\ Steady(call) /\ Proper(call)
              /\ Moves(c, f, x) /\ x # Idle /\ x.at = "tell" /\ x.file = f /\ x.verdict = call.verdict
              /\ row[f] # None /\ row'[f] # None /\ row'[f].status = call.verdict
              /\ \A g \in Files \ {f} : row'[g] = row[g]
              /\ UNCHANGED <<object, told, marks>>
<1>1. PICK call \in CallsAt(c, "mark") :
         /\ row' = [row EXCEPT ![call.file].status = call.verdict,
                               ![call.file].sha256 = IF call.verdict = "available"
                                                     THEN call.req.sha256 ELSE @]
         /\ Go(c, call, "tell")
         /\ UNCHANGED <<setting, object, uploadUrls, told, faults, marks>>
  BY DEF SetStatus
<1>2. /\ Typed /\ "mark" \in Steps /\ "tell" \in Steps /\ row \in [Files -> Row \cup {None}]
  BY DEF Inv, Typed, RowsOK, Steps
<1>3. /\ call.file \in Files /\ call.at = "mark" /\ calls[c] = call /\ call \in Call
      /\ Steady(call) /\ Proper(call)
  BY <1>2, FromStep
<1>4. PICK x \in Call : /\ Moves(c, call.file, x) /\ x # Idle /\ x.at = "tell" /\ x.file = call.file
                        /\ x.verdict = call.verdict
  BY <1>1, <1>2, Going
<1>5. row[call.file] # None /\ row[call.file] \in Row
  BY <1>2, <1>3 DEF Proper
<1>6. call.verdict \in Status /\ call.req.sha256 \in Contents
  BY <1>3 DEF Proper, Call, Request
<1> DEFINE old == row[call.file]
           new == row'[call.file]
<1>7. /\ new = [old EXCEPT !.status = call.verdict,
                           !.sha256 = IF call.verdict = "available" THEN call.req.sha256 ELSE @]
      /\ \A g \in Files \ {call.file} : row'[g] = row[g]
  BY <1>1, <1>2, <1>3
<1>8. new \in Row /\ new.status = call.verdict
  BY <1>5, <1>6, <1>7 DEF Row
<1>9. new # None
  BY <1>8, ArtifactConstants
<1> HIDE DEF old, new
<1>10. PICK f \in Files : f = call.file
  BY <1>3
<1>11. /\ row[f] # None /\ row'[f] # None /\ row'[f].status = call.verdict
       /\ \A g \in Files \ {f} : row'[g] = row[g]
  BY <1>5, <1>7, <1>8, <1>9, <1>10 DEF new
<1>12. UNCHANGED <<object, told, marks>>
  BY <1>1
<1>13. /\ call = calls[c] /\ call.at = "mark" /\ call.file = f /\ Steady(call) /\ Proper(call)
       /\ Moves(c, f, x) /\ x # Idle /\ x.at = "tell" /\ x.file = f /\ x.verdict = call.verdict
  BY <1>3, <1>4, <1>10
<1>14. /\ f \in Files /\ call \in Call /\ x \in Call
  BY <1>3, <1>4, <1>10
<1>15. QED
  BY <1>11, <1>12, <1>13, <1>14

LEMMA SetStatusLives ==
    ASSUME Inv, Life, NEW c \in Callers, SetStatus(c)
    PROVE  Life'
<1>1. PICK f \in Files, call \in Call, x \in Call :
              /\ call = calls[c] /\ call.at = "mark" /\ call.file = f /\ Steady(call) /\ Proper(call)
              /\ Moves(c, f, x) /\ x # Idle /\ x.at = "tell" /\ x.file = f /\ x.verdict = call.verdict
              /\ row[f] # None /\ row'[f] # None /\ row'[f].status = call.verdict
              /\ \A g \in Files \ {f} : row'[g] = row[g]
              /\ UNCHANGED <<object, told, marks>>
  BY SetStatusIs
<1>2. Typed /\ Settled(f)
  BY DEF Inv, Life
<1>3. /\ Unraced(f)' <=> Unraced(f)
      /\ Orderly(f)' <=> Orderly(f)
      /\ Plain(f)' <=> Plain(f)
      /\ Removed(f)' <=> Removed(f)
      /\ Excused(f, {"raced", "died"})' <=> Excused(f, {"raced", "died"})
      /\ Plain(f) => Orderly(f) /\ Unraced(f)
      /\ ~Excused(f, {"raced", "died"}) => Unraced(f)
  BY <1>1 DEF Unraced, Orderly, Plain, Removed, Excused
<1>4. /\ OnFile(f, Changing)' = OnFile(f, Changing) \ {c}
      /\ OnFile(f, Changing \cup {"tell"})' = OnFile(f, Changing \cup {"tell"})
      /\ c \in OnFile(f, {"tell"})'
  <2>1. "idle" \notin Changing /\ "tell" \notin Changing /\ "mark" \in Changing
    BY DEF Changing
  <2>2. OnFile(f, Changing)' = OnFile(f, Changing) \ {c}
    BY <1>1, <1>2, <2>1, OnFileStep
  <2>3. OnFile(f, {"tell"})' = OnFile(f, {"tell"}) \cup {c}
    BY <1>1, <1>2, OnFileStep
  <2>4. OnFile(f, Changing \cup {"tell"})' = OnFile(f, Changing \cup {"tell"})
    <3>1. /\ x.at \in Changing \cup {"tell"} /\ calls[c].at \in Changing \cup {"tell"}
          /\ "idle" \notin Changing \cup {"tell"}
      BY <1>1, <2>1
    <3>2. /\ OnFile(f, Changing \cup {"tell"})' = OnFile(f, Changing \cup {"tell"}) \cup {c}
          /\ c \in OnFile(f, Changing \cup {"tell"}) <=> calls[c].at \in Changing \cup {"tell"}
      BY <1>1, <1>2, <3>1, OnFileStep
    <3>3. QED
      BY <3>1, <3>2
  <2>5. QED
    BY <2>2, <2>3, <2>4
<1>5. StatusOf(f)' = call.verdict
  BY <1>1 DEF StatusOf
<1>6. call.verdict \in {"rejected", "deleted"} => Removed(f)
  BY <1>1 DEF Steady
<1>7. call.verdict = "available" /\ Unraced(f) => object[f] # None
  BY <1>1 DEF Steady, Passed
<1>8. Settled(f)'
  <2>1. Unraced(f)' => One(f, Changing)'
    BY <1>2, <1>3, <1>4 DEF Settled, One
  <2>2. Orderly(f)' => One(f, Changing \cup {"tell"})'
    BY <1>2, <1>3, <1>4 DEF Settled, One
  <2>3. QED
    BY <1>1, <1>3, <1>4, <1>5, <1>6, <1>7, <2>1, <2>2 DEF Settled
<1>9. Steady(x)'
  BY <1>1 DEF Steady, Judges, Passed
<1>10. ASSUME NEW d \in Callers \ {c}, NEW y \in Call, y = calls[d], y # Idle, y.file = f
       PROVE  Steady(y)'
  <2>1. Steady(y)
    BY <1>10 DEF Life
  <2>2. /\ Unraced(f) => y.at \notin Changing
        /\ Orderly(f) => y.at # "tell"
    BY <1>1, <1>2, <1>10, Alone DEF Changing
  <2>3. Unraced(f) => ~Judges(y) /\ ~Passed(y)
    BY <2>2 DEF Judges, Passed, Changing
  <2>4. QED
    BY <1>3, <1>10, <2>1, <2>2, <2>3 DEF Steady
<1>11. \A g \in Files \ {f} : /\ row'[g] = row[g] /\ object'[g] = object[g]
                              /\ marks'[g] = marks[g] /\ told'[g] = told[g]
  BY <1>1
<1>12. QED
  BY <1>1, <1>2, <1>8, <1>9, <1>10, <1>11, LifeKept

LEMMA AuditLives ==
    ASSUME Inv, Life, NEW c \in Callers, Audit(c)
    PROVE  Life'
<1>1. PICK call \in CallsAt(c, "tell") :
         /\ told' = [told EXCEPT ![call.file] = call.verdict]
         /\ IF call.verdict = "pending" THEN Go(c, call, "put") ELSE Return(c)
         /\ UNCHANGED <<setting, row, object, uploadUrls, faults, marks>>
  BY DEF Audit, Tell
<1>2. /\ Typed /\ "tell" \in Steps /\ "put" \in Steps /\ told \in [Files -> Status \cup {None}]
  BY DEF Inv, Typed, RestOK, Steps
<1>3. /\ call.file \in Files /\ call.at = "tell" /\ calls[c] = call /\ Steady(call) /\ Proper(call)
  BY <1>2, FromStep
<1>4. PICK f \in Files : f = call.file
  BY <1>3
<1>5. \E x : Moves(c, f, x) /\ x.at \in {"idle", "put"}
  <2>1. CASE Return(c)
    BY <1>2, <1>4, <2>1, FromStep, IdleIsNowhere
  <2>2. CASE Go(c, call, "put")
    BY <1>2, <1>4, <2>2, Going
  <2>3. QED
    BY <1>1, <2>1, <2>2
<1>6. PICK x : Moves(c, f, x) /\ x.at \in {"idle", "put"}
  BY <1>5
<1>7. /\ told'[f] = call.verdict /\ \A g \in Files \ {f} : told'[g] = told[g]
      /\ row' = row /\ object' = object /\ marks' = marks
  BY <1>1, <1>2, <1>4
<1>8. /\ Unraced(f)' <=> Unraced(f)
      /\ Orderly(f)' <=> Orderly(f)
      /\ Plain(f)' <=> Plain(f)
      /\ Removed(f)' <=> Removed(f)
      /\ Excused(f, {"raced", "died"})' <=> Excused(f, {"raced", "died"})
      /\ StatusOf(f)' = StatusOf(f)
  BY <1>7 DEF Unraced, Orderly, Plain, Removed, Excused, StatusOf
<1>9. /\ OnFile(f, Changing)' = OnFile(f, Changing) \ {c}
      /\ OnFile(f, Changing \cup {"tell"})' = OnFile(f, Changing \cup {"tell"}) \ {c}
      /\ OnFile(f, {"unlink", "mark"})' = OnFile(f, {"unlink", "mark"}) \ {c}
      /\ c \notin OnFile(f, {"unlink", "mark"})
  <2>1. ASSUME NEW steps, "idle" \notin steps, "put" \notin steps
        PROVE  /\ OnFile(f, steps)' = OnFile(f, steps) \ {c}
               /\ c \in OnFile(f, steps) <=> calls[c].at \in steps
    <3>1. x.at \notin steps
      BY <1>6, <2>1
    <3>2. QED
      BY <1>2, <1>6, <2>1, <3>1, OnFileStep
  <2>2. QED
    BY <1>3, <2>1 DEF Changing
<1>10. Settled(f)
  BY DEF Life
<1>11. Plain(f) => told'[f] = StatusOf(f)
  BY <1>3, <1>4, <1>7 DEF Steady, StatusOf, Proper
<1>12. Settled(f)'
  <2>1. Unraced(f)' => One(f, Changing)'
    BY <1>8, <1>9, <1>10 DEF Settled, One
  <2>2. Orderly(f)' => One(f, Changing \cup {"tell"})'
    BY <1>8, <1>9, <1>10 DEF Settled, One
  <2>3. OnFile(f, {"unlink", "mark"})' = OnFile(f, {"unlink", "mark"})
    BY <1>9
  <2>4. QED
    BY <1>7, <1>8, <1>10, <1>11, <2>1, <2>2, <2>3 DEF Settled
<1>13. x = Idle \/ Steady(x)'
  BY <1>6 DEF Steady, Judges, Passed
<1>14. ASSUME NEW d \in Callers \ {c}, NEW y \in Call, y = calls[d], y # Idle, y.file = f
       PROVE  Steady(y)'
  <2>1. Steady(y)
    BY <1>14 DEF Life
  <2>2. QED
    BY <1>7, <1>8, <1>14, <2>1 DEF Steady
<1>15. \A g \in Files \ {f} : /\ row'[g] = row[g] /\ object'[g] = object[g]
                              /\ marks'[g] = marks[g] /\ told'[g] = told[g]
  BY <1>7
<1>16. QED
  BY <1>2, <1>6, <1>12, <1>13, <1>14, <1>15, LifeKept

LEMMA InitUploadLives ==
    ASSUME Inv, Life, NEW c \in Callers, InitUpload(c)
    PROVE  Life'
<1>1. PICK call \in CallsAt(c, "init") :
         /\ row[call.file] = None
         /\ row' = [row EXCEPT ![call.file] = [status |-> "pending", sizeBytes |-> call.req.sizeBytes,
                                               sha256 |-> call.req.sha256]]
         /\ Decide(c, call, "tell", "pending")
         /\ UNCHANGED <<setting, object, told, faults, marks>>
  BY DEF InitUpload
<1>2. /\ Typed /\ "init" \in Steps /\ "tell" \in Steps /\ "pending" \in Status \cup {None}
      /\ row \in [Files -> Row \cup {None}]
  BY DEF Inv, Typed, RowsOK, Steps, Status
<1>3. call.file \in Files /\ call \in Call /\ (calls[c].at = "init" \/ calls[c].at = "idle")
  BY <1>2, FromStep
<1>4. PICK f \in Files : f = call.file
  BY <1>3
<1>5. PICK x \in Call : /\ Moves(c, f, x) /\ x # Idle /\ x.at = "tell" /\ x.file = f
                        /\ x.verdict = "pending"
  BY <1>1, <1>2, <1>4, Deciding
<1>6. /\ row'[f].status = "pending" /\ row'[f] \in Row
      /\ \A g \in Files \ {f} : row'[g] = row[g]
  BY <1>1, <1>2, <1>3, <1>4 DEF Call, Request, Row, Status
<1>7. row'[f] # None /\ StatusOf(f)' = "pending"
  BY <1>6, ArtifactConstants DEF StatusOf
<1>8. ASSUME NEW d \in Callers, calls[d].file = f, calls[d] # Idle
      PROVE  calls[d].at \notin Changing \cup {"tell"}
  BY <1>1, <1>2, <1>4, <1>8 DEF Typed, CallsOK, Proper, Changing
<1>9. OnFile(f, Changing) = {} /\ OnFile(f, Changing \cup {"tell"}) = {}
  BY <1>8, IdleIsNowhere DEF OnFile
<1>10. /\ OnFile(f, Changing)' \subseteq {c}
       /\ OnFile(f, Changing \cup {"tell"})' \subseteq {c}
       /\ c \in OnFile(f, {"tell"})'
  <2>1. ASSUME NEW steps, "idle" \notin steps, OnFile(f, steps) = {}
        PROVE  OnFile(f, steps)' \subseteq {c}
    BY <1>2, <1>5, <2>1, OnFileStep
  <2>2. OnFile(f, {"tell"})' = OnFile(f, {"tell"}) \cup {c}
    BY <1>2, <1>5, OnFileStep
  <2>3. QED
    BY <1>9, <2>1, <2>2, IdleIsNowhere
<1>11. Settled(f)'
  BY <1>7, <1>10 DEF Settled, One
<1>12. Steady(x)'
  BY <1>5, <1>6 DEF Steady, Judges, Passed
<1>13. ASSUME NEW d \in Callers \ {c}, NEW y \in Call, y = calls[d], y # Idle, y.file = f
       PROVE  Steady(y)'
  BY <1>8, <1>13 DEF Steady, Judges, Passed, Changing
<1>14. \A g \in Files \ {f} : /\ row'[g] = row[g] /\ object'[g] = object[g]
                              /\ marks'[g] = marks[g] /\ told'[g] = told[g]
  BY <1>1, <1>6
<1>15. QED
  BY <1>2, <1>5, <1>11, <1>12, <1>13, <1>14, LifeKept

-----------------------------------------------------------------------------
LEMMA LifeInit == Init => Life
<1> SUFFICES ASSUME Init
             PROVE  Life
  OBVIOUS
<1>1. /\ \A c \in Callers : calls[c] = Idle
      /\ \A f \in Files : row[f] = None /\ told[f] = None
  BY DEF Init
<1>2. ASSUME NEW steps, "idle" \notin steps, NEW f \in Files
      PROVE  OnFile(f, steps) = {}
  BY <1>1, <1>2, IdleIsNowhere DEF OnFile
<1>3. ASSUME NEW f \in Files
      PROVE  Settled(f)
  <2>1. One(f, Changing) /\ One(f, Changing \cup {"tell"})
    BY <1>2, IdleIsNowhere DEF One
  <2>2. StatusOf(f) = None /\ None \notin Status
    BY <1>1, ArtifactConstants DEF StatusOf
  <2>3. StatusOf(f) \notin {"rejected", "deleted", "available"}
    BY <2>2 DEF Status
  <2>4. told[f] = StatusOf(f)
    BY <1>1, <2>2
  <2>5. QED
    BY <2>1, <2>3, <2>4 DEF Settled
<1>4. QED
  BY <1>1, <1>3 DEF Life

LEMMA LifeStep == Inv /\ Life /\ [Next]_vars => Life'
<1> SUFFICES ASSUME Inv, Life, [Next]_vars
             PROVE  Life'
  OBVIOUS
<1>1. ASSUME NEW c \in Callers, CallStep(c)
      PROVE  Life'
  BY <1>1, InitUploadLives, PutLives, RequirePendingLives, StatLives, HashLives, ScanLives, DeleteLives,
     DeleteBytesLives, FailToDeleteLives, SetStatusLives, AuditLives, DownloadUrlLives, GetLives DEF CallStep
<1>2. ASSUME UNCHANGED <<row, object, calls, told, marks>>
      PROVE  Life'
  BY <1>2 DEF Life, Steady, Settled, Unraced, Orderly, Plain, Removed, Excused, One, OnFile, StatusOf
<1>3. CASE \E f \in Files : UrlExpires(f)
  BY <1>2, <1>3 DEF UrlExpires
<1>4. CASE UNCHANGED vars
  BY <1>2, <1>4 DEF vars
<1>5. QED
  BY <1>1, <1>3, <1>4, FailLives DEF Next

LEMMA LivesOn ==
    Spec => []Life
BY Invariant, LifeInit, LifeStep, PTL DEF Spec

(* The bytes follow the row, and the audit log ends with its status: a     *)
(* rejected or deleted artifact keeps no bytes, an available one has them, *)
(* and the last entry tells the status of the row, but for the histories   *)
(* the property names: however many uploads, completes, deletes, failures  *)
(* and crashes there are.                                                  *)
THEOREM StatusesAreTrue ==
    Spec => []StatusIsTrue
<1>1. ASSUME Life, NEW f \in Files
      PROVE  Settled(f)
  BY <1>1 DEF Life
<1>2. Life => BytesFollowStatus
  BY <1>1 DEF BytesFollowStatus, Settled, Removed
<1>3. Life => TrailEndsAtStatus
  BY <1>1 DEF TrailEndsAtStatus, Settled, Plain
<1>4. Life => StatusIsTrue
  BY <1>2, <1>3 DEF StatusIsTrue
<1>5. QED
  BY <1>4, LivesOn, PTL

(* Only initUpload and a verdict or a delete that is carried out set the   *)
(* status of a row; all else leaves it.                                    *)
LEMMA WhoSetsStatus ==
    ASSUME [Next]_vars
    PROVE  \/ row' = row
           \/ \E c \in Callers : InitUpload(c) \/ SetStatus(c)
<1>1. ASSUME NEW c \in Callers, CallStep(c), ~InitUpload(c), ~SetStatus(c)
      PROVE  row' = row
  BY <1>1 DEF CallStep, Put, RequirePending, Stat, Hash, Scan, Delete, DeleteBytes, FailToDeleteBytes,
              Audit, DownloadUrl, Get
<1>2. QED
  BY <1>1 DEF Next, Fail, UrlExpires, vars

LEMMA OneLifecycleStep ==
    ASSUME Inv, Life, [Next]_vars, NEW f \in Files, StatusOf(f) # StatusOf(f)', "raced" \notin marks[f]
    PROVE  \/ StatusOf(f) = None /\ StatusOf(f)' = "pending"
           \/ StatusOf(f) = "pending"
           \/ StatusOf(f)' = "deleted"
<1>1. row'[f] # row[f]
  BY DEF StatusOf
<1>2. ASSUME NEW c \in Callers, InitUpload(c)
      PROVE  StatusOf(f) = None /\ StatusOf(f)' = "pending"
  <2>1. PICK call \in CallsAt(c, "init") :
           /\ row[call.file] = None
           /\ row' = [row EXCEPT ![call.file] = [status |-> "pending", sizeBytes |-> call.req.sizeBytes,
                                                 sha256 |-> call.req.sha256]]
    BY <1>2 DEF InitUpload
  <2>2. /\ Typed /\ "init" \in Steps /\ row \in [Files -> Row \cup {None}]
    BY DEF Inv, Typed, RowsOK, Steps
  <2>3. call \in Call /\ call.file \in Files
    BY <2>2, AtStep
  <2>4. call.file = f
    BY <1>1, <2>1, <2>2, <2>3
  <2>5. /\ row[f] = None /\ row'[f].status = "pending"
        /\ row'[f] \in Row
    BY <2>1, <2>2, <2>3, <2>4 DEF Call, Request, Row, Status
  <2>6. row'[f] # None
    BY <2>5, ArtifactConstants
  <2>7. QED
    BY <2>5, <2>6 DEF StatusOf
<1>3. ASSUME NEW c \in Callers, SetStatus(c)
      PROVE  StatusOf(f) = "pending" \/ StatusOf(f)' = "deleted"
  <2>1. PICK g \in Files, call \in Call, x \in Call :
           /\ call = calls[c] /\ call.at = "mark" /\ call.file = g /\ Steady(call) /\ Proper(call)
           /\ row[g] # None /\ row'[g] # None /\ row'[g].status = call.verdict
           /\ \A h \in Files \ {g} : row'[h] = row[h]
    BY <1>3, SetStatusIs
  <2>2. g = f
    BY <1>1, <2>1
  <2>3. StatusOf(f) = row[f].status /\ StatusOf(f)' = call.verdict
    BY <2>1, <2>2 DEF StatusOf
  <2>4. call.verdict # "deleted" => row[f].status = "pending"
    BY <2>1, <2>2 DEF Steady, Judges, Unraced, Excused
  <2>5. QED
    BY <2>3, <2>4
<1>4. QED
  BY <1>1, <1>2, <1>3, WhoSetsStatus

(* The lifecycle: from nothing to pending, from pending to a verdict, and  *)
(* from anything to deleted; no verdict is changed and no deleted artifact *)
(* comes back, unless two calls that change the file raced.                *)
THEOREM LifecycleIsKept ==
    Spec => LifecycleHolds
<1>1. ASSUME Inv, Life, [Next]_vars
      PROVE  \A f \in Files : StatusOf(f) # StatusOf(f)' /\ "raced" \notin marks[f] =>
                \/ StatusOf(f) = None /\ StatusOf(f)' = "pending"
                \/ StatusOf(f) = "pending"
                \/ StatusOf(f)' = "deleted"
  BY <1>1, OneLifecycleStep
<1>2. QED
  BY <1>1, Invariant, LivesOn, PTL DEF Spec, LifecycleHolds
=============================================================================
