------------------------------- MODULE Clients -------------------------------
(***************************************************************************)
(* The SDKs, the dashboard and the MCP tools as callers of Access: a call  *)
(* sends its request, and again after a failure its kind of client takes   *)
(* for transient.  The TypeScript SDK (and the MCP tools, which use it)    *)
(* sends again after a 5xx or 429, the Python SDK after a network error    *)
(* too, the dashboard never.  A request that is given up or sent again     *)
(* may still be served.  Left out: what is shown of an answer.             *)
(***************************************************************************)
EXTENDS Access, Sequences

VARIABLES client, faults
vars == <<accessVars, client, faults>>

Client == [at : {"ready", "waiting", "backoff", "done", "failed"}, attempt : Attempts]

KindOf(x) == script[x].kind
RetriesStatus(x)  == KindOf(x) \in {"typescript", "python"}
RetriesNetwork(x) == KindOf(x) = "python"

(* What each kind of client can ask: the API classes of the TypeScript     *)
(* SDK, the requests _proto.py builds for Python, the dashboard's Api.     *)
ContextApi      == ContextOps
BusApi          == MessageOps \cup {"ack", "reply", "awaitReply", "listDlq", "replayDlq"}
SessionsApi     == {"create", "get", "sessions", "join", "leave", "abort", "end"}
ArtifactsApi    == ArtifactOps \cup {"complete"}
StreamApi       == {"ticket", "connect"}
ContextRequests == {"write", "read", "append", "increment", "list", "history", "delete", "await", "search"}
BusRequests     == {"dispatch", "broadcast", "claim", "ack", "reply", "request", "awaitReply",
                    "listDlq", "replayDlq"}
SessionRequests == {"create", "get", "sessions", "join", "leave", "abort", "end"}
ArtifactRequests == {"initUpload", "complete", "metadata", "downloadUrl", "deleteArtifact"}
WebApi          == Public \cup UserOps \cup {"sessions", "get", "create", "abort", "end", "list", "getByRun"}
Offered(kind)   == StreamApi \cup
    CASE kind = "typescript" -> ContextApi \cup BusApi \cup SessionsApi \cup ArtifactsApi
      [] kind = "python" -> ContextRequests \cup BusRequests \cup SessionRequests \cup ArtifactRequests
      [] kind = "web"    -> WebApi

(* What the composite calls of the SDKs, the MCP tools and the dashboard's *)
(* pages ask of the API: a sequence of sets of operations, each set at     *)
(* once, and the next when the answer is there.                            *)
One(op)         == <<{op}>>
Then(op, ops)   == <<{op}, ops>>
UploadCalls     == Then("initUpload", {"complete"})
DownloadCalls   == One("downloadUrl")
StreamCalls     == Then("ticket", {"connect"})
ContextTools    == [spano_write  |-> One("write"),  spano_read      |-> One("read"),
                    spano_append |-> One("append"), spano_increment |-> One("increment"),
                    spano_await  |-> One("await"),  spano_search    |-> One("search")]
BusTools        == [spano_send    |-> One("dispatch"), spano_broadcast   |-> One("broadcast"),
                    spano_claim   |-> One("claim"),    spano_reply       |-> One("reply"),
                    spano_request |-> One("request"),  spano_await_reply |-> One("awaitReply")]
ArtifactTools   == [spano_upload |-> UploadCalls, spano_download |-> One("metadata") \o DownloadCalls]
LoginPage       == One("login")
SignupPage      == One("signup")
OverviewPage    == One("sessions")
ApiKeysPage     == [load   |-> One("listKeys"), create |-> Then("createKey", {"listKeys"}),
                    revoke |-> Then("revokeKey", {"listKeys"})]
SessionsPage    == [load |-> One("sessions"), createSession |-> Then("create", {"sessions"})]
LoadData        == {"get", "list", "getByRun"}
SessionPage     == [load |-> <<LoadData>>, live |-> StreamCalls, abort |-> Then("abort", LoadData)]
SettingsPage    == [save |-> One("me"), signOut |-> One("logout")]

Values(flows) == {flows[f] : f \in DOMAIN flows}
AgentFlows == {UploadCalls, DownloadCalls, StreamCalls}
                  \cup Values(ContextTools) \cup Values(BusTools) \cup Values(ArtifactTools)
UserFlows  == {OverviewPage} \cup Values(ApiKeysPage) \cup Values(SessionsPage)
                  \cup Values(SessionPage) \cup Values(SettingsPage)
OpenFlows  == {LoginPage, SignupPage}

(* Whoever calls holds the credential it presents, and has the answer of   *)
(* the call this one follows.                                              *)
Holds(x) ==
    /\ script[x].op \in Offered(KindOf(x))
    /\ script[x].by \in Creds => credential[script[x].by] # None
    /\ script[x].on \in Calls => client[script[x].on].at = "done"

To(x, at) == client' = [client EXCEPT ![x].at = at]
Again(x, retries) ==
    To(x, IF retries /\ client[x].attempt < MaxRetries THEN "backoff" ELSE "failed")

Send(x) ==
    /\ script[x] # None /\ client[x].at = "ready" /\ Holds(x)
    /\ To(x, "waiting") /\ Start(<<x, 0>>)
    /\ UNCHANGED <<setting, now, window, rows, redis, history, faults>>

Resend(x) ==
    /\ client[x].at = "backoff"
    /\ client' = [client EXCEPT ![x] = [at |-> "waiting", attempt |-> @.attempt + 1]]
    /\ Start(<<x, client[x].attempt + 1>>)
    /\ UNCHANGED <<setting, now, window, rows, redis, history, faults>>

Status(x) == server[<<x, client[x].attempt>>].status

Receive(x) ==
    /\ client[x].at = "waiting" /\ server[<<x, client[x].attempt>>].at = "answered"
    /\ CASE Status(x) = "ok"                -> To(x, "done")
         [] Status(x) = "refused"           -> To(x, "failed")
         [] Status(x) \in {"busy", "error"} -> Again(x, RetriesStatus(x))
    /\ UNCHANGED <<accessVars, faults>>

(* The connection breaks, or the Python client's timeout passes, whether   *)
(* or not the request is being served.                                     *)
Disconnect(x) ==
    /\ client[x].at = "waiting"
    /\ IF server[<<x, client[x].attempt>>].at = "gone" THEN UNCHANGED faults
       ELSE faults < setting.faults /\ faults' = faults + 1
    /\ Again(x, RetriesNetwork(x))
    /\ UNCHANGED accessVars

Fail(s) == faults < setting.faults /\ faults' = faults + 1 /\ Abandon(s) /\ UNCHANGED client

Init == AccessInit /\ client = [x \in Calls |-> [at |-> "ready", attempt |-> 0]] /\ faults = 0

Next ==
    \/ \E x \in Calls : Send(x) \/ Resend(x) \/ Receive(x) \/ Disconnect(x)
    \/ \E s \in Slots : (Serve(s) /\ UNCHANGED <<client, faults>>) \/ Fail(s)
    \/ Tick /\ UNCHANGED <<client, faults>>

Spec == Init /\ [][Next]_vars

-----------------------------------------------------------------------------
(* Properties.                                                             *)

(* Every variable has its type; a request that got past authentication     *)
(* knows its tenant, and only sent attempts are served.                    *)
TypeOK ==
    /\ setting \in Setting /\ now \in 0..MaxTime
    /\ users \in [Emails -> Tenants \cup {None}] /\ tenants \subseteq Tenants
    /\ credential \in [Creds -> Row \cup {None}] /\ cache \in [Creds -> Nat]
    /\ window \in [Slots -> 0..MaxTime] /\ hits \in [Tenants \cup {"anon"} -> [0..MaxTime -> Nat]]
    /\ passed \in [Tenants \cup {"anon"} -> Nat]
    /\ tickets \in [Slots -> Nat] /\ opened \in [Slots -> Nat]
    /\ server \in [Slots -> Request] /\ operations \subseteq Slots
    /\ applied \in [Calls -> Nat] /\ crossed \subseteq Creds
    /\ client \in [Calls -> Client] /\ faults \in Nat
    /\ \A s \in Slots :
          /\ server[s].at # "idle" => script[s[1]] # None /\ s[2] <= client[s[1]].attempt
          /\ server[s].at \in {"limit", "count", "handle"} /\ OpOf(s) \in AgentOps => server[s].tenant # None

(* "operationId is ... reused across retries so a retry after a partial    *)
(* success replays idempotently" (client.ts:202-203): a write, append or   *)
(* increment that is answered has been applied exactly once, and one that  *)
(* fails at most once, whatever answers were lost and whichever attempts   *)
(* still run.  Every other call has no operationId of its own: it takes    *)
(* effect once per attempt at most, also when it looks whether it is done  *)
(* before it acts, and at least once if it is answered.                    *)
AppliedAsAnswered ==
    \A x \in Calls : script[x] # None /\ script[x].op \in ByOperation \cup Repeated \cup Checked =>
        /\ client[x].at = "done" => applied[x] >= 1
        /\ applied[x] <= IF script[x].op \in ByOperation THEN 1 ELSE client[x].attempt + 1
=============================================================================
