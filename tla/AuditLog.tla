------------------------------- MODULE AuditLog -------------------------------
(***************************************************************************)
(* The audit log of one tenant: audit-log/index.ts over                    *)
(* backends/postgres-audit.ts.  append ticks the run's vector clock in     *)
(* Redis, then stores the entry in Postgres, whose transaction allocates   *)
(* its step; when Postgres fails, the entry goes to a Redis list, the same *)
(* for all runs, from which every server's drain job takes it.             *)
(*                                                                         *)
(* A transaction that fails may have been committed all the same, with     *)
(* only its answer lost.  An entry is its id, run, agent and clock: the    *)
(* agent stands for the event type too, with which it is compared in a     *)
(* diff; the payload is left out.                                          *)
(***************************************************************************)
EXTENDS VectorClock, Sequences, FiniteSets

CONSTANTS
    Runs,
    Appenders,      \* callers of append
    Drainers,       \* drain jobs, one per server
    RetryMax,       \* SPANOAI_AUDIT_RETRY_MAX
    Troubles,       \* what may go wrong, and how often
    MaxEntries      \* bound on the entries ever appended

(* Transactions Postgres refuses, transactions it commits but does not     *)
(* answer, deaths of a server or Redis calls that fail, and expiries of a  *)
(* run's clock (after SPANOAI_OPS_TTL_SECONDS).                            *)
Trouble == [refused : Nat, unanswered : Nat, deaths : Nat, lapses : Nat]

ASSUME AuditConstants ==
    /\ Troubles \subseteq Trouble
    /\ RetryMax \in Nat \ {0}
    /\ MaxEntries \in Nat

VARIABLES
    trouble,    \* what may still go wrong
    mishaps,    \* history: what has gone wrong
    clocks,     \* the clock of each run
    steps,      \* audit_run_counters
    trail,      \* audit_log: the rows of each run, in step order
    retry,      \* the retry list, its head first
    appending,  \* the entry each appender has in hand
    draining,   \* the entry each drainer has in hand
    ticked,     \* history: entries in the order of their ticks
    returned    \* history: ids whose append has returned

storage == <<clocks, steps, trail, retry>>
fate    == <<trouble, mishaps>>
vars    == <<fate, storage, appending, draining, ticked, returned>>

EntryIds   == 1 .. MaxEntries     \* a fresh id is the number of the append
AuditEntry == [id : EntryIds, run : Runs, agentId : AgentIds, clock : Clock]
Row        == [entry : AuditEntry, step : Nat \ {0}]
NoClock    == [a \in AgentIds |-> 0]
Idle       == [at |-> "idle"]
InHand     == [at : {"store", "keep"}, entry : AuditEntry]

Stored(id) == \E r \in Runs : \E i \in DOMAIN trail[r] : trail[r][i].entry.id = id

MayFail(kind) ==
    /\ trouble[kind] > 0
    /\ trouble' = [trouble EXCEPT ![kind] = @ - 1]
    /\ mishaps' = mishaps \cup {kind}

-----------------------------------------------------------------------------
(* The mutant takes the counter's value before the increment.              *)
CurrentStep(r) == steps[r]
NextStep(r)    == steps[r] + 1

(* PostgresAudit.append: one transaction takes the run's next step and     *)
(* inserts the row; the primary key refuses an id that is already there,   *)
(* and the step goes back with it.                                         *)
AddRow(e) ==
    /\ ~Stored(e.id)
    /\ steps' = [steps EXCEPT ![e.run] = @ + 1]
    /\ trail' = [trail EXCEPT ![e.run] =
                    Append(@, [entry |-> e, step |-> NextStep(e.run)])]

Insert(e)           == AddRow(e) /\ UNCHANGED fate
InsertUnanswered(e) == AddRow(e) /\ MayFail("unanswered")

(* The mutant of Refuse allocates the step outside the transaction.        *)
IsRefused(e) ==
    \/ Stored(e.id) /\ UNCHANGED fate
    \/ ~Stored(e.id) /\ MayFail("refused")
RefuseKeepingStep(e) ==
    IsRefused(e) /\ steps' = [steps EXCEPT ![e.run] = @ + 1] /\ UNCHANGED trail
Refuse(e) == IsRefused(e) /\ UNCHANGED <<steps, trail>>

-----------------------------------------------------------------------------
(* TICK_SCRIPT advances the agent's component and returns the whole clock. *)
(* The mutant returns that component alone.                                *)
OwnComponent(r, a) == [NoClock EXCEPT ![a] = clocks[r][a] + 1]
TickedClock(r, a)  == tick(clocks[r], a)

AppendTick(p, r, a) ==
    LET e == [id |-> Len(ticked) + 1, run |-> r, agentId |-> a,
              clock |-> TickedClock(r, a)]
    IN  /\ appending[p] = Idle
        /\ Len(ticked) < MaxEntries
        /\ clocks' = [clocks EXCEPT ![r] = tick(@, a)]
        /\ ticked' = Append(ticked, e)
        /\ appending' = [appending EXCEPT ![p] = [at |-> "store", entry |-> e]]
        /\ UNCHANGED <<fate, steps, trail, retry, draining, returned>>

AppendStore(p) ==
    /\ appending[p].at = "store"
    /\ Insert(appending[p].entry)
    /\ returned' = returned \cup {appending[p].entry.id}
    /\ appending' = [appending EXCEPT ![p] = Idle]
    /\ UNCHANGED <<clocks, retry, draining, ticked>>

AppendFail(p) ==
    /\ appending[p].at = "store"
    /\ Refuse(appending[p].entry) \/ InsertUnanswered(appending[p].entry)
    /\ appending' = [appending EXCEPT ![p].at = "keep"]
    /\ UNCHANGED <<clocks, retry, draining, ticked, returned>>

(* LPUSH and LTRIM; append returns even if they fail.                      *)
Overflows(list)    == Len(list) > RetryMax
TrimmedShort(list) == SubSeq(list, 1, IF Overflows(list) THEN RetryMax
                                      ELSE Len(list) - 1)         \* mutant
Trimmed(list)      == SubSeq(list, 1, IF Overflows(list) THEN RetryMax ELSE Len(list))

AppendKeep(p) ==
    /\ appending[p].at = "keep"
    /\ LET list == <<appending[p].entry>> \o retry
       IN  \/ /\ retry' = Trimmed(list)
              /\ trouble' = trouble
              /\ mishaps' = mishaps \cup (IF Overflows(list) THEN {"overflow"} ELSE {})
           \/ /\ retry' = retry
              /\ MayFail("deaths")
    /\ returned' = returned \cup {appending[p].entry.id}
    /\ appending' = [appending EXCEPT ![p] = Idle]
    /\ UNCHANGED <<clocks, steps, trail, draining, ticked>>

-----------------------------------------------------------------------------
(* drainRetries: RPOP, store, and on to the next; an entry that cannot be  *)
(* stored is pushed back to where it came from and ends the drain until    *)
(* the job's next tick.                                                    *)

DrainPop(d) ==
    /\ draining[d] = Idle
    /\ retry # << >>
    /\ draining' = [draining EXCEPT ![d] = [at |-> "store", entry |-> retry[Len(retry)]]]
    /\ retry' = SubSeq(retry, 1, Len(retry) - 1)
    /\ UNCHANGED <<fate, clocks, steps, trail, appending, ticked, returned>>

DrainStore(d) ==
    /\ draining[d].at = "store"
    /\ Insert(draining[d].entry)
    /\ draining' = [draining EXCEPT ![d] = Idle]
    /\ UNCHANGED <<clocks, retry, appending, ticked, returned>>

DrainFail(d) ==
    /\ draining[d].at = "store"
    /\ Refuse(draining[d].entry) \/ InsertUnanswered(draining[d].entry)
    /\ draining' = [draining EXCEPT ![d].at = "keep"]
    /\ UNCHANGED <<clocks, retry, appending, ticked, returned>>

ForgetIt(list, e) == list                                         \* mutant
PutBack(list, e)  == Append(list, e)

DrainKeep(d) ==
    /\ draining[d].at = "keep"
    /\ retry' = PutBack(retry, draining[d].entry)
    /\ draining' = [draining EXCEPT ![d] = Idle]
    /\ UNCHANGED <<fate, clocks, steps, trail, appending, ticked, returned>>

-----------------------------------------------------------------------------
(* A server dies with the calls it runs, and a run nobody appends to for   *)
(* long loses its clock.                                                   *)
DieAppending(p) ==
    /\ appending[p] # Idle
    /\ MayFail("deaths")
    /\ appending' = [appending EXCEPT ![p] = Idle]
    /\ UNCHANGED <<storage, draining, ticked, returned>>

DieDraining(d) ==
    /\ draining[d] # Idle
    /\ MayFail("deaths")
    /\ draining' = [draining EXCEPT ![d] = Idle]
    /\ UNCHANGED <<storage, appending, ticked, returned>>

ClockLapse(r) ==
    /\ clocks[r] # NoClock
    /\ MayFail("lapses")
    /\ clocks' = [clocks EXCEPT ![r] = NoClock]
    /\ UNCHANGED <<steps, trail, retry, appending, draining, ticked, returned>>

Init ==
    /\ trouble \in Troubles /\ mishaps = {}
    /\ clocks = [r \in Runs |-> NoClock]
    /\ steps = [r \in Runs |-> 0]
    /\ trail = [r \in Runs |-> << >>]
    /\ retry = << >>
    /\ appending = [p \in Appenders |-> Idle]
    /\ draining = [d \in Drainers |-> Idle]
    /\ ticked = << >>
    /\ returned = {}

AppendStep(p) == AppendStore(p) \/ AppendFail(p) \/ AppendKeep(p)
DrainStep(d)  == DrainPop(d) \/ DrainStore(d) \/ DrainFail(d) \/ DrainKeep(d)

Next ==
    \/ \E p \in Appenders, r \in Runs, a \in AgentIds : AppendTick(p, r, a)
    \/ \E p \in Appenders : AppendStep(p) \/ DieAppending(p)
    \/ \E d \in Drainers : DrainStep(d) \/ DieDraining(d)
    \/ \E r \in Runs : ClockLapse(r)

Spec == Init /\ [][Next]_vars

(* A call in progress goes on unless its server dies, and the drain jobs   *)
(* run on an interval.                                                     *)
Fairness ==
    /\ \A p \in Appenders : WF_vars(AppendStep(p))
    /\ \A d \in Drainers : WF_vars(DrainStep(d))

FairSpec == Spec /\ Fairness

-----------------------------------------------------------------------------
(* ReplayEngine.diff: the trails position by position, and the step of the *)
(* first that is missing in one or differs in its signature; 0 for null.   *)
SameIfBoth(t, u, i) ==                                            \* mutant
    i \in DOMAIN t \cap DOMAIN u => t[i].entry.agentId = u[i].entry.agentId
SameSignature(t, u, i) ==
    /\ i \in DOMAIN t /\ i \in DOMAIN u
    /\ t[i].entry.agentId = u[i].entry.agentId

DivergedAtStep(t, u) ==
    LET differences == {i \in DOMAIN t \cup DOMAIN u : ~SameSignature(t, u, i)}
        first == CHOOSE i \in differences : \A j \in differences : i <= j
    IN  IF differences = {} THEN 0
        ELSE IF first \in DOMAIN t THEN t[first].step
        ELSE u[first].step

-----------------------------------------------------------------------------
(* Properties.                                                             *)

(* Every variable has its type.                                            *)
TypeOK ==
    /\ trouble \in Trouble
    /\ mishaps \subseteq {"refused", "unanswered", "deaths", "lapses", "overflow"}
    /\ clocks \in [Runs -> Clock]
    /\ steps \in [Runs -> Nat]
    /\ trail \in [Runs -> Seq(Row)]
    /\ retry \in Seq(AuditEntry)
    /\ appending \in [Appenders -> InHand \cup {Idle}]
    /\ draining \in [Drainers -> InHand \cup {Idle}]
    /\ ticked \in Seq(AuditEntry)
    /\ returned \subseteq EntryIds

(* "A contiguous, unique 1..50 sequence even across server instances"      *)
(* (README.md): the steps of a run are 1, 2, 3, ... in its trail, and      *)
(* refused transactions, lost answers, retries and concurrent drains leave *)
(* no gap and no entry twice.                                              *)
StepsAreContiguous ==
    \A r \in Runs :
        /\ \A i \in DOMAIN trail[r] : trail[r][i].step = i
        /\ \A i, j \in DOMAIN trail[r] :
              trail[r][i].entry.id = trail[r][j].entry.id => i = j

(* A Postgres outage loses nothing: an entry whose append returned is a    *)
(* row, in the retry list or in the hands of a drain job, as long as no    *)
(* server dies and Redis takes what it is given; of the entries of a       *)
(* longer outage, at least RetryMax are there.                             *)
InRetry(id) == \E i \in DOMAIN retry : retry[i].id = id
InDrain(id) == \E d \in Drainers : draining[d] # Idle /\ draining[d].entry.id = id
Missing == {id \in returned : ~(Stored(id) \/ InRetry(id) \/ InDrain(id))}
OutageLosesNothing ==
    "deaths" \notin mishaps =>
        Missing = {} \/ Cardinality(returned \ Missing) >= RetryMax

(* The clock orders a run: while it has not lapsed, the clock of an entry  *)
(* is after those of all entries ticked before it in the run, whichever    *)
(* agents and servers appended them.                                       *)
ClocksOrderTheRun ==
    "lapses" \notin mishaps =>
        \A i, j \in DOMAIN ticked :
            (i < j /\ ticked[i].run = ticked[j].run) =>
                compare(ticked[i].clock, ticked[j].clock) = "before"

(* diff finds the first divergence: up to the step it reports two runs     *)
(* look alike, and at that step they do not.                               *)
RowAt(r, s) == {trail[r][i].entry.agentId : i \in {j \in DOMAIN trail[r] : trail[r][j].step = s}}
DiffFindsFirst ==
    \A r, q \in Runs :
        LET d == DivergedAtStep(trail[r], trail[q])
        IN  /\ \A s \in 1 .. d - 1 : RowAt(r, s) = RowAt(q, s)
            /\ d > 0 => RowAt(r, d) # RowAt(q, d)
            /\ d = 0 => \A s \in EntryIds : RowAt(r, s) = RowAt(q, s)

(* When Postgres is back, all that was buffered is drained into the trail, *)
(* unless a server died, an answer of Postgres was lost or the list        *)
(* overflowed.                                                             *)
Unlucky == mishaps \cap {"deaths", "unanswered", "overflow"} # {}
OutageIsDrained ==
    \A id \in EntryIds : id \in returned ~> (Stored(id) \/ Unlucky)

(* Statements of the documentation that the code does not keep.            *)

(* "Buffered to a Redis list and drained by a background job once the      *)
(* database returns" (sessions.mdx), also after a lost answer.             *)
EverythingIsDrained == \A id \in EntryIds : id \in returned ~> Stored(id)
=============================================================================
