----------------------------- MODULE EngineStore -----------------------------
(***************************************************************************)
(* What the parts of the backend share: the MongoDB collections            *)
(* (webhookevents, executions, tenants, rules) and the BullMQ queue        *)
(* "webhook-queue".  One tenant; an event stands for one pair              *)
(* (tenantId, eventIdentifier), an execution for one document of           *)
(* executions, a job for one record of the queue.                          *)
(*                                                                         *)
(* Nothing deletes executions, and a job outlives its processing by hours  *)
(* (removeOnComplete, removeOnFail), so both are growing sequences and an  *)
(* _id is an index into them; index 0 is "no document".                    *)
(***************************************************************************)
EXTENDS Naturals, Sequences, FiniteSets

CONSTANTS
    Events,        \* identifiers under which webhooks are stored
    Rules,         \* what the documents of the tenant's rules may hold
    RuleId,        \* RuleId[r]: the _id of r's document; several r share one, for
                   \* PATCH replaces what a document holds
    Matches,       \* Matches[e]: rules whose trigger and conditions e meets
    Orders,        \* Orders[r]: the "order" fields of r's actions, sorted
    SchemaRejects, \* pairs <<r, e>> where e's payload breaks r's payloadSchema
    Outcomes,      \* Outcomes[<<e, r>>][k]: what r's k-th action may come to for e
    Workers,       \* the slots of the worker (its option concurrency)
    MaxAttempts,   \* job option attempts (maxRetries of the event)
    MaxStalled,    \* worker option maxStalledCount
    Budget,        \* Budget[m]: how many mishaps of kind m may happen
    None           \* no worker, no rule

RuleIds == {RuleId[r] : r \in Rules}

\* What may go wrong, or be changed by an administrator, while the engine runs.
Mishaps == {"crash", "lockLost", "dbFault", "queueFault", "noticeLost",
            "suspend", "ruleEdit"}

\* What the processor tells apart of an action's result.
Outcome == {"success", "retryable", "permanent"}

ASSUME StoreAssumption ==
    /\ DOMAIN RuleId = Rules
    /\ Matches \in [Events -> SUBSET Rules]
    /\ Orders \in [Rules -> Seq(Nat)]
    /\ SchemaRejects \subseteq Rules \X Events
    /\ Outcomes \in [Events \X Rules -> Seq((SUBSET Outcome) \ {{}})]
    /\ \A e \in Events, r \in Rules : Len(Outcomes[<<e, r>>]) = Len(Orders[r])
    /\ MaxAttempts \in Nat \ {0}
    /\ MaxStalled \in Nat
    /\ Budget \in [Mishaps -> Nat]
    /\ None \notin Workers \cup Rules

VARIABLES
    tenantActive,  \* tenant.status = 'active'
    activeRules,   \* what the rules whose status is 'active' hold
    events,        \* event -> status of its document, or "absent"
    executions,    \* the executions collection, in order of creation
    jobs,          \* webhook-queue, in order of Queue.add
    failedStream,  \* jobs whose 'failed' QueueEvent is not yet delivered
    mishaps        \* mishap -> how many times it has happened

adminVars == <<tenantActive, activeRules>>
queueVars == <<jobs, failedStream>>
storeVars == <<tenantActive, activeRules, events, executions, jobs,
               failedStream, mishaps>>

EventStatus == {"absent", "pending", "processing", "completed", "failed"}
ExecutionStatus == {"queued", "processing", "retrying", "completed", "failed"}

\* ok: the orders with a step {actionIndex, status: 'success'}.  Failed steps
\* are appended by the code too, but nothing it does depends on them.
\* ranAs: history, what the rule held whenever a call ran the execution.
Execution == [event: Events, rule: RuleIds, status: ExecutionStatus, ok: SUBSET Nat,
              ranAs: SUBSET Rules]

\* waiting covers BullMQ's wait and delayed.  made: attemptsMade.  owner: the
\* slot whose lock token the job carries.
Job == [event: Events, origin: {"ingest", "replay"},
        state: {"waiting", "active", "completed", "failed"},
        made: Nat, stalls: Nat, owner: Workers \cup {None}]

StoreTypeOK ==
    /\ tenantActive \in BOOLEAN
    /\ activeRules \in SUBSET Rules
    /\ events \in [Events -> EventStatus]
    /\ executions \in Seq(Execution)
    /\ jobs \in Seq(Job)
    /\ failedStream \in SUBSET DOMAIN jobs
    /\ mishaps \in [Mishaps -> Nat]

\* One document for each _id.
RuleCollections ==
    {rules \in SUBSET Rules :
        \A i \in RuleIds : \E r \in rules : {s \in rules : RuleId[s] = i} = {r}}

StoreInit ==
    /\ tenantActive = TRUE
    /\ activeRules \in RuleCollections
    /\ events = [e \in Events |-> "absent"]
    /\ executions = <<>>
    /\ jobs = <<>>
    /\ failedStream = {}
    /\ mishaps = [m \in Mishaps |-> 0]

\* A mishap happens; Budget bounds how often.
Suffer(m) ==
    /\ mishaps[m] < Budget[m]
    /\ mishaps' = [mishaps EXCEPT ![m] = @ + 1]

-----------------------------------------------------------------------------
(* ExecutionsService *)

StartExecution(e, r, status) ==
    executions' = Append(executions,
                    [event |-> e, rule |-> RuleId[r], status |-> status, ok |-> {},
                     ranAs |-> {r}])

\* Mutant: a retrying execution is not looked up, so its rule starts anew.
FindExecutionsMissesRetrying(e, r) ==
    {x \in DOMAIN executions : /\ executions[x].event = e
                               /\ executions[x].rule = RuleId[r]
                               /\ executions[x].status # "retrying"}

\* No index makes (rule, event) unique, and findOne gives no order: any of these.
FindExecutions(e, r) ==
    {x \in DOMAIN executions : executions[x].event = e /\ executions[x].rule = RuleId[r]}

AddSuccessStep(x, order) ==
    executions' = [executions EXCEPT ![x].ok = @ \cup {order}]

CompleteExecution(x, status) ==
    executions' = [executions EXCEPT ![x].status = status]

\* completeExecution(..., 'processing'), for a rule that holds r by now.
ResumeExecution(x, r) ==
    executions' = [executions EXCEPT ![x].status = "processing", ![x].ranAs = @ \cup {r}]

\* Mutants: the filter on status is missing; it names 'queued' alone.
FailAllExecutions(e) ==
    executions' = [x \in DOMAIN executions |->
                    IF executions[x].event = e
                    THEN [executions[x] EXCEPT !.status = "failed"]
                    ELSE executions[x]]

FailQueuedExecutions(e) ==
    executions' = [x \in DOMAIN executions |->
                    IF executions[x].event = e /\ executions[x].status = "queued"
                    THEN [executions[x] EXCEPT !.status = "failed"]
                    ELSE executions[x]]

FailActiveExecutions(e) ==
    executions' =
        [x \in DOMAIN executions |->
            IF /\ executions[x].event = e
               /\ executions[x].status \in {"queued", "processing"}
            THEN [executions[x] EXCEPT !.status = "failed"]
            ELSE executions[x]]

-----------------------------------------------------------------------------
(* BullMQ, as the code uses it *)

AddJob(e, origin) ==
    /\ jobs' = Append(jobs, [event |-> e, origin |-> origin, state |-> "waiting",
                             made |-> 0, stalls |-> 0, owner |-> None])
    /\ UNCHANGED failedStream

TakeJob(j, w) ==
    /\ jobs[j].state = "waiting"
    /\ jobs' = [jobs EXCEPT ![j].state = "active", ![j].owner = w]
    /\ UNCHANGED failedStream

HoldsLock(w, j) == jobs[j].state = "active" /\ jobs[j].owner = w

CompleteJob(j) ==
    /\ jobs' = [jobs EXCEPT ![j].state = "completed", ![j].owner = None]
    /\ UNCHANGED failedStream

\* Back to delayed while attempts are left and the job is not discarded; only
\* the final failure publishes the 'failed' event.
FailJob(j, discarded) ==
    LET retry == jobs[j].made + 1 < MaxAttempts /\ ~discarded
    IN /\ jobs' = [jobs EXCEPT ![j].state = IF retry THEN "waiting" ELSE "failed",
                               ![j].made = @ + 1,
                               ![j].owner = None]
       /\ failedStream' = IF retry THEN failedStream ELSE failedStream \cup {j}

\* Mutants: locks expire before they are renewed; a job past maxStalledCount is
\* left where it is.
StallLockedJob(j) ==
    /\ jobs[j].state = "active"
    /\ jobs[j].stalls < MaxStalled
    /\ jobs' = [jobs EXCEPT ![j].state = "waiting", ![j].stalls = @ + 1]
    /\ UNCHANGED <<failedStream, adminVars, events, executions, mishaps>>

StallJobForgets(j) ==
    /\ jobs[j].state = "active"
    /\ jobs[j].owner = None
    /\ jobs[j].stalls < MaxStalled
    /\ jobs' = [jobs EXCEPT ![j].state = "waiting", ![j].stalls = @ + 1]
    /\ UNCHANGED <<failedStream, adminVars, events, executions, mishaps>>

\* The stalled-job check finds an active job whose lock has expired.
StallJob(j) ==
    /\ jobs[j].state = "active"
    /\ jobs[j].owner = None
    /\ LET again == jobs[j].stalls < MaxStalled
       IN /\ jobs' = [jobs EXCEPT ![j].state = IF again THEN "waiting" ELSE "failed",
                                  ![j].stalls = @ + 1]
          /\ failedStream' = IF again THEN failedStream ELSE failedStream \cup {j}
    /\ UNCHANGED <<adminVars, events, executions, mishaps>>

\* A slot's lock is not renewed in time (a blocked event loop, a Redis outage);
\* its processor function runs on.
LoseLock(w, j) ==
    /\ HoldsLock(w, j)
    /\ Suffer("lockLost")
    /\ jobs' = [jobs EXCEPT ![j].owner = None]
    /\ UNCHANGED <<adminVars, events, executions, failedStream>>

=============================================================================
