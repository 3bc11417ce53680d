---------------------------- MODULE WebhookEngine ----------------------------
(***************************************************************************)
(* The running backend: one Node process that serves HTTP requests, runs   *)
(* the webhook-queue worker and listens to its QueueEvents, all over one   *)
(* MongoDB database and one Redis.                                         *)
(***************************************************************************)
EXTENDS Ingestion, WebhookProcessor, FailedReplay, QueueEventsListener

vars == <<storeVars, ingestionVars, processorVars, replayVars, listenerVars>>

TypeOK ==
    /\ StoreTypeOK
    /\ IngestionTypeOK
    /\ ProcessorTypeOK
    /\ ReplayTypeOK
    /\ ListenerTypeOK

Init ==
    /\ StoreInit
    /\ IngestionInit
    /\ ProcessorInit
    /\ ReplayInit
    /\ ListenerInit

-----------------------------------------------------------------------------
(* Administration, and what happens to the process and its queue *)

\* PATCH /tenants/:id with status suspended, or DELETE.  There is no way back
\* through the API: the middleware turns the suspended tenant away.
SuspendTenant ==
    /\ tenantActive
    /\ Suffer("suspend")
    /\ tenantActive' = FALSE
    /\ UNCHANGED <<activeRules, events, executions, queueVars>>

\* POST, PATCH or DELETE of a rule: it may hold anything from then on, other
\* actions and conditions included, and be active or not.
EditRule(r) ==
    /\ tenantActive
    /\ Suffer("ruleEdit")
    /\ LET others == {s \in activeRules : RuleId[s] # RuleId[r]}
       IN activeRules' \in {others, others \cup {r}} \ {activeRules}
    /\ UNCHANGED <<tenantActive, events, executions, queueVars>>

\* The process dies and is started again.  The databases keep what they have:
\* a job that was active stays so, with a lock nobody renews.
Crash ==
    /\ Suffer("crash")
    /\ request' = [q \in Requests |-> IF InProgress(q) THEN "lost" ELSE request[q]]
    /\ replay' = [p \in Replays |-> IF Replaying(p) THEN [replay[p] EXCEPT !.pc = "lost"]
                                                    ELSE replay[p]]
    /\ frame' = [w \in Workers |-> IdleFrame]
    /\ jobs' = [j \in DOMAIN jobs |-> [jobs[j] EXCEPT !.owner = None]]
    /\ failedStream' = {}
    /\ recovering' = {}
    /\ UNCHANGED <<adminVars, events, executions, performed>>

-----------------------------------------------------------------------------
Ingest == IngestionNext /\ UNCHANGED <<processorVars, replayVars, listenerVars>>

Work == ProcessorNext /\ UNCHANGED <<ingestionVars, replayVars, listenerVars>>

Replay == ReplayNext /\ UNCHANGED <<ingestionVars, processorVars, listenerVars>>

Listen == ListenerNext /\ UNCHANGED <<ingestionVars, processorVars, replayVars>>

Administer ==
    /\ SuspendTenant \/ \E r \in Rules : EditRule(r)
    /\ UNCHANGED <<ingestionVars, processorVars, replayVars, listenerVars>>

Manage ==
    /\ \/ \E j \in DOMAIN jobs : StallJob(j)
       \/ \E w \in Workers, j \in DOMAIN jobs : LoseLock(w, j)
    /\ UNCHANGED <<ingestionVars, processorVars, replayVars, listenerVars>>

Next == Ingest \/ Work \/ Replay \/ Listen \/ Administer \/ Manage \/ Crash

Spec == Init /\ [][Next]_vars

(***************************************************************************)
(* Fairness.  A call that has started goes on to its next await; a free    *)
(* slot takes a waiting job; the stalled-job check runs on a timer; a      *)
(* published event reaches a listener that is connected.  Nothing is       *)
(* assumed of clients, administrators, faults, or of how actions turn out. *)
(***************************************************************************)
WorkOn(w) == ProcessorStep(w) /\ UNCHANGED <<ingestionVars, replayVars, listenerVars>>

TakeWork(w) ==
    /\ \E j \in DOMAIN jobs : PickUp(w, j)
    /\ UNCHANGED <<ingestionVars, replayVars, listenerVars>>

CheckStalled ==
    /\ \E j \in DOMAIN jobs : StallJob(j)
    /\ UNCHANGED <<ingestionVars, processorVars, replayVars, listenerVars>>

HandleNotice ==
    /\ \E j \in DOMAIN jobs : ListenerStep(j)
    /\ UNCHANGED <<ingestionVars, processorVars, replayVars>>

ServeRequest(q) ==
    /\ InProgress(q)
    /\ SaveEvent(q) \/ SaveDuplicate(q) \/ ReturnExisting(q) \/ Enqueue(q)
    /\ UNCHANGED <<processorVars, replayVars, listenerVars>>

ServeReplay(p) ==
    /\ SaveHistory(p) \/ ResetExecution(p) \/ Requeue(p)
    /\ UNCHANGED <<ingestionVars, processorVars, listenerVars>>

Fairness ==
    /\ \A w \in Workers : WF_vars(WorkOn(w)) /\ WF_vars(TakeWork(w))
    /\ WF_vars(CheckStalled)
    /\ WF_vars(HandleNotice)
    /\ \A q \in Requests : WF_vars(ServeRequest(q))
    /\ \A p \in Replays : WF_vars(ServeReplay(p))

FairSpec == Spec /\ Fairness

=============================================================================
