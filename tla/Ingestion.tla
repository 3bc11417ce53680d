------------------------------ MODULE Ingestion ------------------------------
(***************************************************************************)
(* POST /webhooks/:source.  A request passes TenantMiddleware and the      *)
(* checks of ingestRawWebhook, inserts its event under a unique index,     *)
(* and, only if the insert was the first, adds a job to the queue.  Every  *)
(* await is a step of its own, so requests for one event interleave.       *)
(***************************************************************************)
EXTENDS EngineStore

CONSTANTS
    Requests,  \* HTTP requests, a provider's repeated deliveries included
    EventOf    \* EventOf[q]: the identifier getDeterministicEventId gives q

ASSUME IngestionAssumption == EventOf \in [Requests -> Events]

VARIABLE request \* request -> how far it got

ingestionVars == <<request>>

\* created and known are the two ways to answer 200, error is 500, refused
\* 400, 401 or 403; a lost request is cut off by a crash.
RequestState == {"idle", "admitted", "stored", "duplicate",
                 "created", "known", "refused", "error", "lost"}

InProgress(q) == request[q] \in {"admitted", "stored", "duplicate"}

IngestionTypeOK == request \in [Requests -> RequestState]

IngestionInit == request = [q \in Requests |-> "idle"]

Answer(q, state) == request' = [request EXCEPT ![q] = state]

\* The middleware finds the tenant active.
Admit(q) ==
    /\ request[q] = "idle"
    /\ tenantActive
    /\ Answer(q, "admitted")
    /\ UNCHANGED storeVars

\* TenantMiddleware or TenantGuard turns the request away: no such tenant, a
\* malformed identifier, or a tenant that is not active.
Refuse(q) ==
    /\ request[q] = "idle"
    /\ Answer(q, "refused")
    /\ UNCHANGED storeVars

\* verifySignature finds the signature wrong, or the payload is malformed, or
\* the schema of WebhookEvent rejects a field: nothing is stored.
RejectDelivery(q) ==
    /\ request[q] = "admitted"
    /\ Answer(q, "refused")
    /\ UNCHANGED storeVars

\* Mutants: no unique index; the 200 is sent when the event is saved.
SaveEventNoIndex(q) ==
    /\ request[q] = "admitted"
    /\ events' = [events EXCEPT ![EventOf[q]] = "pending"]
    /\ Answer(q, "stored")
    /\ UNCHANGED <<adminVars, executions, queueVars, mishaps>>

SaveEventAnswers(q) ==
    /\ request[q] = "admitted"
    /\ events[EventOf[q]] = "absent"
    /\ events' = [events EXCEPT ![EventOf[q]] = "pending"]
    /\ Answer(q, "created")
    /\ UNCHANGED <<adminVars, executions, queueVars, mishaps>>

\* event.save() succeeds: the unique index held no such identifier.
SaveEvent(q) ==
    /\ request[q] = "admitted"
    /\ events[EventOf[q]] = "absent"
    /\ events' = [events EXCEPT ![EventOf[q]] = "pending"]
    /\ Answer(q, "stored")
    /\ UNCHANGED <<adminVars, executions, queueVars, mishaps>>

\* event.save() throws error 11000.
SaveDuplicate(q) ==
    /\ request[q] = "admitted"
    /\ events[EventOf[q]] # "absent"
    /\ Answer(q, "duplicate")
    /\ UNCHANGED storeVars

ReturnExisting(q) ==
    /\ request[q] = "duplicate"
    /\ events[EventOf[q]] # "absent"
    /\ Answer(q, "known")
    /\ UNCHANGED storeVars

Enqueue(q) ==
    /\ request[q] = "stored"
    /\ AddJob(EventOf[q], "ingest")
    /\ Answer(q, "created")
    /\ UNCHANGED <<adminVars, events, executions, mishaps>>

\* Queue.add rejects, before or after Redis has the job: 500 either way.
EnqueueFault(q) ==
    /\ request[q] = "stored"
    /\ Suffer("queueFault")
    /\ AddJob(EventOf[q], "ingest") \/ UNCHANGED queueVars
    /\ Answer(q, "error")
    /\ UNCHANGED <<adminVars, events, executions>>

\* event.save() or the findOne of a duplicate rejects with another error.
SaveFault(q) ==
    /\ request[q] \in {"admitted", "duplicate"}
    /\ Suffer("dbFault")
    /\ Answer(q, "error")
    /\ UNCHANGED <<adminVars, events, executions, queueVars>>

IngestionNext ==
    \E q \in Requests :
        \/ Admit(q) \/ Refuse(q) \/ RejectDelivery(q)
        \/ SaveEvent(q) \/ SaveDuplicate(q) \/ ReturnExisting(q)
        \/ Enqueue(q) \/ EnqueueFault(q) \/ SaveFault(q)

=============================================================================
