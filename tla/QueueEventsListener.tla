------------------------- MODULE QueueEventsListener -------------------------
(***************************************************************************)
(* WebhookQueueEventsListener.onFailed: when BullMQ reports that a job has *)
(* failed for good, an event still in processing and the executions still  *)
(* queued or processing are failed, by two updates with an await between.  *)
(***************************************************************************)
EXTENDS EngineStore

VARIABLE recovering \* jobs whose handler is between its two updates

listenerVars == <<recovering>>

ListenerTypeOK == recovering \in SUBSET DOMAIN jobs

ListenerInit == recovering = {}

Deliver(j) == failedStream' = failedStream \ {j}

\* Mutant: the update looks for events that no worker has taken.
FailPendingEvent(j) ==
    /\ j \in failedStream
    /\ Deliver(j)
    /\ events' = [events EXCEPT ![jobs[j].event] =
                    IF @ = "pending" THEN "failed" ELSE @]
    /\ recovering' = recovering \cup {j}
    /\ UNCHANGED <<adminVars, executions, jobs, mishaps>>

\* updateOne({ _id: eventId, status: 'processing' }, { status: 'failed' })
FailEvent(j) ==
    /\ j \in failedStream
    /\ Deliver(j)
    /\ events' = [events EXCEPT ![jobs[j].event] =
                    IF @ = "processing" THEN "failed" ELSE @]
    /\ recovering' = recovering \cup {j}
    /\ UNCHANGED <<adminVars, executions, jobs, mishaps>>

FailExecutions(j) ==
    /\ j \in recovering
    /\ FailActiveExecutions(jobs[j].event)
    /\ recovering' = recovering \ {j}
    /\ UNCHANGED <<adminVars, events, queueVars, mishaps>>

\* The stream is read from its end, so an event published while the listener is
\* disconnected never arrives.
LoseNotice(j) ==
    /\ j \in failedStream
    /\ Suffer("noticeLost")
    /\ Deliver(j)
    /\ UNCHANGED <<adminVars, events, executions, jobs, recovering>>

\* getJob or an update rejects: the catch block logs and gives up.
ListenerFault(j) ==
    /\ j \in failedStream \cup recovering
    /\ Suffer("dbFault")
    /\ Deliver(j)
    /\ recovering' = recovering \ {j}
    /\ UNCHANGED <<adminVars, events, executions, jobs>>

ListenerStep(j) == FailEvent(j) \/ FailExecutions(j)

ListenerNext ==
    \E j \in DOMAIN jobs : ListenerStep(j) \/ LoseNotice(j) \/ ListenerFault(j)

=============================================================================
