--------------------------- MODULE ProcessingProofs ---------------------------
(***************************************************************************)
(* A webhook gets one job: at most one, however often it is delivered, and *)
(* at least one once its sender was told 200 and no request was cut off.   *)
(* What is completed has been performed, and nobody processes one event    *)
(* twice at a time.                                                        *)
(***************************************************************************)
EXTENDS WebhookEngineProofs

-----------------------------------------------------------------------------
(* OneIngestJob *)

\* Ingest jobs are those there were, unless a request has just added its own.
LEMMA IngestJobsStep ==
    ASSUME TypeInv, [Next]_vars
    PROVE  \/ \A e \in Events : IngestJobs(e)' = IngestJobs(e)
           \/ \E q \in Requests, n \in Nat :
                 /\ Enqueue(q) \/ EnqueueFault(q)
                 /\ Ingest
                 /\ \A e \in Events :
                       IngestJobs(e)' = IngestJobs(e) \cup (IF e = EventOf[q] THEN {n} ELSE {})
<1>1. ASSUME JobsMove
      PROVE  \A e \in Events : IngestJobs(e)' = IngestJobs(e)
  BY <1>1 DEF JobsMove, JobsGrow, IngestJobs
<1>2. ASSUME NEW p \in Replays, Replaying(p), AddJob(ReplayedEvent(p), "replay")
      PROVE  \A e \in Events : IngestJobs(e)' = IngestJobs(e)
  BY <1>2, ReplayAdds DEF JobsGrow, IngestJobs
<1>3. ASSUME NEW q \in Requests, AddJob(EventOf[q], "ingest")
      PROVE  \E n \in Nat : \A e \in Events :
                IngestJobs(e)' = IngestJobs(e) \cup (IF e = EventOf[q] THEN {n} ELSE {})
  <2> DEFINE n == Len(jobs) + 1
  <2>1. n \in Nat
    BY LenProperties DEF TypeInv, TypeOK, StoreTypeOK
  <2>2. /\ JobsGrow
        /\ DOMAIN jobs' = DOMAIN jobs \cup {n}
        /\ jobs'[n].event = EventOf[q] /\ jobs'[n].origin = "ingest"
    BY <1>3, IngestAdds
  <2>3. n \notin DOMAIN jobs
    BY LenProperties DEF TypeInv, TypeOK, StoreTypeOK
  <2> HIDE DEF n
  <2>4. \A e \in Events :
           IngestJobs(e)' = IngestJobs(e) \cup (IF e = EventOf[q] THEN {n} ELSE {})
    BY <2>2, <2>3 DEF JobsGrow, IngestJobs
  <2> QED
    BY <2>1, <2>4
<1> QED
  BY <1>1, <1>2, <1>3, JobWrites, OtherJobWrites, Unchanged DEF Enqueue

\* Events never go back to absent, and only SaveEvent ends a request's wait to
\* be stored.
LEMMA EventsStay ==
    ASSUME TypeInv, [Next]_vars
    PROVE  /\ \A e \in Events : events[e] # "absent" => events'[e] # "absent"
           /\ \A q \in Requests : Stored(q)' => Stored(q) \/ SaveEvent(q)
           /\ \A q \in Requests : SaveEvent(q) =>
                 /\ events[EventOf[q]] = "absent"
                 /\ events' = [events EXCEPT ![EventOf[q]] = "pending"]
                 /\ \A o \in Requests : o # q => (Stored(o)' => Stored(o))
<1>0. events \in [Events -> EventStatus] /\ request \in [Requests -> RequestState]
  BY DEF TypeInv, TypeOK, StoreTypeOK, IngestionTypeOK
<1>1. CASE Ingest
  BY <1>0, <1>1 DEF Ingest, IngestionNext, Stored, Answer, Admit, Refuse, RejectDelivery, SaveEvent,
       SaveDuplicate, ReturnExisting, Enqueue, EnqueueFault, SaveFault, storeVars
<1>2. CASE ~Ingest
  <2>1. \A e \in Events : events[e] # "absent" => events'[e] # "absent"
    <3>1. CASE Work
      BY <1>0, <3>1 DEF Work, ProcessorNext, ProcessorStep, PickUp, DbFault, LockEvent,
           SkipEvent, CheckTenant, LoadRules, FindExecution, StartNew, Resume, SkipAction,
           PerformAction, FailAction, LogSuccess, LogFailure, FinishExecution,
           MarkExecution, CompleteEvent, RevertEvent, Settle, storeVars
    <3>2. CASE Listen
      BY <1>0, <3>2 DEF Listen, ListenerNext, ListenerStep, FailEvent, FailExecutions,
           LoseNotice, ListenerFault
    <3>3. CASE events' = events
      BY <3>3
    <3> QED
      BY <1>2, <3>1, <3>2, <3>3 DEF Next, Replay, ReplayNext, CheckFailed, SaveHistory,
           RefuseReason, ResetExecution, Requeue, ReplayFault, Administer, SuspendTenant,
           EditRule, Manage, StallJob, LoseLock, Crash, storeVars, vars
  <2>2. \A q \in Requests : request'[q] = request[q] \/ request'[q] = "lost"
    BY <1>2 DEF Next, Work, Replay, Listen, Administer, Manage, Crash, ingestionVars, vars
  <2> QED
    BY <2>1, <2>2 DEF Stored, SaveEvent, Answer
<1> QED
  BY <1>1, <1>2

\* The unique index lets one request per event through to Queue.add.
LEMMA IngestStep == TypeInv /\ IngestInv /\ [Next]_vars => IngestInv'
<1> SUFFICES ASSUME TypeInv, IngestInv, [Next]_vars
             PROVE  IngestInv'
  OBVIOUS
<1>0. request \in [Requests -> RequestState] /\ EventOf \in [Requests -> Events]
  BY IngestionAssumption DEF TypeInv, TypeOK, IngestionTypeOK
<1>1. CASE \A e \in Events : IngestJobs(e)' = IngestJobs(e)
  <2>1. OneIngestJob'
    BY <1>1 DEF IngestInv, OneIngestJob
  <2>2. \A e \in Events : events'[e] = "absent" => IngestJobs(e)' = {}
    BY <1>1, EventsStay DEF IngestInv
  <2>3. ASSUME NEW q \in Requests, Stored(q)'
        PROVE  /\ events'[EventOf[q]] # "absent"
               /\ IngestJobs(EventOf[q])' = {}
               /\ \A o \in Requests : Stored(o)' /\ EventOf[o] = EventOf[q] => o = q
    <3>1. CASE \E o \in Requests : SaveEvent(o)
      <4> PICK o \in Requests : SaveEvent(o)
        BY <3>1
      <4>1. /\ events[EventOf[o]] = "absent" /\ events'[EventOf[o]] = "pending"
            /\ \A r \in Requests : r # o => (Stored(r)' => Stored(r))
        BY <1>0, EventsStay DEF TypeInv, TypeOK, StoreTypeOK
      <4>2. \A r \in Requests : Stored(r) => EventOf[r] # EventOf[o]
        BY <4>1 DEF IngestInv
      <4>3. IngestJobs(EventOf[q])' = {} /\ events'[EventOf[q]] # "absent"
        BY <1>0, <1>1, <2>3, <4>1, EventsStay DEF IngestInv
      <4> QED
        BY <2>3, <4>1, <4>2, <4>3 DEF IngestInv
    <3>2. CASE ~\E o \in Requests : SaveEvent(o)
      BY <1>0, <1>1, <2>3, <3>2, EventsStay DEF IngestInv
    <3> QED
      BY <3>1, <3>2
  <2> QED
    BY <2>1, <2>2, <2>3 DEF IngestInv
<1>2. ASSUME NEW q \in Requests, NEW n \in Nat, Ingest, Enqueue(q) \/ EnqueueFault(q),
             \A e \in Events :
                 IngestJobs(e)' = IngestJobs(e) \cup (IF e = EventOf[q] THEN {n} ELSE {})
      PROVE  IngestInv'
  <2>1. /\ Stored(q) /\ events' = events
        /\ \A o \in Requests : Stored(o)' => Stored(o) /\ o # q
    BY <1>0, <1>2 DEF Enqueue, EnqueueFault, Answer, Stored
  <2>2. \A e \in Events : e # EventOf[q] => IngestJobs(e)' = IngestJobs(e)
    BY <1>2
  <2>3. IngestJobs(EventOf[q])' = {n}
    BY <1>0, <1>2, <2>1 DEF IngestInv
  <2>4. OneIngestJob'
    BY <2>2, <2>3 DEF IngestInv, OneIngestJob
  <2>5. \A e \in Events : events'[e] = "absent" => IngestJobs(e)' = {}
    BY <2>1, <2>2 DEF IngestInv
  <2>6. \A o \in Requests : Stored(o)' =>
           /\ EventOf[o] # EventOf[q]
           /\ events'[EventOf[o]] # "absent" /\ IngestJobs(EventOf[o])' = {}
           /\ \A r \in Requests : Stored(r)' /\ EventOf[r] = EventOf[o] => r = o
    BY <1>0, <2>1, <2>2 DEF IngestInv
  <2> QED
    BY <2>4, <2>5, <2>6 DEF IngestInv
<1> QED
  BY <1>1, <1>2, IngestJobsStep

\* However the deliveries of a webhook interleave, fail and are repeated, one
\* of them at most adds a job for its event.
THEOREM AtMostOneIngestJob == Spec => []OneIngestJob
<1>1. Init => IngestInv
  BY DEF Init, StoreInit, IngestionInit, IngestInv, OneIngestJob, IngestJobs, Stored
<1>2. IngestInv => OneIngestJob
  BY DEF IngestInv
<1> QED
  BY <1>1, <1>2, IngestStep, ReferencesExist, PTL DEF Spec

-----------------------------------------------------------------------------
(* AcknowledgedIsQueued *)

\* An event enters the collection by SaveEvent alone: whoever else writes an
\* event has a job, and so the event is there.
LEMMA EventsAppear ==
    ASSUME TypeInv, AcknowledgedInv, [Next]_vars, NEW e \in Events,
           events[e] = "absent", events'[e] # "absent"
    PROVE  \E q \in Requests : SaveEvent(q) /\ EventOf[q] = e
<1>0. events \in [Events -> EventStatus]
  BY DEF TypeInv, TypeOK, StoreTypeOK
<1>1. CASE Ingest
  BY <1>0, <1>1 DEF Ingest, IngestionNext, Admit, Refuse, RejectDelivery, SaveEvent, SaveDuplicate,
     ReturnExisting, Enqueue, EnqueueFault, SaveFault, storeVars
<1>2. ASSUME NEW w \in Workers, LockEvent(w) \/ CompleteEvent(w) \/ RevertEvent(w)
      PROVE  FALSE
  <2>1. events[EventAt(w)] # "absent" /\ EventAt(w) \in Events
    BY <1>2, SlotFacts DEF AcknowledgedInv, EventAt, LockEvent, CompleteEvent, RevertEvent
  <2>2. e # EventAt(w)
    BY <2>1
  <2> QED
    BY <1>0, <1>2, <2>2 DEF LockEvent, CompleteEvent, RevertEvent
<1>3. CASE Listen
  BY <1>0, <1>3 DEF Listen, ListenerNext, ListenerStep, FailEvent, FailExecutions,
     LoseNotice, ListenerFault
<1>4. CASE Work
  BY <1>2, <1>4 DEF Work, ProcessorNext, ProcessorStep, PickUp, DbFault, SkipEvent,
     CheckTenant, LoadRules, FindExecution, StartNew, Resume, SkipAction, PerformAction,
     FailAction, LogSuccess, LogFailure, FinishExecution, MarkExecution, Settle, storeVars
<1>5. CASE ~Ingest /\ ~Work /\ ~Listen
  BY <1>5 DEF Next, Replay, ReplayNext, CheckFailed, SaveHistory, RefuseReason,
     ResetExecution, Requeue, ReplayFault, Administer, SuspendTenant, EditRule, Manage,
     StallJob, LoseLock, Crash, storeVars, vars
<1> QED
  BY <1>1, <1>3, <1>4, <1>5

\* What can have made a request stored, created or known, and what a stored one
\* goes on to.
LEMMA RequestMoves ==
    ASSUME TypeInv, [Next]_vars, NEW q \in Requests
    PROVE  /\ request'[q] \in {"stored", "created", "known"} =>
                 \/ request'[q] = request[q]
                 \/ SaveEvent(q) \/ ReturnExisting(q) \/ Enqueue(q)
           /\ Stored(q) => Stored(q)' \/ Enqueue(q) \/ EnqueueFault(q) \/ Crash
<1>0. request \in [Requests -> RequestState]
  BY DEF TypeInv, TypeOK, IngestionTypeOK
<1>1. CASE Ingest
  BY <1>0, <1>1 DEF Ingest, IngestionNext, Stored, Answer, Admit, Refuse, RejectDelivery, SaveEvent,
     SaveDuplicate, ReturnExisting, Enqueue, EnqueueFault, SaveFault
<1>2. CASE Crash
  BY <1>0, <1>2 DEF Crash
<1>3. CASE ~Ingest /\ ~Crash
  BY <1>3 DEF Next, Work, Replay, Listen, Administer, Manage, ingestionVars, vars, Stored
<1> QED
  BY <1>1, <1>2, <1>3

\* The documents and jobs that exist point to events that exist.
LEMMA EventsExist ==
    ASSUME TypeInv, AcknowledgedInv, [Next]_vars
    PROVE  /\ \A j \in DOMAIN jobs' : events'[jobs'[j].event] # "absent"
           /\ \A x \in DOMAIN executions' : events'[executions'[x].event] # "absent"
<1>1. /\ \A j \in DOMAIN jobs : jobs[j].event \in Events
      /\ \A x \in DOMAIN executions : executions[x].event \in Events
  BY Indices
<1>2. /\ \A j \in DOMAIN jobs : events'[jobs'[j].event] # "absent"
      /\ \A x \in DOMAIN executions : events'[executions'[x].event] # "absent"
  BY <1>1, NextGrows, EventsStay DEF AcknowledgedInv, JobsGrow, ExecutionsGrow
<1>3. \A j \in DOMAIN jobs' : events'[jobs'[j].event] # "absent"
  <2>1. ASSUME DOMAIN jobs' = DOMAIN jobs
        PROVE  \A j \in DOMAIN jobs' : events'[jobs'[j].event] # "absent"
    BY <1>2, <2>1
  <2>2. ASSUME NEW q \in Requests, Stored(q), AddJob(EventOf[q], "ingest")
        PROVE  \A j \in DOMAIN jobs' : events'[jobs'[j].event] # "absent"
    <3>1. events'[EventOf[q]] # "absent"
      BY <2>2, EventsStay, IngestionAssumption DEF AcknowledgedInv, Stored
    <3> QED
      BY <1>2, <2>2, <3>1, IngestAdds
  <2>3. ASSUME NEW p \in Replays, Replaying(p), AddJob(ReplayedEvent(p), "replay")
        PROVE  \A j \in DOMAIN jobs' : events'[jobs'[j].event] # "absent"
    <3>1. replay[p].exec \in DOMAIN executions /\ ReplayedEvent(p) \in Events
      BY <2>3, <1>1 DEF TypeInv, ReplayRefs, ReplayedEvent
    <3>2. events'[ReplayedEvent(p)] # "absent"
      BY <3>1, EventsStay DEF AcknowledgedInv, ReplayedEvent
    <3>3. /\ DOMAIN jobs' = DOMAIN jobs \cup {Len(jobs) + 1}
          /\ jobs'[Len(jobs) + 1].event = ReplayedEvent(p)
      BY <2>3, <3>1, AddJobEffect DEF TypeInv, TypeOK, StoreTypeOK
    <3> QED
      BY <1>2, <3>2, <3>3
  <2> QED
    BY <2>1, <2>2, <2>3, JobWrites, OtherJobWrites DEF Enqueue, EnqueueFault, Stored, JobsMove
<1>4. \A x \in DOMAIN executions' : events'[executions'[x].event] # "absent"
  <2>1. ASSUME NEW w \in Workers, StartNew(w)
        PROVE  \A x \in DOMAIN executions' : events'[executions'[x].event] # "absent"
    <3>1. /\ EventAt(w) \in Events /\ frame[w].rule \in Rules
          /\ frame[w].job \in DOMAIN jobs /\ "processing" \in ExecutionStatus
      BY <2>1, SlotFacts DEF StartNew, SlotRefs, InRule, ExecutionStatus
    <3>2. events'[EventAt(w)] # "absent"
      BY <3>1, EventsStay DEF AcknowledgedInv, EventAt
    <3>3. /\ DOMAIN executions' = DOMAIN executions \cup {Len(executions) + 1}
          /\ executions'[Len(executions) + 1] =
                [event |-> EventAt(w), rule |-> RuleId[frame[w].rule], status |-> "processing",
                 ok |-> {}, ranAs |-> {frame[w].rule}]
      BY <2>1, <3>1, StartExecutionEffect DEF StartNew, TypeInv, TypeOK, StoreTypeOK
    <3> QED
      BY <1>2, <3>2, <3>3
  <2>2. ASSUME DOMAIN executions' = DOMAIN executions
        PROVE  \A x \in DOMAIN executions' : events'[executions'[x].event] # "absent"
    BY <1>2, <2>2
  <2>3. (~\E w \in Workers : StartNew(w)) => DOMAIN executions' = DOMAIN executions
    BY ExecutionWrites DEF Resume, ResumeExecution, LogSuccess, FinishExecution, MarkExecution,
       ResetExecution, FailExecutions, CompleteExecution, AddSuccessStep, FailActiveExecutions
  <2> QED
    BY <2>1, <2>2, <2>3
<1> QED
  BY <1>3, <1>4

\* What AcknowledgedIsQueued rests on holds of every state.
LEMMA AcknowledgedHolds == Spec => []AcknowledgedInv
<1>1. Init => AcknowledgedInv
  BY DEF Init, StoreInit, IngestionInit, AcknowledgedInv
<1>2. TypeInv /\ AcknowledgedInv /\ [Next]_vars => AcknowledgedInv'
  <2> SUFFICES ASSUME TypeInv, AcknowledgedInv, [Next]_vars
               PROVE  AcknowledgedInv'
    OBVIOUS
  <2>1. ASSUME NEW q \in Requests, request'[q] \in {"stored", "created", "known"}
        PROVE  events'[EventOf[q]] # "absent"
    <3>1. EventOf[q] \in Events /\ events \in [Events -> EventStatus]
      BY IngestionAssumption DEF TypeInv, TypeOK, StoreTypeOK
    <3>2. CASE SaveEvent(q)
      BY <3>1, <3>2 DEF SaveEvent
    <3>3. CASE ~SaveEvent(q)
      <4>1. events[EventOf[q]] # "absent"
        BY <2>1, <3>3, RequestMoves DEF AcknowledgedInv, ReturnExisting, Enqueue
      <4> QED
        BY <3>1, <4>1, EventsStay
    <3> QED
      BY <3>2, <3>3
  <2>2. ASSUME mishaps'["crash"] = 0, mishaps'["queueFault"] = 0,
               NEW e \in Events, events'[e] # "absent"
        PROVE  IngestJobs(e)' # {} \/ \E o \in Requests : Stored(o)' /\ EventOf[o] = e
    <3>1. CASE events[e] = "absent"
      <4>1. PICK q \in Requests : SaveEvent(q) /\ EventOf[q] = e
        BY <2>2, <3>1, EventsAppear
      <4>2. Stored(q)'
        BY <4>1 DEF SaveEvent, Answer, Stored, TypeInv, TypeOK, IngestionTypeOK
      <4> QED
        BY <4>1, <4>2
    <3>2. CASE events[e] # "absent"
      <4>1. Calm({"crash", "queueFault"}) /\ ~Crash /\ ~\E q \in Requests : EnqueueFault(q)
        BY <2>2, MishapsCount DEF Calm, Mishaps
      <4>2. CASE IngestJobs(e) # {}
        BY <4>2, NextGrows DEF IngestJobs, JobsGrow
      <4>3. ASSUME NEW o \in Requests, Stored(o), EventOf[o] = e
            PROVE  IngestJobs(e)' # {} \/ Stored(o)'
        <5>1. CASE Enqueue(o)
          <6>1. /\ Len(jobs) + 1 \in DOMAIN jobs'
                /\ jobs'[Len(jobs) + 1].event = e
                /\ jobs'[Len(jobs) + 1].origin = "ingest"
            BY <4>3, <5>1, IngestAdds DEF Enqueue
          <6> QED
            BY <6>1 DEF IngestJobs
        <5>2. CASE ~Enqueue(o)
          BY <4>1, <4>3, <5>2, RequestMoves
        <5> QED
          BY <5>1, <5>2
      <4> QED
        BY <3>2, <4>1, <4>2, <4>3 DEF AcknowledgedInv
    <3> QED
      BY <3>1, <3>2
  <2> QED
    BY <2>1, <2>2, EventsExist DEF AcknowledgedInv, Calm
<1> QED
  BY <1>1, <1>2, ReferencesExist, PTL DEF Spec

\* A sender that was told 200 may forget the webhook: unless a request was cut
\* off between event.save() and Queue.add, by a crash or by Redis, its event
\* has a job or is about to get one.
THEOREM AcknowledgedStaysQueued == Spec => []AcknowledgedIsQueued
<1>1. AcknowledgedInv => AcknowledgedIsQueued
  <2> SUFFICES ASSUME AcknowledgedInv, Calm({"crash", "queueFault"}),
                      NEW q \in Requests, request[q] \in {"created", "known"}
               PROVE  \/ IngestJobs(EventOf[q]) # {}
                      \/ \E o \in Requests : request[o] = "stored" /\ EventOf[o] = EventOf[q]
    BY DEF AcknowledgedIsQueued
  <2>1. events[EventOf[q]] # "absent" /\ EventOf[q] \in Events
    BY IngestionAssumption DEF AcknowledgedInv
  <2> QED
    BY <2>1 DEF AcknowledgedInv, Stored
<1> QED
  BY <1>1, AcknowledgedHolds, PTL

-----------------------------------------------------------------------------
(* CompletedMeansPerformed *)

\* The site of an action an execution was run from exists.
LEMMA ExecutionSites ==
    ASSUME TypeInv, NEW x \in DOMAIN executions, NEW r \in executions[x].ranAs,
           NEW k \in 1..Len(Orders[r])
    PROVE  /\ <<executions[x].event, r, k>> \in Sites
           /\ performed[<<executions[x].event, r, k>>] \in Nat
<1>1. executions[x].event \in Events /\ r \in Rules
  BY Indices DEF Execution
<1>2. <<executions[x].event, r, k>> \in Sites
  BY <1>1, SiteOf
<1> QED
  BY <1>2 DEF TypeInv, TypeOK, ProcessorTypeOK

\* Logged steps stay true, because effects are never undone.
LEMMA StepsKept ==
    ASSUME TypeInv, [Next]_vars, NEW x \in DOMAIN executions, StepPerformed(x),
           executions'[x].ok = executions[x].ok
    PROVE  StepPerformed(x)'
<1>1. /\ executions'[x].event = executions[x].event
      /\ executions[x].ranAs \subseteq executions'[x].ranAs
  BY NextGrows DEF ExecutionsGrow
<1>2. ASSUME NEW o \in executions[x].ok
      PROVE  \E r \in executions[x].ranAs : \E k \in 1..Len(Orders[r]) :
                Orders[r][k] = o /\ performed'[<<executions[x].event, r, k>>] > 0
  <2>1. PICK r \in executions[x].ranAs : \E k \in 1..Len(Orders[r]) :
                Orders[r][k] = o /\ performed[<<executions[x].event, r, k>>] > 0
    BY DEF StepPerformed
  <2>2. PICK k \in 1..Len(Orders[r]) :
           Orders[r][k] = o /\ performed[<<executions[x].event, r, k>>] > 0
    BY <2>1
  <2> DEFINE site == <<executions[x].event, r, k>>
  <2>3. site \in Sites /\ performed[site] \in Nat
    BY ExecutionSites
  <2>4. TypeInv'
    BY NextTypes
  <2>5. performed'[site] \in Nat /\ performed'[site] >= performed[site]
    BY <2>3, <2>4, NextGrows DEF TypeInv, TypeOK, ProcessorTypeOK
  <2>6. performed'[site] > 0
    BY <2>2, <2>3, <2>5
  <2> QED
    BY <2>2, <2>6
<1> QED
  BY <1>1, <1>2 DEF StepPerformed

\* A completed execution keeps its steps.
LEMMA CompletedKept ==
    ASSUME TypeInv, [Next]_vars, NEW x \in DOMAIN executions, CompletedLogged(x),
           executions'[x].status = "completed" => executions[x].status = "completed"
    PROVE  CompletedLogged(x)'
BY NextGrows DEF ExecutionsGrow, CompletedLogged

\* What is logged has been performed, and what is completed is logged.
LEMMA ExecutionsPerformed ==
    ASSUME TypeInv, PerformedInv, [Next]_vars
    PROVE  \A x \in DOMAIN executions' : StepPerformed(x)' /\ CompletedLogged(x)'
<1>0. executions \in Seq(Execution) /\ \A x \in DOMAIN executions : StepPerformed(x) /\ CompletedLogged(x)
  BY DEF TypeInv, TypeOK, StoreTypeOK, PerformedInv
<1>1. ASSUME NEW w \in Workers, StartNew(w)
      PROVE  \A x \in DOMAIN executions' : StepPerformed(x)' /\ CompletedLogged(x)'
  <2>0. PICK n : n = Len(executions) + 1
    OBVIOUS
  <2>1. EventAt(w) \in Events /\ frame[w].rule \in Rules /\ "processing" \in ExecutionStatus
    BY <1>1, SlotFacts DEF StartNew, SlotRefs, InRule, ExecutionStatus
  <2>2. /\ DOMAIN executions' = DOMAIN executions \cup {n}
        /\ \A x \in DOMAIN executions : executions'[x] = executions[x]
        /\ executions'[n] = [event |-> EventAt(w), rule |-> RuleId[frame[w].rule],
                            status |-> "processing", ok |-> {}, ranAs |-> {frame[w].rule}]
    BY <1>0, <1>1, <2>0, <2>1, StartExecutionEffect DEF StartNew
  <2>3. executions'[n].status # "completed" /\ executions'[n].ok = {}
    BY <2>2
  <2>4. StepPerformed(n)' /\ CompletedLogged(n)'
    BY <2>3 DEF StepPerformed, CompletedLogged
  <2>5. \A x \in DOMAIN executions : StepPerformed(x)' /\ CompletedLogged(x)'
    BY <1>0, <2>2, StepsKept, CompletedKept
  <2> QED
    BY <2>2, <2>4, <2>5
<1>2. ASSUME NEW w \in Workers, Resume(w) \/ MarkExecution(w)
      PROVE  \A x \in DOMAIN executions' : StepPerformed(x)' /\ CompletedLogged(x)'
  <2>1. frame[w].exec \in DOMAIN executions
    BY <1>2, SlotFacts DEF Resume, MarkExecution, SlotRefs, InActions
  <2>2. \/ ResumeExecution(frame[w].exec, frame[w].rule) /\ frame[w].rule \in Rules
        \/ \E status \in {"retrying", "failed"} : CompleteExecution(frame[w].exec, status)
    BY <1>2, SlotFacts DEF Resume, MarkExecution, SlotRefs, InRule
  <2>3. /\ DOMAIN executions' = DOMAIN executions
        /\ executions'[frame[w].exec].status \in {"processing", "retrying", "failed"}
        /\ \A y \in DOMAIN executions :
              /\ executions'[y].ok = executions[y].ok
              /\ y # frame[w].exec => executions'[y] = executions[y]
    BY <1>0, <2>1, <2>2, CompleteExecutionEffect, ResumeExecutionEffect DEF ExecutionStatus
  <2> QED
    BY <1>0, <2>3, StepsKept, CompletedKept
<1>3. ASSUME NEW w \in Workers, LogSuccess(w)
      PROVE  \A x \in DOMAIN executions' : StepPerformed(x)' /\ CompletedLogged(x)'
  <2>0. PICK e : e = frame[w].exec
    OBVIOUS
  <2>1. /\ e \in DOMAIN executions /\ OrderAt(w) \in Nat
        /\ executions[e].event = EventAt(w) /\ frame[w].rule \in executions[e].ranAs
        /\ frame[w].at \in 1..Len(Orders[frame[w].rule])
        /\ performed[<<EventAt(w), frame[w].rule, frame[w].at>>] > 0
    BY <1>3, <2>0, SlotFacts, ActionFacts DEF LogSuccess, SlotRefs, InActions, PerformedInv, SlotProgress
  <2>2. /\ DOMAIN executions' = DOMAIN executions
        /\ executions'[e].ok = executions[e].ok \cup {OrderAt(w)}
        /\ \A y \in DOMAIN executions :
              /\ executions'[y].status = executions[y].status
              /\ y # e => executions'[y] = executions[y]
    BY <1>0, <1>3, <2>0, <2>1, AddSuccessStepEffect DEF LogSuccess
  <2>3. performed' = performed /\ executions'[e].event = executions[e].event
        /\ executions[e].ranAs \subseteq executions'[e].ranAs
    BY <1>3, <2>1, NextGrows DEF LogSuccess, ExecutionsGrow
  <2>4. ASSUME NEW o \in executions'[e].ok
        PROVE  \E r \in executions[e].ranAs : \E k \in 1..Len(Orders[r]) :
                  Orders[r][k] = o /\ performed[<<EventAt(w), r, k>>] > 0
    <3>1. CASE o \in executions[e].ok
      BY <1>0, <2>1, <3>1 DEF StepPerformed
    <3>2. CASE o = OrderAt(w)
      BY <2>1, <3>2 DEF OrderAt
    <3> QED
      BY <2>2, <3>1, <3>2
  <2>5. StepPerformed(e)'
    BY <2>1, <2>3, <2>4 DEF StepPerformed
  <2> QED
    BY <1>0, <2>2, <2>5, StepsKept, CompletedKept
<1>4. ASSUME NEW w \in Workers, FinishExecution(w)
      PROVE  \A x \in DOMAIN executions' : StepPerformed(x)' /\ CompletedLogged(x)'
  <2>0. PICK e : e = frame[w].exec
    OBVIOUS
  <2>1. /\ e \in DOMAIN executions /\ frame[w].rule \in executions[e].ranAs
        /\ frame[w].rule \in Rules /\ frame[w].at \in Nat
        /\ frame[w].at > Len(Orders[frame[w].rule])
        /\ \A k \in 1..(frame[w].at - 1) : Orders[frame[w].rule][k] \in executions[e].ok
    BY <1>4, <2>0, SlotFacts DEF FinishExecution, SlotRefs, InRule, InActions, AtLastAction,
       PerformedInv, SlotProgress, Frame
  <2>2. \A k \in 1..Len(Orders[frame[w].rule]) : Orders[frame[w].rule][k] \in executions[e].ok
    <3>1. Len(Orders[frame[w].rule]) \in Nat
      BY <2>1, StoreAssumption, LenProperties
    <3> QED
      BY <2>1, <3>1
  <2>3. /\ DOMAIN executions' = DOMAIN executions
        /\ \A y \in DOMAIN executions :
              /\ executions'[y].ok = executions[y].ok
              /\ y # e => executions'[y] = executions[y]
    <3>1. "completed" \in ExecutionStatus
      BY DEF ExecutionStatus
    <3> QED
      BY <1>0, <1>4, <2>0, <2>1, <3>1, CompleteExecutionEffect DEF FinishExecution
  <2>4. CompletedLogged(e)'
    BY <2>1, <2>2, <2>3, NextGrows DEF CompletedLogged, ExecutionsGrow
  <2> QED
    BY <1>0, <2>3, <2>4, StepsKept, CompletedKept
<1>5. ASSUME NEW p \in Replays, ResetExecution(p)
      PROVE  \A x \in DOMAIN executions' : StepPerformed(x)' /\ CompletedLogged(x)'
  <2>1. replay[p].exec \in DOMAIN executions /\ "queued" \in ExecutionStatus
    BY <1>5 DEF TypeInv, ReplayRefs, Replaying, ResetExecution, ExecutionStatus
  <2>2. /\ DOMAIN executions' = DOMAIN executions
        /\ executions'[replay[p].exec].status = "queued"
        /\ \A y \in DOMAIN executions :
              /\ executions'[y].ok = executions[y].ok
              /\ y # replay[p].exec => executions'[y] = executions[y]
    BY <1>0, <1>5, <2>1, CompleteExecutionEffect DEF ResetExecution
  <2> QED
    BY <1>0, <2>2, StepsKept, CompletedKept
<1>6. ASSUME NEW j \in DOMAIN jobs, FailExecutions(j)
      PROVE  \A x \in DOMAIN executions' : StepPerformed(x)' /\ CompletedLogged(x)'
  <2>1. /\ DOMAIN executions' = DOMAIN executions
        /\ \A y \in DOMAIN executions :
              /\ executions'[y].ok = executions[y].ok
              /\ executions'[y].status \in {executions[y].status, "failed"}
    BY <1>0, <1>6, FailActiveExecutionsEffect DEF FailExecutions
  <2> QED
    BY <1>0, <2>1, StepsKept, CompletedKept
<1>7. CASE executions' = executions
  BY <1>0, <1>7, StepsKept, CompletedKept
<1> QED
  BY <1>1, <1>2, <1>3, <1>4, <1>5, <1>6, <1>7, ExecutionWrites

\* A slot that does not move keeps what it knows of its execution.
LEMMA ProgressKept ==
    ASSUME TypeInv, PerformedInv, [Next]_vars, NEW w \in Workers, frame'[w] = frame[w]
    PROVE  SlotProgress(w)'
<1> SUFFICES ASSUME frame[w].pc \in {"act", "logOk"}
             PROVE  SlotProgress(w)'
  BY DEF SlotProgress
<1>1. /\ frame[w].exec \in DOMAIN executions /\ frame[w].job \in DOMAIN jobs
      /\ SlotProgress(w) /\ SlotRefs(w)
  BY SlotFacts DEF SlotRefs, InActions, PerformedInv
<1>2. /\ executions[frame[w].exec].ok \subseteq executions'[frame[w].exec].ok
      /\ EventAt(w)' = EventAt(w)
  BY <1>1, NextGrows DEF ExecutionsGrow, JobsGrow, EventAt
<1>3. ASSUME frame[w].pc = "logOk"
      PROVE  performed'[<<EventAt(w), frame[w].rule, frame[w].at>>] > 0
  <2> DEFINE site == <<EventAt(w), frame[w].rule, frame[w].at>>
  <2>1. site \in Sites /\ performed[site] > 0
    BY <1>1, <1>3, ActionFacts DEF SlotProgress
  <2>2. performed[site] \in Nat /\ performed'[site] \in Nat
    BY <2>1, NextTypes DEF TypeInv, TypeOK, ProcessorTypeOK
  <2>3. performed'[site] >= performed[site]
    BY <2>1, NextGrows
  <2> HIDE DEF site
  <2>4. performed'[site] > 0
    BY <2>1, <2>2, <2>3
  <2> QED
    BY <2>4 DEF site
<1> QED
  BY <1>1, <1>2, <1>3 DEF SlotProgress

\* A slot that moves knows what it needs to know at its next await.
LEMMA ProgressMade ==
    ASSUME TypeInv, PerformedInv, [Next]_vars, NEW w \in Workers,
           ProcessorStep(w) \/ DbFault(w) \/ \E j \in DOMAIN jobs : PickUp(w, j)
    PROVE  SlotProgress(w)'
<1>0. /\ frame \in [Workers -> Frame] /\ frame[w] \in Frame
      /\ executions \in Seq(Execution) /\ performed \in [Sites -> Nat]
      /\ SlotRefs(w) /\ SlotProgress(w)
  BY SlotFacts DEF TypeInv, TypeOK, StoreTypeOK, ProcessorTypeOK, PerformedInv
<1>1. CASE StartNew(w) \/ Resume(w)
  <2>1. PICK x, logged : EnterActions(w, x, logged) /\ logged \subseteq executions'[x].ok
    <3>1. CASE StartNew(w)
      BY <3>1 DEF StartNew
    <3>2. CASE Resume(w)
      <4>1. frame[w].exec \in DOMAIN executions
        BY <1>0, <3>2 DEF Resume, SlotRefs
      <4>2. executions[frame[w].exec].ok \subseteq executions'[frame[w].exec].ok
        BY <4>1, NextGrows DEF ExecutionsGrow
      <4> QED
        BY <3>2, <4>2 DEF Resume
    <3> QED
      BY <1>1, <3>1, <3>2
  <2>2. /\ frame'[w].pc \in {"mark", "act"} /\ frame'[w].exec = x
        /\ frame'[w].logged = logged /\ frame'[w].at = 1
    BY <1>0, <2>1 DEF EnterActions, Frame
  <2> QED
    BY <2>1, <2>2 DEF SlotProgress
<1>2. CASE SkipAction(w)
  <2>1. /\ frame'[w].pc = "act" /\ frame'[w].at = frame[w].at + 1
        /\ frame'[w].exec = frame[w].exec /\ frame'[w].rule = frame[w].rule
        /\ frame'[w].logged = frame[w].logged
        /\ executions' = executions /\ frame[w].pc = "act"
    BY <1>0, <1>2 DEF SkipAction, Frame, storeVars
  <2>2. /\ frame[w].at \in 1..Len(Orders[frame[w].rule])
        /\ Orders[frame[w].rule][frame[w].at] \in executions[frame[w].exec].ok
    BY <1>0, <1>2, <2>1, ActionFacts DEF SkipAction, SlotProgress, OrderAt
  <2>3. \A k \in 1..(frame[w].at + 1 - 1) : k = frame[w].at \/ k \in 1..(frame[w].at - 1)
    BY <2>2
  <2> QED
    BY <1>0, <2>1, <2>2, <2>3 DEF SlotProgress
<1>3. CASE PerformAction(w)
  <2>1. /\ frame'[w] = [frame[w] EXCEPT !.pc = "logOk"]
        /\ UNCHANGED <<executions, jobs>> /\ frame[w].pc = "act"
        /\ performed' = [performed EXCEPT ![<<EventAt(w), frame[w].rule, frame[w].at>>] = @ + 1]
    BY <1>0, <1>3 DEF PerformAction, Goto, storeVars
  <2>2. <<EventAt(w), frame[w].rule, frame[w].at>> \in Sites
    BY <1>3, <2>1, ActionFacts DEF PerformAction
  <2>3. performed'[<<EventAt(w), frame[w].rule, frame[w].at>>] > 0
    BY <1>0, <2>1, <2>2
  <2>4. /\ frame'[w].pc = "logOk" /\ frame'[w].at = frame[w].at
        /\ frame'[w].exec = frame[w].exec /\ frame'[w].rule = frame[w].rule
        /\ frame'[w].logged = frame[w].logged /\ frame'[w].job = frame[w].job
    BY <1>0, <2>1 DEF Frame
  <2> QED
    BY <1>0, <2>1, <2>3, <2>4 DEF SlotProgress, EventAt
<1>4. CASE LogSuccess(w)
  <2>1. /\ frame'[w].pc = "act" /\ frame'[w].at = frame[w].at + 1
        /\ frame'[w].exec = frame[w].exec /\ frame'[w].rule = frame[w].rule
        /\ frame'[w].logged = frame[w].logged /\ frame[w].pc = "logOk"
    BY <1>0, <1>4 DEF LogSuccess, Frame
  <2>2. /\ frame[w].exec \in DOMAIN executions
        /\ frame[w].at \in 1..Len(Orders[frame[w].rule]) /\ OrderAt(w) \in Nat
    BY <1>0, <2>1, ActionFacts DEF SlotRefs, InActions
  <2>3. executions'[frame[w].exec].ok = executions[frame[w].exec].ok \cup {OrderAt(w)}
    BY <1>0, <1>4, <2>2, AddSuccessStepEffect DEF LogSuccess
  <2>4. ASSUME NEW k \in 1..(frame'[w].at - 1)
        PROVE  Orders[frame'[w].rule][k] \in executions'[frame'[w].exec].ok
    <3>1. CASE k = frame[w].at
      BY <2>1, <2>3, <3>1 DEF OrderAt
    <3>2. CASE k # frame[w].at
      <4>1. k \in 1..(frame[w].at - 1)
        BY <2>1, <2>2, <3>2
      <4> QED
        BY <1>0, <2>1, <2>3, <4>1 DEF SlotProgress
    <3> QED
      BY <3>1, <3>2
  <2>5. frame'[w].logged \subseteq executions'[frame'[w].exec].ok
    BY <1>0, <2>1, <2>3 DEF SlotProgress
  <2> QED
    BY <2>1, <2>4, <2>5 DEF SlotProgress
<1>5. CASE ~(StartNew(w) \/ Resume(w) \/ SkipAction(w) \/ PerformAction(w) \/ LogSuccess(w))
  <2>1. frame'[w].pc \notin {"act", "logOk"}
    <3>1. CASE DbFault(w)
      <4>1. Handler(w) \in {"revert", "mark", "logFail", "thrown"}
        BY <3>1 DEF DbFault, Handler, ProcessorPc
      <4> QED
        BY <1>0, <3>1, <4>1 DEF DbFault, Throw, Frame
    <3>2. CASE \/ LockEvent(w) \/ SkipEvent(w) \/ CheckTenant(w) \/ LoadRules(w)
               \/ LogFailure(w) \/ CompleteEvent(w) \/ RevertEvent(w)
               \/ \E err \in {"retryable", "permanent"} : FailAction(w, err)
      BY <1>0, <3>2 DEF LockEvent, SkipEvent, CheckTenant, LoadRules, LogFailure,
         CompleteEvent, RevertEvent, FailAction, Goto, Throw, Frame
    <3>3. CASE \E r \in Rules : FindExecution(w, r)
      BY <1>0, <3>3 DEF FindExecution, Frame
    <3>4. CASE FinishExecution(w) \/ Settle(w) \/ \E j \in DOMAIN jobs : PickUp(w, j)
      <4>1. CASE FinishExecution(w)
        BY <1>0, <4>1 DEF FinishExecution, IdleFrame
      <4>2. CASE Settle(w)
        BY <1>0, <4>2 DEF Settle, IdleFrame
      <4>3. ASSUME NEW j \in DOMAIN jobs, PickUp(w, j)
            PROVE  frame'[w].pc = "lock"
        BY <1>0, <4>3 DEF PickUp, IdleFrame
      <4> QED
        BY <3>4, <4>1, <4>2, <4>3
    <3>5. CASE MarkExecution(w)
      <4>1. PICK d : frame' = [frame EXCEPT ![w] = [frame[w] EXCEPT !.pc = "revert",
                                                                   !.discarded = d]]
        BY <3>5 DEF MarkExecution
      <4> QED
        BY <1>0, <4>1 DEF Frame
    <3> QED
      BY <1>5, <3>1, <3>2, <3>3, <3>4, <3>5 DEF ProcessorStep
  <2> QED
    BY <2>1 DEF SlotProgress
<1> QED
  BY <1>1, <1>2, <1>3, <1>4, <1>5

\* What CompletedMeansPerformed rests on holds of every state.
LEMMA PerformedHolds == Spec => []PerformedInv
<1>1. Init => PerformedInv
  BY DEF Init, StoreInit, ProcessorInit, IdleFrame, PerformedInv, SlotProgress
<1>2. TypeInv /\ PerformedInv /\ [Next]_vars => PerformedInv'
  <2> SUFFICES ASSUME TypeInv, PerformedInv, [Next]_vars
               PROVE  \A w \in Workers : SlotProgress(w)'
    BY ExecutionsPerformed DEF PerformedInv
  <2> TAKE w \in Workers
  <2>1. CASE Crash
    BY <2>1 DEF Crash, IdleFrame, SlotProgress
  <2> QED
    BY <2>1, SlotMoves, ProgressKept, ProgressMade
<1> QED
  BY <1>1, <1>2, ReferencesExist, PTL DEF Spec

\* An execution is completed only when every action of its rule has succeeded
\* for its event: whatever calls overlap, locks are lost, calls to the database
\* fail, processes die and replays are accepted, as long as the rule held the
\* same whenever a call ran the execution.
THEOREM CompletedIsPerformed == Spec => []CompletedMeansPerformed
<1>1. TypeInv /\ PerformedInv => CompletedMeansPerformed
  <2> SUFFICES ASSUME TypeInv, PerformedInv, NEW x \in DOMAIN executions,
                      NEW r \in Rules, executions[x].ranAs = {r},
                      executions[x].status = "completed", DistinctOrders(r),
                      NEW k \in 1..Len(Orders[r])
               PROVE  performed[<<executions[x].event, r, k>>] > 0
    BY DEF CompletedMeansPerformed
  <2>1. Orders[r][k] \in executions[x].ok
    BY DEF PerformedInv, CompletedLogged
  <2>2. \E s \in executions[x].ranAs : \E l \in 1..Len(Orders[s]) :
           /\ Orders[s][l] = Orders[r][k]
           /\ performed[<<executions[x].event, s, l>>] > 0
    BY <2>1 DEF PerformedInv, StepPerformed
  <2>3. PICK l \in 1..Len(Orders[r]) :
           /\ Orders[r][l] = Orders[r][k]
           /\ performed[<<executions[x].event, r, l>>] > 0
    BY <2>2
  <2> QED
    BY <2>3 DEF DistinctOrders
<1> QED
  BY <1>1, PerformedHolds, ReferencesExist, PTL

-----------------------------------------------------------------------------
(* ExclusiveProcessing *)

\* Accepted replays stay accepted.
LEMMA ActiveReplaysStay ==
    ASSUME TypeInv, [Next]_vars
    PROVE  ActiveReplays \subseteq ActiveReplays'
<1>0. replay \in [Replays -> [pc: ReplayPc, exec: Nat]]
  BY DEF TypeInv, TypeOK, ReplayTypeOK
<1>1. CASE Replay
  BY <1>0, <1>1 DEF Replay, ReplayNext, CheckFailed, SaveHistory, RefuseReason,
     ResetExecution, Requeue, ReplayFault, Advance, ActiveReplays
<1>2. CASE Crash
  BY <1>0, <1>2 DEF Crash, ActiveReplays
<1>3. CASE ~Replay /\ ~Crash
  BY <1>3 DEF Next, Ingest, Work, Listen, Administer, Manage, replayVars, vars, ActiveReplays
<1> QED
  BY <1>1, <1>2, <1>3

\* The jobs of replays are those of accepted replays.
LEMMA ReplayJobsStep == TypeInv /\ ReplayJobs /\ [Next]_vars => ReplayJobs'
<1> SUFFICES ASSUME TypeInv, ReplayJobs, [Next]_vars
             PROVE  ReplayJobs'
  OBVIOUS
<1>1. ASSUME JobsMove
      PROVE  ReplayJobs'
  BY <1>1, ActiveReplaysStay DEF JobsMove, JobsGrow, ReplayJobs
<1>2. ASSUME NEW q \in Requests, AddJob(EventOf[q], "ingest")
      PROVE  ReplayJobs'
  BY <1>2, IngestAdds, ActiveReplaysStay DEF JobsGrow, ReplayJobs
<1>3. ASSUME NEW p \in Replays, Replaying(p)
      PROVE  ReplayJobs'
  <2>1. ActiveReplays # {}
    BY <1>3 DEF ActiveReplays, Replaying
  <2> QED
    BY <2>1, ActiveReplaysStay DEF ReplayJobs
<1> QED
  BY <1>1, <1>2, <1>3, JobWrites, OtherJobWrites, Unchanged DEF Enqueue

\* A job that a slot holds is touched only by that slot's Settle, by a lost
\* lock or by a crash.
LEMMA HeldJobs ==
    ASSUME TypeInv, [Next]_vars, NEW w \in Workers, NEW j \in DOMAIN jobs, HoldsLock(w, j)
    PROVE  \/ jobs'[j] = jobs[j]
           \/ \E v \in Workers : frame[v].job = j /\ Settle(v) /\ HoldsLock(v, j)
           \/ \E v \in Workers, i \in DOMAIN jobs : LoseLock(v, i)
           \/ Crash
<1>0. /\ jobs \in Seq(Job) /\ failedStream \in SUBSET DOMAIN jobs
      /\ None \notin Workers
  BY StoreAssumption DEF TypeInv, TypeOK, StoreTypeOK
<1>1. ASSUME NEW v \in Workers, NEW i \in DOMAIN jobs, PickUp(v, i)
      PROVE  jobs'[j] = jobs[j]
  BY <1>0, <1>1, TakeJobEffect DEF PickUp, HoldsLock
<1>2. ASSUME NEW i \in DOMAIN jobs, StallJob(i)
      PROVE  jobs'[j] = jobs[j]
  BY <1>0, <1>2, StallJobEffect DEF HoldsLock
<1>3. ASSUME NEW v \in Workers, Settle(v), frame[v].job # j,
             CompleteJob(frame[v].job) \/ FailJob(frame[v].job, frame[v].discarded)
      PROVE  jobs'[j] = jobs[j]
  BY <1>0, <1>3 DEF CompleteJob, FailJob
<1>4. ASSUME NEW v \in Workers, Settle(v), frame[v].job = j
      PROVE  jobs'[j] = jobs[j] \/ HoldsLock(v, j)
  BY <1>4 DEF Settle, queueVars
<1>5. ASSUME NEW q \in Requests, Enqueue(q) \/ AddJob(EventOf[q], "ingest")
      PROVE  jobs'[j] = jobs[j]
  <2>1. AddJob(EventOf[q], "ingest") /\ EventOf[q] \in Events
    BY <1>5, IngestionAssumption DEF Enqueue
  <2> QED
    BY <1>0, <2>1, AddJobEffect
<1>6. ASSUME NEW p \in Replays, Replaying(p), AddJob(ReplayedEvent(p), "replay")
      PROVE  jobs'[j] = jobs[j]
  <2>1. ReplayedEvent(p) \in Events
    BY <1>6, Indices DEF TypeInv, ReplayRefs, ReplayedEvent
  <2> QED
    BY <1>0, <1>6, <2>1, AddJobEffect
<1> QED
  BY <1>1, <1>2, <1>3, <1>4, <1>5, <1>6, JobWrites

\* A busy slot takes its lock with its job and keeps it until it settles.
LEMMA LocksHeldStep == TypeInv /\ LocksHeld /\ [Next]_vars => LocksHeld'
<1> SUFFICES ASSUME TypeInv, LocksHeld, [Next]_vars, mishaps'["lockLost"] = 0,
                    NEW w \in Workers, Busy(w)'
             PROVE  HoldsLock(w, frame[w].job)'
  BY DEF LocksHeld, Calm
<1>0. /\ frame \in [Workers -> Frame] /\ frame[w] \in Frame /\ jobs \in Seq(Job)
      /\ frame'[w].pc # "idle"
  BY DEF TypeInv, TypeOK, ProcessorTypeOK, StoreTypeOK, Busy
<1>1. /\ mishaps["lockLost"] = 0
      /\ ~\E v \in Workers, i \in DOMAIN jobs : LoseLock(v, i)
  BY MishapsCount DEF Mishaps
<1>2. \A v \in Workers : Busy(v) => HoldsLock(v, frame[v].job) /\ frame[v].job \in DOMAIN jobs
  BY <1>1, SlotFacts DEF LocksHeld, Calm, Busy
<1>3. ~Crash
  BY <1>0 DEF Crash, IdleFrame
<1>4. \A v \in Workers : Settle(v) => v # w
  BY <1>0 DEF Settle, IdleFrame
<1>5. CASE frame'[w] = frame[w]
  <2>1. PICK j : j = frame[w].job
    OBVIOUS
  <2>2. HoldsLock(w, j) /\ j \in DOMAIN jobs
    BY <1>0, <1>2, <1>5, <2>1 DEF Busy
  <2>3. jobs'[j] = jobs[j]
    BY <1>1, <1>3, <1>4, <2>2, HeldJobs DEF HoldsLock
  <2> QED
    BY <1>5, <2>1, <2>2, <2>3 DEF HoldsLock
<1>6. ASSUME NEW j \in DOMAIN jobs, PickUp(w, j)
      PROVE  HoldsLock(w, frame[w].job)'
  <2>1. frame'[w].job = j
    BY <1>0, <1>6 DEF PickUp, IdleFrame
  <2>2. jobs'[j].state = "active" /\ jobs'[j].owner = w
    BY <1>0, <1>6, TakeJobEffect DEF PickUp
  <2> QED
    BY <2>1, <2>2 DEF HoldsLock
<1>7. CASE ProcessorStep(w) \/ DbFault(w)
  <2>1. Busy(w) /\ jobs' = jobs
    BY <1>4, <1>7 DEF Busy, ProcessorStep, DbFault, LockEvent, SkipEvent, CheckTenant,
       LoadRules, FindExecution, StartNew, Resume, SkipAction, PerformAction, FailAction,
       LogSuccess, LogFailure, FinishExecution, MarkExecution, CompleteEvent, RevertEvent,
       storeVars, queueVars
  <2>2. frame'[w].job = frame[w].job
    <3>1. CASE FinishExecution(w)
      BY <1>0, <3>1 DEF FinishExecution, IdleFrame
    <3>2. CASE \/ LockEvent(w) \/ SkipEvent(w) \/ CheckTenant(w) \/ LoadRules(w)
               \/ SkipAction(w) \/ PerformAction(w) \/ LogSuccess(w) \/ LogFailure(w)
               \/ CompleteEvent(w) \/ RevertEvent(w) \/ DbFault(w)
               \/ \E err \in {"retryable", "permanent"} : FailAction(w, err)
      BY <1>0, <3>2 DEF LockEvent, SkipEvent, CheckTenant, LoadRules, SkipAction,
         PerformAction, FailAction, LogSuccess, LogFailure, CompleteEvent, RevertEvent,
         DbFault, Goto, Throw, Frame
    <3>3. CASE \E r \in Rules : FindExecution(w, r)
      BY <1>0, <3>3 DEF FindExecution, Frame
    <3>4. CASE StartNew(w) \/ Resume(w)
      <4>1. PICK x, logged : EnterActions(w, x, logged)
        BY <3>4 DEF StartNew, Resume
      <4> QED
        BY <1>0, <4>1 DEF EnterActions, Frame
    <3>5. CASE MarkExecution(w)
      <4>1. PICK d : frame' = [frame EXCEPT ![w] = [frame[w] EXCEPT !.pc = "revert",
                                                                   !.discarded = d]]
        BY <3>5 DEF MarkExecution
      <4> QED
        BY <1>0, <4>1 DEF Frame
    <3> QED
      BY <1>4, <1>7, <3>1, <3>2, <3>3, <3>4, <3>5 DEF ProcessorStep
  <2> QED
    BY <1>2, <2>1, <2>2 DEF HoldsLock
<1> QED
  BY <1>3, <1>5, <1>6, <1>7, SlotMoves

\* While no lock has been lost and no replay accepted, an event has one job,
\* and it has one owner: two calls are never in the same event.
THEOREM ProcessingIsExclusive == Spec => []ExclusiveProcessing
<1>1. Init => ExclusiveInv
  BY DEF Init, StoreInit, IngestionInit, ProcessorInit, IdleFrame, ExclusiveInv, IngestInv,
         OneIngestJob, IngestJobs, Stored, LocksHeld, Busy, ReplayJobs
<1>2. TypeInv /\ ExclusiveInv /\ [Next]_vars => ExclusiveInv'
  BY IngestStep, LocksHeldStep, ReplayJobsStep DEF ExclusiveInv
<1>3. TypeInv /\ ExclusiveInv => ExclusiveProcessing
  <2> SUFFICES ASSUME TypeInv, ExclusiveInv, Calm({"lockLost"}), ActiveReplays = {},
                      NEW v \in Workers, NEW w \in Workers, Busy(v), Busy(w),
                      EventAt(v) = EventAt(w)
               PROVE  v = w
    BY DEF ExclusiveProcessing
  <2>1. /\ HoldsLock(v, frame[v].job) /\ frame[v].job \in DOMAIN jobs
        /\ HoldsLock(w, frame[w].job) /\ frame[w].job \in DOMAIN jobs
        /\ EventAt(v) \in Events
    BY SlotFacts DEF ExclusiveInv, LocksHeld, Busy
  <2>2. \A j \in DOMAIN jobs : jobs[j].origin = "ingest"
    BY Indices DEF ExclusiveInv, ReplayJobs, Job
  <2>3. frame[v].job \in IngestJobs(EventAt(v)) /\ frame[w].job \in IngestJobs(EventAt(v))
    BY <2>1, <2>2 DEF IngestJobs, EventAt
  <2>4. frame[v].job = frame[w].job
    BY <2>1, <2>3 DEF ExclusiveInv, IngestInv, OneIngestJob
  <2> QED
    BY <2>1, <2>4 DEF HoldsLock
<1> QED
  BY <1>1, <1>2, <1>3, ReferencesExist, PTL DEF Spec

-----------------------------------------------------------------------------
(* Rules that match *)

\* Most steps of a call leave its job, the rules it has to do and the one it is
\* at, and do not enter a rule.
LEMMA SlotKeepsRules ==
    ASSUME frame \in [Workers -> Frame], NEW w \in Workers,
           \/ LockEvent(w) \/ SkipEvent(w) \/ CheckTenant(w) \/ StartNew(w) \/ Resume(w)
           \/ SkipAction(w) \/ PerformAction(w) \/ LogSuccess(w) \/ LogFailure(w)
           \/ \E err \in {"retryable", "permanent"} : FailAction(w, err)
           \/ MarkExecution(w) \/ CompleteEvent(w) \/ RevertEvent(w) \/ DbFault(w)
    PROVE  /\ frame[w].pc # "idle"
           /\ frame'[w].job = frame[w].job
           /\ frame'[w].todo = frame[w].todo
           /\ frame'[w].rule = frame[w].rule
           /\ frame'[w].pc \in InRule => frame[w].pc \in InRule
<1>1. CASE \/ LockEvent(w) \/ SkipEvent(w) \/ CheckTenant(w) \/ PerformAction(w)
           \/ LogFailure(w) \/ CompleteEvent(w) \/ RevertEvent(w)
           \/ \E err \in {"retryable", "permanent"} : FailAction(w, err)
  BY <1>1 DEF LockEvent, SkipEvent, CheckTenant, PerformAction, LogFailure, CompleteEvent,
     RevertEvent, FailAction, Goto, Throw, Frame, InRule
<1>2. CASE StartNew(w) \/ Resume(w)
  <2>1. PICK x, logged : EnterActions(w, x, logged)
    BY <1>2 DEF StartNew, Resume
  <2> QED
    BY <1>2, <2>1 DEF StartNew, Resume, EnterActions, Frame, InRule
<1>3. CASE SkipAction(w) \/ LogSuccess(w)
  BY <1>3 DEF SkipAction, LogSuccess, Frame, InRule
<1>4. CASE MarkExecution(w)
  <2>1. PICK d : frame' = [frame EXCEPT ![w] = [frame[w] EXCEPT !.pc = "revert",
                                                               !.discarded = d]]
    BY <1>4 DEF MarkExecution
  <2> QED
    BY <1>4, <2>1 DEF MarkExecution, Frame, InRule
<1>5. CASE DbFault(w)
  <2>1. frame[w].pc # "idle" /\ (Handler(w) \in InRule => frame[w].pc \in InRule)
    BY <1>5 DEF DbFault, Handler, ProcessorPc, InRule
  <2> QED
    BY <1>5, <2>1 DEF DbFault, Throw, Frame
<1> QED
  BY <1>1, <1>2, <1>3, <1>4, <1>5

\* What a call has to do, and is at, still matches after a step of its own.
LEMMA SlotMatches ==
    ASSUME TypeInv, MatchInv, [Next]_vars, NEW w \in Workers,
           ProcessorStep(w) \/ DbFault(w) \/ \E j \in DOMAIN jobs : PickUp(w, j)
    PROVE  /\ (frame[w].pc # "idle")' => frame'[w].todo \subseteq Matches[EventAt(w)']
           /\ (frame[w].pc \in InRule)' => frame'[w].rule \in Matches[EventAt(w)']
<1>0. /\ frame \in [Workers -> Frame]
      /\ frame[w].pc # "idle" => frame[w].todo \subseteq Matches[EventAt(w)]
      /\ frame[w].pc \in InRule => frame[w].rule \in Matches[EventAt(w)]
  BY DEF TypeInv, TypeOK, ProcessorTypeOK, MatchInv
<1>1. ASSUME frame[w].pc # "idle", frame'[w].job = frame[w].job
      PROVE  EventAt(w)' = EventAt(w)
  BY <1>1, SlotFacts, NextGrows DEF EventAt, JobsGrow
<1>2. CASE Settle(w) \/ \E j \in DOMAIN jobs : PickUp(w, j)
  <2>1. frame'[w].todo = {} /\ frame'[w].pc \notin InRule
    <3>1. CASE Settle(w)
      BY <1>0, <3>1 DEF Settle, IdleFrame, InRule
    <3>2. ASSUME NEW j \in DOMAIN jobs, PickUp(w, j)
          PROVE  frame'[w].todo = {} /\ frame'[w].pc \notin InRule
      BY <1>0, <3>2 DEF PickUp, IdleFrame, InRule
    <3> QED
      BY <1>2, <3>1, <3>2
  <2> QED
    BY <2>1 DEF InRule
<1>3. CASE LoadRules(w)
  <2>1. /\ frame[w].pc # "idle" /\ frame'[w].job = frame[w].job
        /\ frame'[w].pc = "loop"
        /\ frame'[w].todo = FilterMatchingRules(EventAt(w), activeRules)
    BY <1>0, <1>3 DEF LoadRules, Frame
  <2> QED
    BY <1>1, <2>1 DEF FilterMatchingRules, InRule
<1>4. ASSUME NEW r \in Rules, FindExecution(w, r)
      PROVE  /\ frame'[w].todo \subseteq Matches[EventAt(w)']
             /\ frame'[w].pc \in InRule => frame'[w].rule \in Matches[EventAt(w)']
  <2>1. /\ frame[w].pc = "loop" /\ r \in frame[w].todo
        /\ frame'[w].job = frame[w].job
        /\ frame'[w].todo \subseteq frame[w].todo
        /\ frame'[w].pc = "loop" \/ frame'[w].rule = r
    BY <1>0, <1>4 DEF FindExecution, Frame
  <2> QED
    BY <1>0, <1>1, <2>1 DEF InRule
<1>5. CASE FinishExecution(w)
  <2>1. /\ frame[w].pc = "act" /\ frame'[w].job = frame[w].job
        /\ frame'[w].pc = "loop" /\ frame'[w].todo \subseteq frame[w].todo
    BY <1>0, <1>5 DEF FinishExecution, IdleFrame
  <2> QED
    BY <1>0, <1>1, <2>1 DEF InRule
<1>6. CASE ~(\/ Settle(w) \/ LoadRules(w) \/ FinishExecution(w)
             \/ \E j \in DOMAIN jobs : PickUp(w, j)
             \/ \E r \in Rules : FindExecution(w, r))
  <2>1. /\ frame[w].pc # "idle" /\ frame'[w].job = frame[w].job
        /\ frame'[w].todo = frame[w].todo /\ frame'[w].rule = frame[w].rule
        /\ frame'[w].pc \in InRule => frame[w].pc \in InRule
    BY <1>0, <1>6, SlotKeepsRules DEF ProcessorStep
  <2> QED
    BY <1>0, <1>1, <2>1 DEF InRule
<1> QED
  BY <1>2, <1>3, <1>4, <1>5, <1>6

LEMMA MatchStep == TypeInv /\ MatchInv /\ [Next]_vars => MatchInv'
<1> SUFFICES ASSUME TypeInv, MatchInv, [Next]_vars
             PROVE  MatchInv'
  OBVIOUS
<1>1. ASSUME NEW x \in DOMAIN executions'
      PROVE  RunsOfRule(x)'
  <2>1. CASE x \in DOMAIN executions
    <3>1. /\ executions'[x].event = executions[x].event
          /\ executions'[x].rule = executions[x].rule
          /\ RunsOfRule(x)
      BY <2>1, NextGrows DEF ExecutionsGrow, MatchInv
    <3>2. CASE executions'[x].ranAs = executions[x].ranAs
      BY <3>1, <3>2 DEF RunsOfRule
    <3>3. ASSUME NEW w \in Workers, Resume(w), frame[w].exec = x,
                 executions'[x].ranAs = executions[x].ranAs \cup {frame[w].rule}
          PROVE  RunsOfRule(x)'
      <4>1. /\ RuleId[frame[w].rule] = executions[x].rule
            /\ frame[w].rule \in Matches[executions[x].event]
        BY <3>3, SlotFacts DEF Resume, SlotRefs, InRule, MatchInv
      <4> QED
        BY <3>1, <3>3, <4>1 DEF RunsOfRule
    <3> QED
      BY <2>1, <3>2, <3>3, Resumed
  <2>2. CASE x \notin DOMAIN executions
    <3>1. PICK w \in Workers :
             /\ StartNew(w)
             /\ executions'[x] = [event |-> EventAt(w), rule |-> RuleId[frame[w].rule],
                                  status |-> "processing", ok |-> {}, ranAs |-> {frame[w].rule}]
      BY <1>1, <2>2, Started
    <3>2. frame[w].rule \in Matches[EventAt(w)]
      BY <3>1 DEF StartNew, InRule, MatchInv
    <3> QED
      BY <3>1, <3>2 DEF RunsOfRule
  <2> QED
    BY <2>1, <2>2
<1>2. ASSUME NEW w \in Workers
      PROVE  /\ (frame[w].pc # "idle")' => frame'[w].todo \subseteq Matches[EventAt(w)']
             /\ (frame[w].pc \in InRule)' => frame'[w].rule \in Matches[EventAt(w)']
  <2>1. CASE frame'[w] = frame[w]
    <3>1. frame[w].pc # "idle" => EventAt(w)' = EventAt(w)
      BY <2>1, SlotFacts, NextGrows DEF EventAt, JobsGrow
    <3> QED
      BY <2>1, <3>1 DEF MatchInv, InRule
  <2>2. CASE Crash
    BY <2>2 DEF Crash, IdleFrame, InRule
  <2> QED
    BY <2>1, <2>2, SlotMoves, SlotMatches
<1> QED
  BY <1>1, <1>2 DEF MatchInv

\* Executions and calls are about rules that match.
LEMMA MatchHolds == Spec => []MatchInv
<1>1. Init => MatchInv
  BY DEF Init, StoreInit, ProcessorInit, IdleFrame, MatchInv, InRule
<1> QED
  BY <1>1, MatchStep, ReferencesExist, PTL DEF Spec

=============================================================================
