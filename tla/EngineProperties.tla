--------------------------- MODULE EngineProperties ---------------------------
(***************************************************************************)
(* What the backend must and must not do, as formulas about WebhookEngine. *)
(* A property that only holds while some mishap has not happened says so   *)
(* in its antecedent, in terms of the counters of mishaps.                 *)
(***************************************************************************)
EXTENDS WebhookEngine

Calm(kinds) == \A m \in kinds : mishaps[m] = 0

\* Replay requests that got past the status check.
ActiveReplays == {p \in Replays : replay[p].pc \notin {"idle", "rejected"}}

\* No second job or call is at an event's actions.  A replay accepted while the
\* first job is between marking the execution and settling is harmless, unless
\* a crash there has that job stall and run again.
SingleFile ==
    /\ Calm({"lockLost"})
    /\ \/ ActiveReplays = {}
       \/ Cardinality(ActiveReplays) = 1 /\ Calm({"crash"})

\* No two actions of the rule share their "order".
DistinctOrders(r) ==
    \A k, l \in 1..Len(Orders[r]) : Orders[r][k] = Orders[r][l] => k = l

Busy(w) == frame[w].pc # "idle"

HasStatus(x, status) == x \in DOMAIN executions /\ executions[x].status = status

ExecutionsOf(e, r) ==
    {x \in DOMAIN executions : executions[x].event = e /\ executions[x].rule = RuleId[r]}

IngestJobs(e) == {j \in DOMAIN jobs : jobs[j].event = e /\ jobs[j].origin = "ingest"}

-----------------------------------------------------------------------------
(* Ingestion *)

\* However deliveries of one webhook interleave, fail and are repeated, at most
\* one of them adds a job: the unique index decides who goes on to Queue.add.
OneIngestJob ==
    \A e \in Events : \A j, k \in IngestJobs(e) : j = k

\* A sender told 200 may forget the webhook.  While neither a crash nor Redis
\* has cut off a request between event.save() and Queue.add, an event some
\* sender got 200 for has its job, or the request that inserted it is at work.
AcknowledgedIsQueued ==
    Calm({"crash", "queueFault"}) =>
        \A q \in Requests : request[q] \in {"created", "known"} =>
            \/ IngestJobs(EventOf[q]) # {}
            \/ \E o \in Requests : request[o] = "stored" /\ EventOf[o] = EventOf[q]

-----------------------------------------------------------------------------
(* Processing *)

\* An execution is completed only when each action of its rule has succeeded
\* for its event, over all attempts, calls with a lost lock, crashes, failed
\* database calls and replays.  It takes distinct orders, for a step is looked
\* up by its order, and a rule that held the same whenever a call ran it: an
\* action a PATCH puts at a logged order is passed over (see ImplementsLedger).
CompletedMeansPerformed ==
    \A x \in DOMAIN executions : \A r \in Rules :
        /\ executions[x].status = "completed"
        /\ executions[x].ranAs = {r}
        /\ DistinctOrders(r)
        => \A k \in 1..Len(Orders[r]) : performed[<<executions[x].event, r, k>>] > 0

\* Actions at one order, in two documents of a rule.
SameStep(r, k, s, l) == RuleId[r] = RuleId[s] /\ Orders[r][k] = Orders[s][l]

\* No order of a rule was performed from two of its documents.
OneDocumentPerStep ==
    \A e \in Events, r, s \in Rules :
        \A k \in 1..Len(Orders[r]), l \in 1..Len(Orders[s]) :
            /\ SameStep(r, k, s, l)
            /\ performed[<<e, r, k>>] > 0
            /\ performed[<<e, s, l>>] > 0
            => r = s

\* While no call dies, loses its lock or sees the database fail, and at most
\* one replay runs, no action succeeds twice for an event, nor another that a
\* PATCH has put at its order: neither BullMQ's retries nor the replay, late
\* notices included, repeat a logged step.  An action that a PATCH moves to
\* another order is another step, and does run again.
NoActionRepeated ==
    Calm({"crash", "lockLost", "dbFault"}) /\ Cardinality(ActiveReplays) <= 1 =>
        /\ \A s \in Sites : performed[s] <= 1
        /\ OneDocumentPerStep

\* While no lock is lost and nothing is replayed, one call at a time is in an
\* event: findOneAndUpdate lets 'processing' in, so it is only the single job
\* and its lock that keep a second call out.
ExclusiveProcessing ==
    Calm({"lockLost"}) /\ ActiveReplays = {} =>
        \A v, w \in Workers : Busy(v) /\ Busy(w) /\ EventAt(v) = EventAt(w) => v = w

\* Nothing in the database makes (rule, event) unique, and the processor looks
\* before it creates; with one job at work for an event that suffices.
OneExecutionPerRule ==
    SingleFile =>
        \A e \in Events, r \in Rules :
            \A x, y \in ExecutionsOf(e, r) : x = y

\* A completed event has a settled execution for every rule it matches: the
\* event is not closed over a rule that was never run or waits for a retry.
CompletedEventIsSettled ==
    Calm({"lockLost", "ruleEdit"}) /\ ActiveReplays = {} =>
        \A e \in Events : events[e] = "completed" =>
            \A r \in Matches[e] \cap activeRules :
                /\ ExecutionsOf(e, r) # {}
                /\ \A x \in ExecutionsOf(e, r) :
                      executions[x].status \in {"completed", "failed"}

\* job.discard(): once an execution has failed for good, its job does not run
\* again by itself, unless the process dies before BullMQ hears of it.
FailedHaltsRetries ==
    Calm({"crash", "lockLost"}) /\ ActiveReplays = {} =>
        \A x \in DOMAIN executions : executions[x].status = "failed" =>
            \A j \in DOMAIN jobs :
                jobs[j].event = executions[x].event => jobs[j].state # "waiting"

\* The failures that can cut a call, or the listener, off from what it holds.
Interruptions ==
    mishaps["crash"] + mishaps["dbFault"] + mishaps["lockLost"] + mishaps["noticeLost"]

\* Between its lock of the event and its last update of it.
InEvent(w) == frame[w].pc \notin {"idle", "lock", "done", "thrown"}

\* Something is still to come for the event: a job of it that is not settled or
\* whose failure the listener has yet to deal with, or a call that has locked it.
InHand(e, notices) ==
    \/ \E j \in DOMAIN jobs :
          jobs[j].event = e /\ (jobs[j].state \in {"waiting", "active"} \/ j \in notices)
    \/ \E w \in Workers : InEvent(w) /\ EventAt(w) = e

\* One interruption strands no event, with any number of jobs and replays of it:
\* in processing there is a call, a retry or a notice that will take it out.
\* Two may: a crash and the loss of the notice, a lost lock and a rejected update.
EventIsInHand ==
    Interruptions <= 1 =>
        \A e \in Events : events[e] = "processing" => InHand(e, failedStream)

\* Nor does one strand an execution in processing, from where it could neither
\* be resumed nor be replayed.  The rule must stay switched on: a retry does not
\* look for the executions of a rule that is off.
ProcessingIsInHand ==
    Interruptions <= 1 /\ SingleFile /\ Calm({"ruleEdit"}) =>
        \A x \in DOMAIN executions : executions[x].status = "processing" =>
            InHand(executions[x].event, failedStream \cup recovering)

\* An execution that a replay has set to queued is not left there, where it could
\* not be replayed again: its replay is at Queue.add, or the event is in hand.  It
\* takes that no failure cuts any of them off.
QueuedIsInHand ==
    Interruptions = 0 /\ SingleFile /\ Calm({"ruleEdit", "queueFault"}) =>
        \A x \in DOMAIN executions : executions[x].status = "queued" =>
            \/ InHand(executions[x].event, failedStream \cup recovering)
            \/ \E p \in Replays : replay[p].pc = "reset" /\ replay[p].exec = x

\* With one job at work for an event, a completed execution is never reopened
\* or failed: not by the listener, a retry, or the rest of an earlier call.
CompletedExecutionIsFinal ==
    [][SingleFile =>
        \A x \in DOMAIN executions : executions[x].status = "completed"
            => executions'[x].status = "completed"]_vars

-----------------------------------------------------------------------------
(* Liveness, under FairSpec *)

\* BullMQ and the worker bring every job to an end.
EveryJobSettles ==
    \A j \in 1..(Cardinality(Requests) + Cardinality(Replays)) :
        (j \in DOMAIN jobs) ~> (j \in DOMAIN jobs /\ jobs[j].state \in {"completed", "failed"})

\* A crash and a rejected call both happened.  Then the one can undo the repair
\* the other needs: nothing is claimed.
MixedMishaps == ~Calm({"crash"}) /\ ~Calm({"dbFault", "queueFault"})

\* No event stays in processing, through crashes or through rejected calls: a
\* call ends it, a retry takes it up again, or the listener fails it.
EventLeavesProcessing ==
    \A e \in Events :
        (events[e] = "processing") ~> (events[e] # "processing" \/ MixedMishaps)

\* Nor does an execution.
ExecutionLeavesProcessing ==
    \A x \in 1..(Cardinality(RuleIds) * Cardinality(Workers)) :
        HasStatus(x, "processing") ~> (~HasStatus(x, "processing") \/ MixedMishaps)

\* No action fails, no payload is rejected and no database call rejects.
NothingFails == Calm({"dbFault"}) /\ \A w \in Workers : frame[w].pc \notin {"logFail", "mark"}

\* Crashes alone lose no webhook that is queued: its job is taken up again, its
\* event let in although it is in processing, its executions resumed, until all
\* is completed; unless the job has stalled more often than BullMQ allows.
QueuedIsCompleted ==
    []NothingFails =>
        \A j \in 1..(Cardinality(Requests) + Cardinality(Replays)) :
            (j \in DOMAIN jobs)
                ~> (j \in DOMAIN jobs /\ (\/ jobs[j].stalls > MaxStalled
                                        \/ /\ events[jobs[j].event] = "completed"
                                           /\ jobs[j].state = "completed"))

-----------------------------------------------------------------------------
(* What the documentation says and the code does not do *)

\* README.md:299-303: an action that keeps failing to connect leaves a failed
\* execution, which can be replayed.
ExhaustedIsReplayable ==
    \A j \in DOMAIN jobs : jobs[j].state = "failed" /\ j \notin failedStream \cup recovering =>
        \A x \in DOMAIN executions :
            executions[x].event = jobs[j].event => executions[x].status # "retrying"

\* README.md:288: "only failed or unexecuted steps are run", so a failed step is.
EveryActionPerformed ==
    \A x \in DOMAIN executions : executions[x].status = "completed" =>
        \A r \in executions[x].ranAs : \A k \in 1..Len(Orders[r]) :
            performed[<<executions[x].event, r, k>>] > 0

\* README.md:276: a NonRetryableActionException "halts further retries".
PermanentErrorHalts ==
    [][\A w \in Workers :
        frame[w].pc = "thrown" /\ frame[w].err = "permanent" /\ HoldsLock(w, frame[w].job)
            /\ frame'[w].pc = "idle"
            => jobs'[frame[w].job].state # "waiting"]_vars

\* README.md:303: a replayed execution changes to queued and "transition[s] to
\* processing".
ReplayRestarts ==
    \A x \in 1..Cardinality(RuleIds) :
        HasStatus(x, "queued") ~> HasStatus(x, "processing")

=============================================================================
