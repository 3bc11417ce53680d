--------------------------- MODULE EngineInvariants ---------------------------
(***************************************************************************)
(* The inductive invariants behind EngineProperties: what a call, a        *)
(* request or a replay knows about the shared state at each of its awaits, *)
(* and how that state hangs together.                                      *)
(***************************************************************************)
EXTENDS EngineProperties

InRule == {"open", "act", "logOk", "logFail", "mark"}
InActions == {"act", "logOk", "logFail", "mark"}

\* A call's job exists; inside a rule, its execution is one of this event and
\* this rule (0 before it is created), and it is at an action or past the last.
SlotRefs(w) ==
    /\ frame[w].pc # "idle" => frame[w].job \in DOMAIN jobs
    /\ frame[w].pc \in {"lock", "tenant", "rules", "loop"} => frame[w].exec = 0
    /\ frame[w].pc \in InRule => frame[w].rule \in Rules
    /\ frame[w].pc \in InActions \/ (frame[w].pc = "open" /\ frame[w].exec # 0) =>
          /\ frame[w].exec \in DOMAIN executions
          /\ executions[frame[w].exec].event = EventAt(w)
          /\ executions[frame[w].exec].rule = RuleId[frame[w].rule]
    /\ frame[w].pc \in InActions => frame[w].rule \in executions[frame[w].exec].ranAs
    /\ frame[w].pc = "act" => frame[w].at \in 1..(Len(Orders[frame[w].rule]) + 1)
    /\ frame[w].pc \in {"logOk", "logFail"} => frame[w].at \in 1..Len(Orders[frame[w].rule])

\* A replay past its check has an execution.
ReplayRefs(p) == Replaying(p) => replay[p].exec \in DOMAIN executions

TypeInv ==
    /\ TypeOK
    /\ \A w \in Workers : SlotRefs(w)
    /\ \A p \in Replays : ReplayRefs(p)

-----------------------------------------------------------------------------
(* For OneIngestJob *)

Stored(q) == request[q] = "stored"

\* The request between event.save() and Queue.add is alone there, its event is
\* in the collection, and its job does not exist; without the event there is no job.
IngestInv ==
    /\ OneIngestJob
    /\ \A q \in Requests : Stored(q) =>
          /\ events[EventOf[q]] # "absent"
          /\ IngestJobs(EventOf[q]) = {}
          /\ \A o \in Requests : Stored(o) /\ EventOf[o] = EventOf[q] => o = q
    /\ \A e \in Events : events[e] = "absent" => IngestJobs(e) = {}

-----------------------------------------------------------------------------
(* For AcknowledgedIsQueued *)

\* Jobs, executions and requests that got past event.save() have their events,
\* and unless a request was cut off an event has its job or a request at work.
AcknowledgedInv ==
    /\ \A j \in DOMAIN jobs : events[jobs[j].event] # "absent"
    /\ \A x \in DOMAIN executions : events[executions[x].event] # "absent"
    /\ \A q \in Requests :
          request[q] \in {"stored", "created", "known"} => events[EventOf[q]] # "absent"
    /\ Calm({"crash", "queueFault"}) =>
          \A e \in Events : events[e] # "absent" =>
             \/ IngestJobs(e) # {}
             \/ \E o \in Requests : Stored(o) /\ EventOf[o] = e

-----------------------------------------------------------------------------
(* For CompletedMeansPerformed *)

\* A logged step stands for an action of its order that has succeeded, one the
\* rule held when a call ran the execution.
StepPerformed(x) ==
    \A o \in executions[x].ok :
        \E r \in executions[x].ranAs : \E k \in 1..Len(Orders[r]) :
            Orders[r][k] = o /\ performed[<<executions[x].event, r, k>>] > 0

\* What a call takes for logged is logged, and so is every action before the
\* one it is at; the one whose step it is about to log has succeeded.
SlotProgress(w) ==
    /\ frame[w].pc \in {"act", "logOk"} =>
          /\ frame[w].logged \subseteq executions[frame[w].exec].ok
          /\ \A k \in 1..(frame[w].at - 1) :
                Orders[frame[w].rule][k] \in executions[frame[w].exec].ok
    /\ frame[w].pc = "logOk" =>
          performed[<<EventAt(w), frame[w].rule, frame[w].at>>] > 0

\* A completed execution has a step for each order of its rule's actions, as
\* they were when a call ran it.
CompletedLogged(x) ==
    executions[x].status = "completed" =>
        \E r \in executions[x].ranAs : \A k \in 1..Len(Orders[r]) :
            Orders[r][k] \in executions[x].ok

PerformedInv ==
    /\ \A x \in DOMAIN executions : StepPerformed(x) /\ CompletedLogged(x)
    /\ \A w \in Workers : SlotProgress(w)

-----------------------------------------------------------------------------
(* For ExclusiveProcessing *)

\* While no lock is lost, a busy slot holds the lock of its job.
LocksHeld ==
    Calm({"lockLost"}) =>
        \A w \in Workers : Busy(w) => HoldsLock(w, frame[w].job)

\* A replay's job presupposes a replay that was accepted.
ReplayJobs ==
    \A j \in DOMAIN jobs : jobs[j].origin = "replay" => ActiveReplays # {}

ExclusiveInv == IngestInv /\ LocksHeld /\ ReplayJobs

-----------------------------------------------------------------------------
(* For the properties under SingleFile and FailedHaltsRetries *)

AtMostOneReplay == \A p, o \in ActiveReplays : p = o

\* SingleFile, without the count.
Single ==
    /\ Calm({"lockLost"})
    /\ AtMostOneReplay
    /\ ActiveReplays = {} \/ Calm({"crash"})

\* The event a replay is about.
ReplaysEvent(p, e) == replay[p].exec \in DOMAIN executions /\ executions[replay[p].exec].event = e

\* A job that will not run again: it is settled, or it was discarded by the call
\* that still holds it.
Spent(j) ==
    \/ jobs[j].state \in {"completed", "failed"}
    \/ \E w \in Workers : HoldsLock(w, j) /\ frame[w].job = j /\ frame[w].discarded

\* Until a process dies or a lock is lost, an active job has an owner; only a
\* call on its way out has discarded its job; what the listener hears of failed.
QueueInv ==
    /\ Calm({"crash", "lockLost"}) =>
          \A j \in DOMAIN jobs : jobs[j].state = "active" => jobs[j].owner # None
    /\ \A w \in Workers : frame[w].discarded => frame[w].pc \in {"revert", "thrown"}
    /\ \A j \in failedStream \cup recovering : jobs[j].state = "failed"

\* Every job and every execution goes back to a delivery; a replay's job to an
\* accepted replay that is over, and one replay adds one job.
OriginInv ==
    /\ \A j \in DOMAIN jobs : IngestJobs(jobs[j].event) # {}
    /\ \A x \in DOMAIN executions : IngestJobs(executions[x].event) # {}
    /\ \A p \in ActiveReplays : replay[p].exec \in DOMAIN executions
    /\ \A j \in DOMAIN jobs : jobs[j].origin = "replay" =>
          \E p \in ActiveReplays : ~Replaying(p) /\ ReplaysEvent(p, jobs[j].event)
    /\ AtMostOneReplay =>
          \A j, k \in DOMAIN jobs : jobs[j].origin = "replay" /\ jobs[k].origin = "replay" => j = k

\* An execution fails for good with its job, and a replay is accepted only of
\* one that has: the delivered job is spent when the replay's is added.
SpentInv ==
    Calm({"crash", "lockLost"}) =>
        /\ ActiveReplays = {} =>
              \A x \in DOMAIN executions : executions[x].status = "failed" =>
                 \A j \in DOMAIN jobs : jobs[j].event = executions[x].event => Spent(j)
        /\ AtMostOneReplay =>
              \A p \in ActiveReplays : \A j \in DOMAIN jobs :
                 jobs[j].origin = "ingest" /\ ReplaysEvent(p, jobs[j].event) => Spent(j)

Working == {"tenant", "rules", "loop"} \cup InRule

\* What a call has found out about its execution stays so until it acts on it:
\* that there is none, or that it is not completed.  Nor is an execution that a
\* replay has checked and not yet reset.
LookupInv ==
    Single =>
        /\ \A e \in Events, r \in Rules : \A x, y \in ExecutionsOf(e, r) : x = y
        /\ \A w \in Workers : frame[w].pc = "open" /\ frame[w].exec = 0 =>
              ExecutionsOf(EventAt(w), frame[w].rule) = {}
        /\ \A w \in Workers : frame[w].pc \in InRule /\ frame[w].exec # 0 =>
              executions[frame[w].exec].status # "completed"
        /\ \A p \in Replays : replay[p].pc \in {"checked", "logged"} =>
              executions[replay[p].exec].status # "completed"

SingleFileInv ==
    IngestInv /\ LocksHeld /\ QueueInv /\ OriginInv /\ SpentInv /\ LookupInv

-----------------------------------------------------------------------------
(* For NoActionRepeated *)

\* An action that has succeeded is logged, or its call is about to log it; the
\* actions a call has before it have not, but for those it takes for logged,
\* and no other that the rule once held at the order of one that has.
OnceInv ==
    Calm({"crash", "lockLost", "dbFault"}) /\ AtMostOneReplay =>
        /\ \A s \in Sites : performed[s] <= 1
        /\ OneDocumentPerStep
        /\ \A e \in Events, r \in Rules : \A k \in 1..Len(Orders[r]) :
              performed[<<e, r, k>>] > 0 =>
                 \/ \E x \in ExecutionsOf(e, r) : Orders[r][k] \in executions[x].ok
                 \/ \E w \in Workers : /\ frame[w].pc = "logOk" /\ EventAt(w) = e
                                       /\ frame[w].rule = r /\ frame[w].at = k
        /\ \A w \in Workers : frame[w].pc \in {"act", "logOk"} =>
              \A k \in 1..Len(Orders[frame[w].rule]) :
                 /\ frame[w].at < k \/ (frame[w].pc = "act" /\ frame[w].at = k)
                 /\ performed[<<EventAt(w), frame[w].rule, k>>] > 0
                 => Orders[frame[w].rule][k] \in frame[w].logged
        /\ \A w \in Workers : frame[w].pc \in {"act", "logOk"} =>
              \A r \in Rules \ {frame[w].rule} : \A k \in 1..Len(Orders[r]) :
                 RuleId[r] = RuleId[frame[w].rule] /\ performed[<<EventAt(w), r, k>>] > 0
                 => Orders[r][k] \in frame[w].logged

-----------------------------------------------------------------------------
(* For CompletedEventIsSettled *)

\* A rule's execution for an event exists and is over.
Settled(e, r) ==
    /\ ExecutionsOf(e, r) # {}
    /\ \A x \in ExecutionsOf(e, r) : executions[x].status \in {"completed", "failed"}

\* A call keeps the rule it is at on its list until it is through with it; the
\* matching rules off the list are settled, and so are those of an event that
\* is completed, which no call works on.
SettledInv ==
    Calm({"lockLost", "ruleEdit"}) /\ ActiveReplays = {} =>
        /\ \A w \in Workers : frame[w].pc \in InRule => frame[w].rule \in frame[w].todo
        /\ \A w \in Workers : frame[w].pc \in InRule \cup {"loop"} =>
              \A r \in (Matches[EventAt(w)] \cap activeRules) \ frame[w].todo :
                 Settled(EventAt(w), r)
        /\ \A w \in Workers : frame[w].pc \in Working => events[EventAt(w)] # "completed"
        /\ \A e \in Events : events[e] = "completed" =>
              \A r \in Matches[e] \cap activeRules : Settled(e, r)

\* A rule is one document; while nobody edits rules, what calls have at hand
\* and what executions were run from is what the rules hold.
RulesKept ==
    /\ \A r, s \in activeRules : RuleId[r] = RuleId[s] => r = s
    /\ Calm({"ruleEdit"}) =>
          /\ \A x \in DOMAIN executions : executions[x].ranAs \subseteq activeRules
          /\ \A w \in Workers :
                /\ frame[w].todo \subseteq activeRules
                /\ frame[w].pc \in InRule => frame[w].rule \in activeRules

-----------------------------------------------------------------------------
(* For EventIsInHand and ProcessingIsInHand *)

\* A call has given its job's event or execution up, or died on it.
CutOff == ~Calm({"crash", "dbFault"})

\* The job will run again, is on its way to the event's lock, or has thrown
\* without having updated the event, or the listener will hear that it failed.
WillBeTakenUp(j) ==
    \/ jobs[j].state = "waiting"
    \/ j \in failedStream
    \/ /\ jobs[j].state = "active"
       /\ \A w \in Workers : frame[w].pc # "idle" /\ frame[w].job = j =>
             frame[w].pc \in {"lock", "thrown"}

\* A call is in the event; once one was cut off, a job may stand in for it.
EventHeld(e) ==
    \/ \E w \in Workers : InEvent(w) /\ EventAt(w) = e
    \/ CutOff /\ \E j \in DOMAIN jobs : jobs[j].event = e /\ WillBeTakenUp(j)

EventHeldInv ==
    Interruptions <= 1 => \A e \in Events : events[e] = "processing" => EventHeld(e)

\* A call is at the execution's actions; once one was cut off, a job may stand in.
ExecutionHeld(x) ==
    \/ \E w \in Workers : frame[w].pc \in InActions /\ frame[w].exec = x
    \/ /\ CutOff
       /\ \E j \in DOMAIN jobs :
             /\ jobs[j].event = executions[x].event
             /\ jobs[j].state \in {"waiting", "active"} \/ j \in failedStream \cup recovering

\* No execution of the event has the status, but for those of the rules left.
OnlyWith(status, e, left) ==
    \A x \in DOMAIN executions :
        executions[x].event = e /\ executions[x].status = status =>
            executions[x].rule \in {RuleId[r] : r \in left}

\* A call has on its list the rules whose executions have the status; at the end
\* of its list there is none.
Listed(status, w) ==
    frame[w].pc \in InRule \cup {"loop"} => OnlyWith(status, EventAt(w), frame[w].todo)

NoneAtEnd(status, w) == frame[w].pc = "done" => OnlyWith(status, EventAt(w), {})

\* An execution in processing belongs to a rule its event's call has on its list;
\* at the end of the list, and when the event is completed, there is none.
ExecutionHeldInv ==
    Single /\ Calm({"ruleEdit"}) =>
        /\ \A w \in Workers :
              /\ frame[w].pc \in InRule => frame[w].rule \in frame[w].todo
              /\ frame[w].pc \in Working => events[EventAt(w)] # "completed"
              /\ Listed("processing", w)
              /\ NoneAtEnd("processing", w)
        /\ \A e \in Events : events[e] = "completed" => OnlyWith("processing", e, {})
        /\ Interruptions <= 1 =>
              \A x \in DOMAIN executions :
                  executions[x].status = "processing" => ExecutionHeld(x)

-----------------------------------------------------------------------------
(* For QueuedIsInHand *)

\* The replay that reset the execution adds its job, or a job is not over.
QueuedHeld(x) ==
    \/ \E p \in Replays : replay[p].pc = "reset" /\ replay[p].exec = x
    \/ \E j \in DOMAIN jobs :
          /\ jobs[j].event = executions[x].event
          /\ jobs[j].state \in {"waiting", "active"} \/ j \in failedStream \cup recovering

\* An event with a failed execution is not completed before that is replayed,
\* nor while it is; so the replay's job finds the event open, and the execution
\* on its list.
QueuedHeldInv ==
    Single /\ Interruptions = 0 /\ Calm({"ruleEdit", "queueFault"}) =>
        /\ ActiveReplays = {} =>
              \A x \in DOMAIN executions :
                 /\ executions[x].status # "queued"
                 /\ executions[x].status = "failed" => events[executions[x].event] # "completed"
        /\ \A p \in Replays : Replaying(p) => events[ReplayedEvent(p)] # "completed"
        /\ \A w \in Workers : Listed("queued", w) /\ NoneAtEnd("queued", w)
        /\ \A e \in Events : events[e] = "completed" => OnlyWith("queued", e, {})
        /\ \A x \in DOMAIN executions : executions[x].status = "queued" => QueuedHeld(x)

-----------------------------------------------------------------------------
(* For ImplementsLedger and RulesRunAsWritten *)

\* An execution was run from documents of its rule that match its event.
RunsOfRule(x) ==
    /\ executions[x].ranAs # {}
    /\ \A r \in executions[x].ranAs :
          RuleId[r] = executions[x].rule /\ r \in Matches[executions[x].event]

\* What a call still has to do, what it is at, and what any execution was run
\* from, is a rule that matches the event.
MatchInv ==
    /\ \A x \in DOMAIN executions : RunsOfRule(x)
    /\ \A w \in Workers :
          /\ frame[w].pc # "idle" => frame[w].todo \subseteq Matches[EventAt(w)]
          /\ frame[w].pc \in InRule => frame[w].rule \in Matches[EventAt(w)]

\* A rule leaves a call's list with an execution; at the end of the list each
\* rule that matches has one, whatever the lock of the call has come to.
CoveredInv ==
    Calm({"ruleEdit"}) =>
        /\ \A w \in Workers : frame[w].pc \in InRule \cup {"loop"} =>
              \A r \in (Matches[EventAt(w)] \cap activeRules) \ frame[w].todo :
                 ExecutionsOf(EventAt(w), r) # {}
        /\ \A e \in Events : events[e] = "completed" =>
              \A r \in Matches[e] \cap activeRules : ExecutionsOf(e, r) # {}

=============================================================================
