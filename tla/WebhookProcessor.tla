--------------------------- MODULE WebhookProcessor ---------------------------
(***************************************************************************)
(* WebhookProcessor.process(job).  A frame is one call of it, running in   *)
(* one of the worker's concurrent slots; its pc names the next await, and  *)
(* every await is one step, so calls for different jobs, and the two calls *)
(* of a job whose lock was lost, interleave between them.                  *)
(***************************************************************************)
EXTENDS EngineStore

VARIABLES
    frame,     \* slot -> the call it runs
    performed  \* <<e, r, k>> -> how often the k-th action of rule r has
               \* succeeded for event e: its effect on the outside world

processorVars == <<frame, performed>>

ProcessorPc == {"idle", "lock", "tenant", "rules", "loop", "open", "act",
                "logOk", "logFail", "mark", "revert", "done", "thrown"}

\* An error the processor tells apart by its class.
ErrorKind == {"none", "retryable", "permanent"}

\* todo: matched rules still to run, as LoadRules read them; exec: this rule's
\* execution; logged: the orders that were successful steps when it was read;
\* at: the next action.
Frame == [pc: ProcessorPc, job: Nat, todo: SUBSET Rules, rule: Rules \cup {None},
          exec: Nat, logged: SUBSET Nat, at: Nat, err: ErrorKind,
          discarded: BOOLEAN]

IdleFrame == [pc |-> "idle", job |-> 0, todo |-> {}, rule |-> None, exec |-> 0,
              logged |-> {}, at |-> 0, err |-> "none", discarded |-> FALSE]

Sites == UNION {{<<e, r, k>> : k \in 1..Len(Orders[r])} : e \in Events, r \in Rules}

ProcessorTypeOK ==
    /\ frame \in [Workers -> Frame]
    /\ performed \in [Sites -> Nat]

ProcessorInit ==
    /\ frame = [w \in Workers |-> IdleFrame]
    /\ performed = [s \in Sites |-> 0]

EventAt(w) == jobs[frame[w].job].event

\* What the action the slot has reached may come to.
OutcomesAt(w) == Outcomes[<<EventAt(w), frame[w].rule>>][frame[w].at]

\* The order of the action the slot has reached.
OrderAt(w) == Orders[frame[w].rule][frame[w].at]

\* Mutant: one too early.
AtLastActionEarly(w) == frame[w].at >= Len(Orders[frame[w].rule])

AtLastAction(w) == frame[w].at > Len(Orders[frame[w].rule])

Goto(w, pc) == frame' = [frame EXCEPT ![w].pc = pc]

Throw(w, pc, err) == frame' = [frame EXCEPT ![w].pc = pc, ![w].err = err]

-----------------------------------------------------------------------------
(* Taking a job and its event *)

PickUp(w, j) ==
    /\ frame[w].pc = "idle"
    /\ TakeJob(j, w)
    /\ frame' = [frame EXCEPT ![w] = [IdleFrame EXCEPT !.pc = "lock", !.job = j]]
    /\ UNCHANGED <<adminVars, events, executions, mishaps, performed>>

\* Mutant: the filter the comment describes.
LockableAsCommented == {"pending", "failed"}

\* Mutant: an event that failed is not taken again.
LockableUnlessFailed == {"pending", "processing"}

\* The filter of findOneAndUpdate.
Lockable == {"pending", "failed", "processing"}

LockEvent(w) ==
    /\ frame[w].pc = "lock"
    /\ events[EventAt(w)] \in Lockable
    /\ events' = [events EXCEPT ![EventAt(w)] = "processing"]
    /\ Goto(w, "tenant")
    /\ UNCHANGED <<adminVars, executions, queueVars, mishaps, performed>>

\* No document matches: { skipped: true, reason: 'atomic_lock_bypassed' }.
SkipEvent(w) ==
    /\ frame[w].pc = "lock"
    /\ events[EventAt(w)] \notin Lockable
    /\ Goto(w, "done")
    /\ UNCHANGED <<storeVars, performed>>

CheckTenant(w) ==
    /\ frame[w].pc = "tenant"
    /\ IF tenantActive THEN Goto(w, "rules") ELSE Throw(w, "revert", "permanent")
    /\ UNCHANGED <<storeVars, performed>>

\* RulesEngineService.filterMatchingRules; Matches is its verdict on a rule.
FilterMatchingRules(e, rules) == Matches[e] \cap rules

LoadRules(w) ==
    /\ frame[w].pc = "rules"
    /\ frame' = [frame EXCEPT ![w].pc = "loop",
                              ![w].todo = FilterMatchingRules(EventAt(w), activeRules)]
    /\ UNCHANGED <<storeVars, performed>>

-----------------------------------------------------------------------------
(* The loop over the matched rules *)

\* find() gives the rules no order, so any of those left comes next.
FindExecution(w, r) ==
    /\ frame[w].pc = "loop"
    /\ r \in frame[w].todo
    /\ LET found == FindExecutions(EventAt(w), r)
       IN \/ /\ found = {}
             /\ frame' = [frame EXCEPT ![w].pc = "open", ![w].rule = r]
          \/ \E x \in found :
                IF executions[x].status \in {"completed", "failed"}
                THEN frame' = [frame EXCEPT ![w].todo = @ \ {r}]
                ELSE frame' = [frame EXCEPT ![w].pc = "open", ![w].rule = r,
                                            ![w].exec = x]
    /\ UNCHANGED <<storeVars, performed>>

\* validatePayloadSchema: a required field is missing or of another type.
PayloadInvalid(w) == <<frame[w].rule, EventAt(w)>> \in SchemaRejects

\* validatePayloadSchema, then the first action; x and logged are what
\* startExecution or completeExecution returned.
EnterActions(w, x, logged) ==
    frame' = [frame EXCEPT ![w].pc = IF PayloadInvalid(w) THEN "mark" ELSE "act",
                           ![w].err = IF PayloadInvalid(w) THEN "permanent" ELSE "none",
                           ![w].exec = x, ![w].logged = logged, ![w].at = 1]

StartNew(w) ==
    /\ frame[w].pc = "open"
    /\ frame[w].exec = 0
    /\ StartExecution(EventAt(w), frame[w].rule, "processing")
    /\ EnterActions(w, Len(executions) + 1, {})
    /\ UNCHANGED <<adminVars, events, queueVars, mishaps, performed>>

\* Mutant: the steps already logged are not looked at.
ResumeFromStart(w) ==
    /\ frame[w].pc = "open"
    /\ frame[w].exec # 0
    /\ ResumeExecution(frame[w].exec, frame[w].rule)
    /\ EnterActions(w, frame[w].exec, {})
    /\ UNCHANGED <<adminVars, events, queueVars, mishaps, performed>>

Resume(w) ==
    /\ frame[w].pc = "open"
    /\ frame[w].exec # 0
    /\ ResumeExecution(frame[w].exec, frame[w].rule)
    /\ EnterActions(w, frame[w].exec, executions[frame[w].exec].ok)
    /\ UNCHANGED <<adminVars, events, queueVars, mishaps, performed>>

-----------------------------------------------------------------------------
(* The loop over one rule's actions *)

SkipAction(w) ==
    /\ frame[w].pc = "act"
    /\ ~AtLastAction(w)
    /\ OrderAt(w) \in frame[w].logged
    /\ frame' = [frame EXCEPT ![w].at = @ + 1]
    /\ UNCHANGED <<storeVars, performed>>

PerformAction(w) ==
    /\ frame[w].pc = "act"
    /\ ~AtLastAction(w)
    /\ OrderAt(w) \notin frame[w].logged
    /\ "success" \in OutcomesAt(w)
    /\ performed' = [performed EXCEPT ![<<EventAt(w), frame[w].rule, frame[w].at>>] = @ + 1]
    /\ Goto(w, "logOk")
    /\ UNCHANGED storeVars

\* The Actions Engine throws a RetryableActionException or anything else.
FailAction(w, err) ==
    /\ frame[w].pc = "act"
    /\ ~AtLastAction(w)
    /\ OrderAt(w) \notin frame[w].logged
    /\ err \in OutcomesAt(w)
    /\ Throw(w, "logFail", err)
    /\ UNCHANGED <<storeVars, performed>>

LogSuccess(w) ==
    /\ frame[w].pc = "logOk"
    /\ AddSuccessStep(frame[w].exec, OrderAt(w))
    /\ frame' = [frame EXCEPT ![w].pc = "act", ![w].at = @ + 1]
    /\ UNCHANGED <<adminVars, events, queueVars, mishaps, performed>>

\* Mutant: the catch block logs the failed step as a success.
LogFailureAsSuccess(w) ==
    /\ frame[w].pc = "logFail"
    /\ AddSuccessStep(frame[w].exec, OrderAt(w))
    /\ Goto(w, "mark")
    /\ UNCHANGED <<adminVars, events, queueVars, mishaps, performed>>

LogFailure(w) ==
    /\ frame[w].pc = "logFail"
    /\ Goto(w, "mark")
    /\ UNCHANGED <<storeVars, performed>>

FinishExecution(w) ==
    /\ frame[w].pc = "act"
    /\ AtLastAction(w)
    /\ CompleteExecution(frame[w].exec, "completed")
    /\ frame' = [frame EXCEPT ![w] = [IdleFrame EXCEPT !.pc = "loop", !.job = frame[w].job,
                                            !.todo = frame[w].todo \ {frame[w].rule}]]
    /\ UNCHANGED <<adminVars, events, queueVars, mishaps, performed>>

\* Mutants: the error is not rethrown; the job is not discarded.
MarkAndGoOn(w) ==
    /\ frame[w].pc = "mark"
    /\ CompleteExecution(frame[w].exec,
           IF frame[w].err = "retryable" THEN "retrying" ELSE "failed")
    /\ frame' = [frame EXCEPT ![w] = [IdleFrame EXCEPT !.pc = "loop", !.job = frame[w].job,
                                            !.todo = frame[w].todo \ {frame[w].rule}]]
    /\ UNCHANGED <<adminVars, events, queueVars, mishaps, performed>>

MarkNotDiscarded(w) ==
    /\ frame[w].pc = "mark"
    /\ CompleteExecution(frame[w].exec,
           IF frame[w].err = "retryable" THEN "retrying" ELSE "failed")
    /\ Goto(w, "revert")
    /\ UNCHANGED <<adminVars, events, queueVars, mishaps, performed>>

\* The inner catch: retrying and rethrow, or failed, job.discard() and rethrow.
MarkExecution(w) ==
    /\ frame[w].pc = "mark"
    /\ CompleteExecution(frame[w].exec,
           IF frame[w].err = "retryable" THEN "retrying" ELSE "failed")
    /\ frame' = [frame EXCEPT ![w].pc = "revert",
                              ![w].discarded = (frame[w].err # "retryable")]
    /\ UNCHANGED <<adminVars, events, queueVars, mishaps, performed>>

-----------------------------------------------------------------------------
(* Leaving the call *)

CompleteEvent(w) ==
    /\ frame[w].pc = "loop"
    /\ frame[w].todo = {}
    /\ events' = [events EXCEPT ![EventAt(w)] = "completed"]
    /\ Goto(w, "done")
    /\ UNCHANGED <<adminVars, executions, queueVars, mishaps, performed>>

\* The outer catch.
RevertEvent(w) ==
    /\ frame[w].pc = "revert"
    /\ events' = [events EXCEPT ![EventAt(w)] = "failed"]
    /\ Goto(w, "thrown")
    /\ UNCHANGED <<adminVars, executions, queueVars, mishaps, performed>>

\* BullMQ moves the job on, unless the slot's lock has gone to another.
Settle(w) ==
    LET j == frame[w].job
    IN /\ frame[w].pc \in {"done", "thrown"}
       /\ \/ HoldsLock(w, j) /\ frame[w].pc = "done" /\ CompleteJob(j)
          \/ HoldsLock(w, j) /\ frame[w].pc = "thrown" /\ FailJob(j, frame[w].discarded)
          \/ ~HoldsLock(w, j) /\ UNCHANGED queueVars
       /\ frame' = [frame EXCEPT ![w] = IdleFrame]
       /\ UNCHANGED <<adminVars, events, executions, mishaps, performed>>

\* Where the catch blocks take an error of the database call at pc.
Handler(w) ==
    CASE frame[w].pc \in {"tenant", "rules", "loop", "open", "mark"} -> "revert"
      [] frame[w].pc \in {"act", "logFail"} -> "mark"
      [] frame[w].pc = "logOk" -> "logFail"
      [] frame[w].pc \in {"lock", "revert"} -> "thrown"

\* A database call rejects and has changed nothing: an error of no action class.
DbFault(w) ==
    /\ frame[w].pc \in ProcessorPc \ {"idle", "done", "thrown"}
    /\ frame[w].pc = "act" => AtLastAction(w)
    /\ Suffer("dbFault")
    /\ Throw(w, Handler(w), "permanent")
    /\ UNCHANGED <<adminVars, events, executions, queueVars, performed>>

ProcessorStep(w) ==
    \/ LockEvent(w) \/ SkipEvent(w) \/ CheckTenant(w) \/ LoadRules(w)
    \/ \E r \in Rules : FindExecution(w, r)
    \/ StartNew(w) \/ Resume(w)
    \/ SkipAction(w) \/ PerformAction(w)
    \/ \E err \in {"retryable", "permanent"} : FailAction(w, err)
    \/ LogSuccess(w) \/ LogFailure(w) \/ FinishExecution(w) \/ MarkExecution(w)
    \/ CompleteEvent(w) \/ RevertEvent(w) \/ Settle(w)

ProcessorNext ==
    \E w \in Workers :
        \/ \E j \in DOMAIN jobs : PickUp(w, j)
        \/ ProcessorStep(w)
        \/ DbFault(w)

=============================================================================
