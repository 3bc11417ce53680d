--------------------------- MODULE SingleFileProofs ---------------------------
(***************************************************************************)
(* What holds while one job at a time is at work for an event: through     *)
(* retries, and through one replay, whose job is only added once the       *)
(* delivered one is spent.  Executions are then unique and final, no       *)
(* action is repeated, and an event is completed over settled rules only.  *)
(***************************************************************************)
EXTENDS ProcessingProofs, FiniteSetTheorems

-----------------------------------------------------------------------------
(* The steps of a call *)

\* A step within a call, within a rule of it, and within the rule's actions.
SameCall(w) ==
    /\ frame'[w].job = frame[w].job
    /\ frame'[w].todo = frame[w].todo
    /\ frame'[w].discarded = frame[w].discarded

SameRule(w) ==
    /\ SameCall(w)
    /\ frame'[w].rule = frame[w].rule
    /\ frame'[w].exec = frame[w].exec

SameProgress(w) == SameRule(w) /\ frame'[w].logged = frame[w].logged

\* What the steps write into the call's frame: those outside the loop over rules.
LEMMA CallSteps ==
    ASSUME TypeInv, NEW w \in Workers
    PROVE  /\ LockEvent(w) => frame[w].pc = "lock" /\ frame'[w].pc = "tenant" /\ SameRule(w)
           /\ SkipEvent(w) => frame[w].pc = "lock" /\ frame'[w].pc = "done" /\ SameRule(w)
           /\ CheckTenant(w) => /\ frame[w].pc = "tenant" /\ frame'[w].pc \in {"rules", "revert"}
                                /\ SameRule(w)
           /\ LoadRules(w) => /\ frame[w].pc = "rules" /\ frame'[w].pc = "loop"
                              /\ frame'[w].todo = Matches[EventAt(w)] \cap activeRules
                              /\ frame'[w].job = frame[w].job
                              /\ frame'[w].discarded = frame[w].discarded
           /\ CompleteEvent(w) => frame[w].pc = "loop" /\ frame'[w].pc = "done" /\ SameRule(w)
           /\ RevertEvent(w) => frame[w].pc = "revert" /\ frame'[w].pc = "thrown" /\ SameRule(w)
           /\ Settle(w) => frame[w].pc \in {"done", "thrown"} /\ frame'[w] = IdleFrame
           /\ \A j \in DOMAIN jobs : PickUp(w, j) =>
                 /\ frame[w].pc = "idle" /\ frame'[w].pc = "lock"
                 /\ frame'[w].job = j /\ frame'[w].exec = 0 /\ ~frame'[w].discarded
<1>0. frame \in [Workers -> Frame]
  BY DEF TypeInv, TypeOK, ProcessorTypeOK
<1> USE <1>0 DEF Frame, SameRule, SameCall
<1>1. ASSUME LockEvent(w)
      PROVE  frame[w].pc = "lock" /\ frame'[w].pc = "tenant" /\ SameRule(w)
  BY <1>1 DEF LockEvent, Goto
<1>2. ASSUME SkipEvent(w)
      PROVE  frame[w].pc = "lock" /\ frame'[w].pc = "done" /\ SameRule(w)
  BY <1>2 DEF SkipEvent, Goto
<1>3. ASSUME CheckTenant(w)
      PROVE  /\ frame[w].pc = "tenant" /\ frame'[w].pc \in {"rules", "revert"}
             /\ SameRule(w)
  BY <1>3 DEF CheckTenant, Goto, Throw
<1>4. ASSUME LoadRules(w)
      PROVE  /\ frame[w].pc = "rules" /\ frame'[w].pc = "loop"
             /\ frame'[w].todo = Matches[EventAt(w)] \cap activeRules
             /\ frame'[w].job = frame[w].job
             /\ frame'[w].discarded = frame[w].discarded
  BY <1>4 DEF LoadRules, FilterMatchingRules
<1>5. ASSUME CompleteEvent(w)
      PROVE  frame[w].pc = "loop" /\ frame'[w].pc = "done" /\ SameRule(w)
  BY <1>5 DEF CompleteEvent, Goto
<1>6. ASSUME RevertEvent(w)
      PROVE  frame[w].pc = "revert" /\ frame'[w].pc = "thrown" /\ SameRule(w)
  BY <1>6 DEF RevertEvent, Goto
<1>7. ASSUME Settle(w)
      PROVE  frame[w].pc \in {"done", "thrown"} /\ frame'[w] = IdleFrame
  BY <1>7 DEF Settle
<1>8. ASSUME NEW j \in DOMAIN jobs, PickUp(w, j)
      PROVE  /\ frame[w].pc = "idle" /\ frame'[w].pc = "lock"
             /\ frame'[w].job = j /\ frame'[w].exec = 0 /\ ~frame'[w].discarded
  BY <1>8 DEF PickUp, IdleFrame
<1> HIDE DEF SameRule
<1> QED
  BY <1>1, <1>2, <1>3, <1>4, <1>5, <1>6, <1>7, <1>8

\* Those that find a rule's execution, open it, and close it.
LEMMA RuleSteps ==
    ASSUME TypeInv, NEW w \in Workers
    PROVE  /\ \A r \in Rules : FindExecution(w, r) =>
                 /\ frame[w].pc = "loop" /\ r \in frame[w].todo
                 /\ frame'[w].job = frame[w].job
                 /\ frame'[w].discarded = frame[w].discarded
                 /\ \/ /\ ExecutionsOf(EventAt(w), r) = {}
                       /\ frame'[w].pc = "open" /\ frame'[w].exec = frame[w].exec
                       /\ frame'[w].rule = r /\ frame'[w].todo = frame[w].todo
                    \/ \E x \in ExecutionsOf(EventAt(w), r) :
                          /\ executions[x].status \in {"completed", "failed"}
                          /\ frame'[w].pc = "loop" /\ frame'[w].todo = frame[w].todo \ {r}
                    \/ \E x \in ExecutionsOf(EventAt(w), r) :
                          /\ executions[x].status \notin {"completed", "failed"}
                          /\ frame'[w].pc = "open" /\ frame'[w].exec = x
                          /\ frame'[w].rule = r /\ frame'[w].todo = frame[w].todo
           /\ StartNew(w) =>
                 /\ frame[w].pc = "open" /\ frame'[w].pc \in {"act", "mark"}
                 /\ SameCall(w) /\ frame'[w].rule = frame[w].rule
                 /\ frame'[w].exec = Len(executions) + 1
                 /\ frame'[w].logged = {} /\ frame'[w].at = 1
           /\ Resume(w) =>
                 /\ frame[w].pc = "open" /\ frame'[w].pc \in {"act", "mark"} /\ SameRule(w)
                 /\ frame'[w].logged = executions[frame[w].exec].ok /\ frame'[w].at = 1
           /\ FinishExecution(w) =>
                 /\ frame[w].pc = "act" /\ frame'[w].pc = "loop"
                 /\ frame'[w].job = frame[w].job
                 /\ frame'[w].todo = frame[w].todo \ {frame[w].rule}
                 /\ ~frame'[w].discarded
           /\ MarkExecution(w) =>
                 /\ frame[w].pc = "mark" /\ frame'[w].pc = "revert"
                 /\ frame'[w].job = frame[w].job
                 /\ frame'[w].discarded = (frame[w].err # "retryable")
<1>0. frame \in [Workers -> Frame]
  BY DEF TypeInv, TypeOK, ProcessorTypeOK
<1>1. ASSUME NEW r \in Rules, FindExecution(w, r)
      PROVE  /\ frame[w].pc = "loop" /\ r \in frame[w].todo
             /\ frame'[w].job = frame[w].job
             /\ frame'[w].discarded = frame[w].discarded
             /\ \/ /\ ExecutionsOf(EventAt(w), r) = {}
                   /\ frame'[w].pc = "open" /\ frame'[w].exec = frame[w].exec
                   /\ frame'[w].rule = r /\ frame'[w].todo = frame[w].todo
                \/ \E x \in ExecutionsOf(EventAt(w), r) :
                      /\ executions[x].status \in {"completed", "failed"}
                      /\ frame'[w].pc = "loop" /\ frame'[w].todo = frame[w].todo \ {r}
                \/ \E x \in ExecutionsOf(EventAt(w), r) :
                      /\ executions[x].status \notin {"completed", "failed"}
                      /\ frame'[w].pc = "open" /\ frame'[w].exec = x
                      /\ frame'[w].rule = r /\ frame'[w].todo = frame[w].todo
  <2>1. FindExecutions(EventAt(w), r) = ExecutionsOf(EventAt(w), r)
    BY DEF FindExecutions, ExecutionsOf
  <2>2. frame[w].pc = "loop" /\ r \in frame[w].todo
    BY <1>1 DEF FindExecution
  <2>3. ASSUME frame' = [frame EXCEPT ![w].pc = "open", ![w].rule = r]
        PROVE  /\ frame'[w].job = frame[w].job /\ frame'[w].discarded = frame[w].discarded
               /\ frame'[w].pc = "open" /\ frame'[w].exec = frame[w].exec
               /\ frame'[w].rule = r /\ frame'[w].todo = frame[w].todo
    BY <1>0, <2>3 DEF Frame
  <2>4. ASSUME NEW x, frame' = [frame EXCEPT ![w].pc = "open", ![w].rule = r, ![w].exec = x]
        PROVE  /\ frame'[w].job = frame[w].job /\ frame'[w].discarded = frame[w].discarded
               /\ frame'[w].pc = "open" /\ frame'[w].exec = x
               /\ frame'[w].rule = r /\ frame'[w].todo = frame[w].todo
    BY <1>0, <2>4 DEF Frame
  <2>5. ASSUME frame' = [frame EXCEPT ![w].todo = frame[w].todo \ {r}]
        PROVE  /\ frame'[w].job = frame[w].job /\ frame'[w].discarded = frame[w].discarded
               /\ frame'[w].pc = frame[w].pc /\ frame'[w].todo = frame[w].todo \ {r}
    BY <1>0, <2>5 DEF Frame
  <2>6. \/ /\ ExecutionsOf(EventAt(w), r) = {}
           /\ frame' = [frame EXCEPT ![w].pc = "open", ![w].rule = r]
        \/ \E x \in ExecutionsOf(EventAt(w), r) :
              /\ executions[x].status \in {"completed", "failed"}
              /\ frame' = [frame EXCEPT ![w].todo = frame[w].todo \ {r}]
        \/ \E x \in ExecutionsOf(EventAt(w), r) :
              /\ executions[x].status \notin {"completed", "failed"}
              /\ frame' = [frame EXCEPT ![w].pc = "open", ![w].rule = r, ![w].exec = x]
    BY <1>1, <2>1 DEF FindExecution
  <2> QED
    BY <2>2, <2>3, <2>4, <2>5, <2>6
<1> USE <1>0 DEF Frame, SameRule, SameCall
<1>2. ASSUME NEW x, NEW logged, EnterActions(w, x, logged)
      PROVE  /\ frame'[w].pc \in {"act", "mark"}
             /\ SameCall(w) /\ frame'[w].rule = frame[w].rule
             /\ frame'[w].exec = x /\ frame'[w].logged = logged /\ frame'[w].at = 1
  BY <1>2 DEF EnterActions
<1>3. ASSUME StartNew(w)
      PROVE  /\ frame[w].pc = "open" /\ frame'[w].pc \in {"act", "mark"}
             /\ SameCall(w) /\ frame'[w].rule = frame[w].rule
             /\ frame'[w].exec = Len(executions) + 1
             /\ frame'[w].logged = {} /\ frame'[w].at = 1
  BY <1>2, <1>3 DEF StartNew
<1>4. ASSUME Resume(w)
      PROVE  /\ frame[w].pc = "open" /\ frame'[w].pc \in {"act", "mark"} /\ SameRule(w)
             /\ frame'[w].logged = executions[frame[w].exec].ok /\ frame'[w].at = 1
  BY <1>2, <1>4 DEF Resume
<1>5. ASSUME FinishExecution(w)
      PROVE  /\ frame[w].pc = "act" /\ frame'[w].pc = "loop"
             /\ frame'[w].job = frame[w].job
             /\ frame'[w].todo = frame[w].todo \ {frame[w].rule}
             /\ ~frame'[w].discarded
  BY <1>5 DEF FinishExecution, IdleFrame
<1>6. ASSUME MarkExecution(w)
      PROVE  /\ frame[w].pc = "mark" /\ frame'[w].pc = "revert"
             /\ frame'[w].job = frame[w].job
             /\ frame'[w].discarded = (frame[w].err # "retryable")
  BY <1>6 DEF MarkExecution
<1> HIDE DEF Frame, SameRule, SameCall
<1> QED
  BY <1>1, <1>3, <1>4, <1>5, <1>6

\* Those inside a rule's actions, and the rejected calls.
LEMMA ActionSteps ==
    ASSUME TypeInv, NEW w \in Workers
    PROVE  /\ SkipAction(w) => /\ frame[w].pc = "act" /\ frame'[w].pc = "act"
                               /\ SameProgress(w) /\ frame'[w].at = frame[w].at + 1
           /\ PerformAction(w) => /\ frame[w].pc = "act" /\ frame'[w].pc = "logOk"
                                  /\ SameProgress(w) /\ frame'[w].at = frame[w].at
           /\ LogSuccess(w) => /\ frame[w].pc = "logOk" /\ frame'[w].pc = "act"
                               /\ SameProgress(w) /\ frame'[w].at = frame[w].at + 1
           /\ \A err \in {"retryable", "permanent"} : FailAction(w, err) =>
                 frame[w].pc = "act" /\ frame'[w].pc = "logFail" /\ SameRule(w)
           /\ LogFailure(w) => /\ frame[w].pc = "logFail" /\ frame'[w].pc = "mark" /\ SameRule(w)
           /\ DbFault(w) =>
                 /\ frame'[w].pc \in {"revert", "mark", "logFail", "thrown"} /\ SameRule(w)
                 /\ frame[w].pc \notin {"idle", "done", "thrown"}
                 /\ frame[w].pc \notin InActions => frame'[w].pc \in {"revert", "thrown"}
                 /\ frame[w].pc = "revert" => frame'[w].pc = "thrown"
<1>0. frame \in [Workers -> Frame]
  BY DEF TypeInv, TypeOK, ProcessorTypeOK
<1> USE <1>0 DEF Frame, SameProgress, SameRule, SameCall
<1>1. ASSUME SkipAction(w)
      PROVE  /\ frame[w].pc = "act" /\ frame'[w].pc = "act"
             /\ SameProgress(w) /\ frame'[w].at = frame[w].at + 1
  BY <1>1 DEF SkipAction
<1>2. ASSUME PerformAction(w)
      PROVE  /\ frame[w].pc = "act" /\ frame'[w].pc = "logOk"
             /\ SameProgress(w) /\ frame'[w].at = frame[w].at
  BY <1>2 DEF PerformAction, Goto
<1>3. ASSUME LogSuccess(w)
      PROVE  /\ frame[w].pc = "logOk" /\ frame'[w].pc = "act"
             /\ SameProgress(w) /\ frame'[w].at = frame[w].at + 1
  BY <1>3 DEF LogSuccess
<1>4. ASSUME NEW err \in {"retryable", "permanent"}, FailAction(w, err)
      PROVE  frame[w].pc = "act" /\ frame'[w].pc = "logFail" /\ SameRule(w)
  BY <1>4 DEF FailAction, Throw
<1>5. ASSUME LogFailure(w)
      PROVE  /\ frame[w].pc = "logFail" /\ frame'[w].pc = "mark" /\ SameRule(w)
  BY <1>5 DEF LogFailure, Goto
<1>6. ASSUME DbFault(w)
      PROVE  /\ frame'[w].pc \in {"revert", "mark", "logFail", "thrown"} /\ SameRule(w)
             /\ frame[w].pc \notin {"idle", "done", "thrown"}
             /\ frame[w].pc \notin InActions => frame'[w].pc \in {"revert", "thrown"}
             /\ frame[w].pc = "revert" => frame'[w].pc = "thrown"
  <2>1. /\ Handler(w) \in {"revert", "mark", "logFail", "thrown"}
        /\ frame[w].pc \notin {"idle", "done", "thrown"}
        /\ frame[w].pc \notin InActions => Handler(w) \in {"revert", "thrown"}
        /\ frame[w].pc = "revert" => Handler(w) = "thrown"
    BY <1>6 DEF DbFault, Handler, ProcessorPc, InActions
  <2>2. frame'[w].pc = Handler(w) /\ SameRule(w)
    BY <1>6 DEF DbFault, Throw
  <2> QED
    BY <2>1, <2>2
<1> HIDE DEF Frame, SameProgress, SameRule, SameCall
<1> QED
  BY <1>1, <1>2, <1>3, <1>4, <1>5, <1>6

\* By which step a call has got where it is; a job is discarded on the way out.
LEMMA Arrivals ==
    ASSUME TypeInv, [Next]_vars, NEW w \in Workers, frame'[w] # frame[w]
    PROVE  /\ frame'[w].pc = "idle" => frame'[w] = IdleFrame /\ (Settle(w) \/ Crash)
           /\ frame'[w].pc = "lock" => \E j \in DOMAIN jobs : PickUp(w, j)
           /\ frame'[w].pc = "tenant" => LockEvent(w)
           /\ frame'[w].pc = "rules" => CheckTenant(w)
           /\ frame'[w].pc = "loop" => \/ LoadRules(w) \/ FinishExecution(w)
                                       \/ \E r \in Rules : FindExecution(w, r)
           /\ frame'[w].pc = "open" => \E r \in Rules : FindExecution(w, r)
           /\ frame'[w].pc = "act" => StartNew(w) \/ Resume(w) \/ SkipAction(w) \/ LogSuccess(w)
           /\ frame'[w].pc = "logOk" => PerformAction(w)
           /\ frame'[w].pc \in {"logFail", "mark"} =>
                 \/ frame[w].pc \in InActions /\ SameRule(w)
                 \/ StartNew(w) \/ Resume(w)
           /\ frame'[w].pc \notin {"idle", "lock"} =>
                 frame'[w].job = frame[w].job /\ frame[w].pc # "idle"
           /\ frame'[w].discarded =>
                 \/ MarkExecution(w)
                 \/ /\ frame[w].discarded /\ frame[w].pc # "thrown"
                    /\ frame[w].pc = "revert" => frame'[w].pc = "thrown"
<1>1. CASE \/ LockEvent(w) \/ SkipEvent(w) \/ CheckTenant(w) \/ LoadRules(w)
           \/ CompleteEvent(w) \/ RevertEvent(w)
  BY <1>1, CallSteps DEF SameRule, SameCall
<1>2. ASSUME NEW j \in DOMAIN jobs, PickUp(w, j)
      PROVE  frame[w].pc = "idle" /\ frame'[w].pc = "lock" /\ ~frame'[w].discarded
  BY <1>2, CallSteps
<1>3. CASE Settle(w) \/ Crash
  <2>1. frame'[w] = IdleFrame
    BY <1>3, CallSteps DEF Crash
  <2>2. IdleFrame.pc = "idle" /\ ~IdleFrame.discarded
    BY DEF IdleFrame
  <2> QED
    BY <1>3, <2>1, <2>2
<1>4. ASSUME NEW r \in Rules, FindExecution(w, r)
      PROVE  /\ frame'[w].pc \in {"loop", "open"} /\ frame'[w].job = frame[w].job
             /\ frame'[w].discarded = frame[w].discarded /\ frame[w].pc = "loop"
  BY <1>4, RuleSteps
<1>5. CASE StartNew(w) \/ Resume(w)
  BY <1>5, RuleSteps DEF SameRule, SameCall
<1>6. CASE FinishExecution(w) \/ MarkExecution(w)
  BY <1>6, RuleSteps
<1>7. CASE \/ SkipAction(w) \/ PerformAction(w) \/ LogSuccess(w) \/ LogFailure(w)
           \/ \E err \in {"retryable", "permanent"} : FailAction(w, err)
  BY <1>7, ActionSteps DEF SameProgress, SameRule, SameCall, InActions
<1>8. CASE DbFault(w)
  BY <1>8, ActionSteps DEF SameRule, SameCall, InActions
<1> QED
  BY <1>1, <1>2, <1>3, <1>4, <1>5, <1>6, <1>7, <1>8, SlotMoves DEF ProcessorStep

-----------------------------------------------------------------------------
(* The moves of executions, jobs and replays *)

\* A status changes by a call that is in the execution's rule, by a replay that
\* resets it, or by the listener, which leaves settled executions alone.
LEMMA StatusMoves ==
    ASSUME TypeInv, [Next]_vars, NEW x \in DOMAIN executions,
           executions'[x].status # executions[x].status
    PROVE  \/ \E w \in Workers :
                 /\ frame[w].exec = x
                 /\ frame[w].pc \in InRule
                 /\ executions[x].event = EventAt(w)
                 /\ executions[x].rule = RuleId[frame[w].rule]
                 /\ \/ Resume(w) /\ x # 0 /\ executions'[x].status = "processing"
                    \/ FinishExecution(w) /\ executions'[x].status = "completed"
                    \/ /\ MarkExecution(w) /\ executions'[x].status \in {"retrying", "failed"}
                       /\ executions'[x].status = "failed" => frame[w].err # "retryable"
           \/ \E p \in Replays : /\ ResetExecution(p) /\ replay[p].exec = x
                                 /\ executions'[x].status = "queued"
           \/ \E j \in DOMAIN jobs : /\ FailExecutions(j) /\ jobs[j].event = executions[x].event
                                     /\ executions[x].status \in {"queued", "processing"}
                                     /\ executions'[x].status = "failed"
<1>0. executions \in Seq(Execution) /\ x # 0
  BY Indices DEF TypeInv, TypeOK, StoreTypeOK
<1>1. ASSUME NEW w \in Workers, StartNew(w)
      PROVE  FALSE
  <2>1. EventAt(w) \in Events /\ frame[w].rule \in Rules /\ "processing" \in ExecutionStatus
    BY <1>1, SlotFacts DEF StartNew, SlotRefs, InRule, ExecutionStatus
  <2> QED
    BY <1>0, <1>1, <2>1, StartExecutionEffect DEF StartNew
<1>2. ASSUME NEW w \in Workers, LogSuccess(w)
      PROVE  FALSE
  BY <1>0, <1>2, SlotFacts, ActionFacts, AddSuccessStepEffect DEF LogSuccess, SlotRefs, InActions
<1>3. ASSUME NEW w \in Workers, NEW status \in ExecutionStatus, frame[w].exec \in DOMAIN executions,
             CompleteExecution(frame[w].exec, status)
      PROVE  frame[w].exec = x /\ executions'[x].status = status
  BY <1>0, <1>3, CompleteExecutionEffect
<1>4. {"processing", "completed", "retrying", "failed", "queued"} \subseteq ExecutionStatus
  BY DEF ExecutionStatus
<1>5. ASSUME NEW w \in Workers, Resume(w) \/ FinishExecution(w) \/ MarkExecution(w)
      PROVE  /\ frame[w].exec = x
             /\ frame[w].pc \in InRule
             /\ executions[x].event = EventAt(w)
             /\ executions[x].rule = RuleId[frame[w].rule]
             /\ \/ Resume(w) /\ x # 0 /\ executions'[x].status = "processing"
                \/ FinishExecution(w) /\ executions'[x].status = "completed"
                \/ /\ MarkExecution(w) /\ executions'[x].status \in {"retrying", "failed"}
                   /\ executions'[x].status = "failed" => frame[w].err # "retryable"
  <2>1. /\ frame[w].exec \in DOMAIN executions /\ frame[w].pc \in InRule
        /\ executions[frame[w].exec].event = EventAt(w)
        /\ executions[frame[w].exec].rule = RuleId[frame[w].rule]
        /\ frame[w].rule \in Rules
    BY <1>5, SlotFacts DEF Resume, FinishExecution, MarkExecution, SlotRefs, InActions, InRule
  <2>2. CASE Resume(w)
    BY <1>0, <2>1, <2>2, ResumeExecutionEffect DEF Resume
  <2>3. CASE FinishExecution(w)
    BY <1>3, <1>4, <2>1, <2>3 DEF FinishExecution
  <2>4. CASE MarkExecution(w)
    <3>1. CASE frame[w].err = "retryable"
      <4>1. CompleteExecution(frame[w].exec, "retrying")
        BY <2>4, <3>1 DEF MarkExecution
      <4> QED
        BY <1>3, <1>4, <2>1, <2>4, <4>1
    <3>2. CASE frame[w].err # "retryable"
      <4>1. CompleteExecution(frame[w].exec, "failed")
        BY <2>4, <3>2 DEF MarkExecution
      <4> QED
        BY <1>3, <1>4, <2>1, <2>4, <3>2, <4>1
    <3> QED
      BY <3>1, <3>2
  <2> QED
    BY <1>5, <2>2, <2>3, <2>4
<1>6. ASSUME NEW p \in Replays, ResetExecution(p)
      PROVE  replay[p].exec = x /\ executions'[x].status = "queued"
  <2>1. replay[p].exec \in DOMAIN executions
    BY <1>6 DEF TypeInv, ReplayRefs, Replaying, ResetExecution
  <2> QED
    BY <1>0, <1>4, <1>6, <2>1, CompleteExecutionEffect DEF ResetExecution
<1>7. ASSUME NEW j \in DOMAIN jobs, FailExecutions(j)
      PROVE  /\ jobs[j].event = executions[x].event
             /\ executions[x].status \in {"queued", "processing"}
             /\ executions'[x].status = "failed"
  BY <1>0, <1>7, FailActiveExecutionsEffect DEF FailExecutions
<1> QED
  BY <1>1, <1>2, <1>5, <1>6, <1>7, ExecutionWrites

\* A new execution is one a call has just started for its event and rule.
LEMMA NewExecutions ==
    ASSUME TypeInv, [Next]_vars, NEW x \in DOMAIN executions', x \notin DOMAIN executions
    PROVE  \E w \in Workers :
              /\ StartNew(w) /\ x = Len(executions) + 1
              /\ executions'[x].event = EventAt(w)
              /\ executions'[x].rule = RuleId[frame[w].rule]
              /\ executions'[x].status = "processing" /\ executions'[x].ok = {}
<1>1. PICK w \in Workers :
         /\ StartNew(w)
         /\ executions'[x] = [event |-> EventAt(w), rule |-> RuleId[frame[w].rule],
                              status |-> "processing", ok |-> {}, ranAs |-> {frame[w].rule}]
  BY Started
<1>2. EventAt(w) \in Events /\ frame[w].rule \in Rules /\ "processing" \in ExecutionStatus
  BY <1>1, SlotFacts DEF StartNew, SlotRefs, InRule, ExecutionStatus
<1>3. executions \in Seq(Execution)
  BY DEF TypeInv, TypeOK, StoreTypeOK
<1>4. x = Len(executions) + 1
  BY <1>1, <1>2, <1>3, StartExecutionEffect DEF StartNew
<1> QED
  BY <1>1, <1>4

\* A new job is one a request adds for the event it has stored, or a replay for
\* the event of its execution, and then it is over.
LEMMA NewJobs ==
    ASSUME TypeInv, [Next]_vars, NEW j \in DOMAIN jobs', j \notin DOMAIN jobs
    PROVE  /\ jobs'[j].state = "waiting" /\ failedStream' = failedStream
           /\ j = Len(jobs) + 1
           /\ \A i \in DOMAIN jobs : jobs'[i] = jobs[i]
           /\ UNCHANGED <<executions, frame>>
           /\ \/ \E q \in Requests : /\ Stored(q) /\ jobs'[j].origin = "ingest"
                                     /\ jobs'[j].event = EventOf[q]
              \/ \E p \in Replays : /\ Replaying(p) /\ ~Replaying(p)' /\ jobs'[j].origin = "replay"
                                    /\ jobs'[j].event = ReplayedEvent(p)
<1>0. jobs \in Seq(Job) /\ failedStream \in SUBSET DOMAIN jobs
  BY DEF TypeInv, TypeOK, StoreTypeOK
<1>1. ASSUME NEW q \in Requests, AddJob(EventOf[q], "ingest"), Enqueue(q) \/ EnqueueFault(q), Ingest
      PROVE  /\ jobs'[j].state = "waiting" /\ failedStream' = failedStream
             /\ j = Len(jobs) + 1
             /\ \A i \in DOMAIN jobs : jobs'[i] = jobs[i]
             /\ UNCHANGED <<executions, frame>>
             /\ Stored(q) /\ jobs'[j].origin = "ingest" /\ jobs'[j].event = EventOf[q]
  <2>1. EventOf[q] \in Events
    BY IngestionAssumption
  <2>2. UNCHANGED <<executions, frame>> /\ Stored(q)
    BY <1>1 DEF Enqueue, EnqueueFault, Ingest, processorVars, Stored
  <2> QED
    BY <1>0, <1>1, <2>1, <2>2, AddJobEffect
<1>2. ASSUME NEW p \in Replays, Requeue(p) \/ ReplayFault(p), Replaying(p), Replay,
             AddJob(ReplayedEvent(p), "replay")
      PROVE  /\ jobs'[j].state = "waiting" /\ failedStream' = failedStream
             /\ j = Len(jobs) + 1
             /\ \A i \in DOMAIN jobs : jobs'[i] = jobs[i]
             /\ UNCHANGED <<executions, frame>>
             /\ Replaying(p) /\ ~Replaying(p)' /\ jobs'[j].origin = "replay"
             /\ jobs'[j].event = ReplayedEvent(p)
  <2>1. ReplayedEvent(p) \in Events
    BY <1>2, Indices DEF TypeInv, ReplayRefs, ReplayedEvent
  <2>2. replay'[p].pc \in {"enqueued", "error"}
    BY <1>2 DEF Requeue, ReplayFault, Advance, TypeInv, TypeOK, ReplayTypeOK
  <2>3. UNCHANGED <<executions, frame>>
    BY <1>2 DEF Requeue, ReplayFault, Replay, processorVars
  <2> QED
    BY <1>0, <1>2, <2>1, <2>2, <2>3, AddJobEffect DEF Replaying
<1> QED
  BY <1>1, <1>2, JobWrites, OtherJobWrites DEF Enqueue, JobsMove

\* An old job moves when a slot takes it or settles it, when it stalls, or when
\* it loses its lock, and then it keeps its state.
LEMMA JobMoves ==
    ASSUME TypeInv, [Next]_vars, NEW j \in DOMAIN jobs, jobs'[j] # jobs[j]
    PROVE  \/ \E w \in Workers : /\ PickUp(w, j) /\ jobs[j].state = "waiting"
                                 /\ jobs'[j].state = "active" /\ jobs'[j].owner = w
           \/ \E w \in Workers : /\ Settle(w) /\ frame[w].job = j /\ HoldsLock(w, j)
                                 /\ jobs'[j].state \in {"completed", "waiting", "failed"}
                                 /\ frame[w].pc = "thrown" /\ frame[w].discarded
                                       => jobs'[j].state = "failed"
           \/ /\ StallJob(j) /\ jobs[j].state = "active" /\ jobs[j].owner = None
              /\ jobs'[j].state \in {"waiting", "failed"}
           \/ /\ Crash \/ \E w \in Workers, i \in DOMAIN jobs : LoseLock(w, i)
              /\ jobs'[j].state = jobs[j].state
<1>0. jobs \in Seq(Job) /\ failedStream \in SUBSET DOMAIN jobs
  BY DEF TypeInv, TypeOK, StoreTypeOK
<1>1. ASSUME NEW w \in Workers, NEW i \in DOMAIN jobs, PickUp(w, i)
      PROVE  /\ PickUp(w, j) /\ jobs[j].state = "waiting"
             /\ jobs'[j].state = "active" /\ jobs'[j].owner = w
  BY <1>0, <1>1, TakeJobEffect DEF PickUp
<1>2. ASSUME NEW w \in Workers, Settle(w),
             CompleteJob(frame[w].job) \/ FailJob(frame[w].job, frame[w].discarded)
      PROVE  /\ frame[w].job = j /\ HoldsLock(w, j)
             /\ jobs'[j].state \in {"completed", "waiting", "failed"}
             /\ frame[w].pc = "thrown" /\ frame[w].discarded => jobs'[j].state = "failed"
  <2>1. frame[w].job \in DOMAIN jobs
    BY <1>2, SlotFacts DEF Settle
  <2>2. frame[w].job = j
    BY <1>0, <1>2, <2>1, CompleteJobEffect, FailJobEffect
  <2>3. /\ HoldsLock(w, j)
        /\ \/ frame[w].pc = "done" /\ CompleteJob(j)
           \/ frame[w].pc = "thrown" /\ FailJob(j, frame[w].discarded)
    BY <1>2, <2>2 DEF Settle, queueVars
  <2> QED
    BY <1>0, <2>2, <2>3, CompleteJobEffect, FailJobEffect
<1>3. ASSUME NEW i \in DOMAIN jobs, StallJob(i)
      PROVE  /\ StallJob(j) /\ jobs[j].state = "active" /\ jobs[j].owner = None
             /\ jobs'[j].state \in {"waiting", "failed"}
  BY <1>0, <1>3, StallJobEffect
<1>4. ASSUME Crash \/ \E w \in Workers, i \in DOMAIN jobs : LoseLock(w, i)
      PROVE  jobs'[j].state = jobs[j].state
  <2>1. /\ jobs' = [i \in DOMAIN jobs |-> jobs'[i]] /\ failedStream' \in SUBSET failedStream
        /\ \A i \in DOMAIN jobs : jobs'[i] \in {jobs[i], [jobs[i] EXCEPT !.owner = None]}
    BY <1>4 DEF Crash, LoseLock
  <2> QED
    BY <1>0, <2>1, DisownEffect
<1>5. ASSUME NEW e \in Events, NEW origin \in {"ingest", "replay"}, AddJob(e, origin)
      PROVE  FALSE
  BY <1>0, <1>5, AddJobEffect
<1>6. ASSUME NEW q \in Requests, AddJob(EventOf[q], "ingest")
      PROVE  FALSE
  BY <1>5, <1>6, IngestionAssumption
<1>7. ASSUME NEW p \in Replays, Replaying(p), AddJob(ReplayedEvent(p), "replay")
      PROVE  FALSE
  BY <1>5, <1>7, Indices DEF TypeInv, ReplayRefs, ReplayedEvent
<1> QED
  BY <1>1, <1>2, <1>3, <1>4, <1>6, <1>7, JobWrites DEF Enqueue

\* A replay that moves has just been checked, or goes on with its execution.
LEMMA ReplayMoves ==
    ASSUME TypeInv, [Next]_vars, NEW p \in Replays, replay'[p] # replay[p]
    PROVE  \/ \E x \in DOMAIN executions :
                 /\ p \notin ActiveReplays
                 /\ replay'[p].exec = x /\ replay'[p].pc \in {"checked", "rejected"}
                 /\ replay'[p].pc = "checked" => executions[x].status = "failed"
                 /\ UNCHANGED <<executions, jobs, frame, mishaps>>
                 /\ \A o \in Replays : o # p => replay'[o] = replay[o]
           \/ /\ Replaying(p) /\ p \in ActiveReplays'
              /\ replay'[p].exec = replay[p].exec
              /\ replay'[p].pc \notin {"idle", "rejected", "checked"}
              /\ replay'[p].pc = "logged" => replay[p].pc = "checked"
<1>0. replay \in [Replays -> [pc: ReplayPc, exec: Nat]]
  BY DEF TypeInv, TypeOK, ReplayTypeOK
<1>1. ASSUME NEW o \in Replays, NEW x \in DOMAIN executions, CheckFailed(o, x), Replay
      PROVE  /\ p \notin ActiveReplays
             /\ replay'[p].exec = x /\ replay'[p].pc \in {"checked", "rejected"}
             /\ replay'[p].pc = "checked" => executions[x].status = "failed"
             /\ UNCHANGED <<executions, jobs, frame, mishaps>>
             /\ \A q \in Replays : q # p => replay'[q] = replay[q]
  BY <1>0, <1>1 DEF CheckFailed, ActiveReplays, storeVars, Replay, processorVars
<1>2. ASSUME NEW o \in Replays, NEW pc \in {"logged", "error", "reset", "enqueued"},
             Replaying(o), Advance(o, pc), pc = "logged" => replay[o].pc = "checked"
      PROVE  /\ Replaying(p) /\ p \in ActiveReplays'
             /\ replay'[p].exec = replay[p].exec
             /\ replay'[p].pc \notin {"idle", "rejected", "checked"}
             /\ replay'[p].pc = "logged" => replay[p].pc = "checked"
  BY <1>0, <1>2 DEF Advance, ActiveReplays
<1>3. ASSUME NEW o \in Replays,
             \/ SaveHistory(o) \/ RefuseReason(o) \/ ResetExecution(o) \/ Requeue(o)
             \/ ReplayFault(o)
      PROVE  \E pc \in {"logged", "error", "reset", "enqueued"} :
                Replaying(o) /\ Advance(o, pc) /\ (pc = "logged" => replay[o].pc = "checked")
  BY <1>3 DEF SaveHistory, RefuseReason, ResetExecution, Requeue, ReplayFault, Replaying
<1>4. CASE Replay
  BY <1>1, <1>2, <1>3, <1>4 DEF Replay, ReplayNext
<1>5. CASE Crash
  BY <1>0, <1>5 DEF Crash, ActiveReplays, Replaying
<1>6. CASE ~Replay /\ ~Crash
  BY <1>6 DEF Next, Ingest, Work, Listen, Administer, Manage, replayVars, vars
<1> QED
  BY <1>4, <1>5, <1>6

\* An accepted replay keeps its execution, and does not start again.
LEMMA ReplaysGoOn ==
    ASSUME TypeInv, [Next]_vars, NEW p \in ActiveReplays
    PROVE  /\ p \in ActiveReplays'
           /\ replay'[p].exec = replay[p].exec
           /\ ~Replaying(p) => ~Replaying(p)'
<1>1. p \in Replays
  BY DEF ActiveReplays
<1> QED
  BY <1>1, ReplayMoves, ActiveReplaysStay DEF Replaying

-----------------------------------------------------------------------------
(* Mishaps, and what single file means *)

\* What has not happened had not happened before.
LEMMA CalmBefore ==
    ASSUME TypeInv, [Next]_vars, NEW kinds \in SUBSET Mishaps, Calm(kinds)'
    PROVE  Calm(kinds)
BY MishapsCount DEF Calm

\* Each mishap is counted as it happens.
LEMMA CalmExcludes ==
    ASSUME TypeInv, [Next]_vars
    PROVE  /\ Calm({"crash"})' => ~Crash
           /\ Calm({"lockLost"})' => ~\E w \in Workers, j \in DOMAIN jobs : LoseLock(w, j)
           /\ Calm({"dbFault"})' => ~\E w \in Workers : DbFault(w)
           /\ Calm({"ruleEdit"})' => ~\E r \in Rules : EditRule(r)
<1>1. /\ mishaps \in [Mishaps -> Nat] /\ {"dbFault", "ruleEdit"} \subseteq Mishaps
  BY DEF TypeInv, TypeOK, StoreTypeOK, Mishaps
<1>2. ASSUME NEW m \in Mishaps, Suffer(m)
      PROVE  mishaps'[m] # 0
  BY <1>1, <1>2 DEF Suffer
<1>3. /\ (\E w \in Workers : DbFault(w)) => mishaps'["dbFault"] # 0
      /\ (\E r \in Rules : EditRule(r)) => mishaps'["ruleEdit"] # 0
  BY <1>1, <1>2 DEF DbFault, EditRule
<1>4. /\ Crash => mishaps'["crash"] # 0
      /\ (\E w \in Workers, j \in DOMAIN jobs : LoseLock(w, j)) => mishaps'["lockLost"] # 0
  BY MishapsCount
<1> QED
  BY <1>3, <1>4 DEF Calm

\* The accepted replays are finitely many, so they can be counted.
LEMMA FinitelyManyReplays == Spec => []IsFiniteSet(ActiveReplays)
<1>1. Init => IsFiniteSet(ActiveReplays)
  <2>1. Init => ActiveReplays = {}
    BY DEF Init, ReplayInit, ActiveReplays
  <2> QED
    BY <2>1, FS_EmptySet
<1>2. TypeInv /\ IsFiniteSet(ActiveReplays) /\ [Next]_vars => IsFiniteSet(ActiveReplays)'
  <2> SUFFICES ASSUME TypeInv, IsFiniteSet(ActiveReplays), [Next]_vars
               PROVE  IsFiniteSet(ActiveReplays')
    OBVIOUS
  <2>1. CASE \A p \in ActiveReplays' : p \in ActiveReplays
    <3>1. ActiveReplays' = ActiveReplays
      BY <2>1, ActiveReplaysStay
    <3> QED
      BY <3>1
  <2>2. ASSUME NEW p \in ActiveReplays', p \notin ActiveReplays
        PROVE  IsFiniteSet(ActiveReplays')
    <3>1. p \in Replays /\ replay'[p] # replay[p] /\ ~Replaying(p)
      BY <2>2 DEF ActiveReplays, Replaying
    <3>2. \A o \in Replays : o # p => replay'[o] = replay[o]
      BY <3>1, ReplayMoves
    <3>3. ActiveReplays' = ActiveReplays \cup {p}
      BY <2>2, <3>1, <3>2 DEF ActiveReplays
    <3> QED
      BY <3>3, FS_AddElement
  <2> QED
    BY <2>1, <2>2
<1> QED
  BY <1>1, <1>2, ReferencesExist, PTL DEF Spec

\* At most one replay, counted, is at most one.
LEMMA CountedReplays ==
    ASSUME IsFiniteSet(ActiveReplays), Cardinality(ActiveReplays) <= 1
    PROVE  AtMostOneReplay
<1> SUFFICES ASSUME NEW p \in ActiveReplays, NEW o \in ActiveReplays, p # o
             PROVE  FALSE
  BY DEF AtMostOneReplay
<1>1. Cardinality(ActiveReplays) \in Nat
  BY FS_CardinalityType
<1>2. /\ IsFiniteSet(ActiveReplays \ {p})
      /\ Cardinality(ActiveReplays \ {p}) = Cardinality(ActiveReplays) - 1
  BY FS_RemoveElement
<1>3. Cardinality(ActiveReplays \ {p}) \in Nat
  BY <1>2, FS_CardinalityType
<1>4. Cardinality(ActiveReplays \ {p}) = 0
  BY <1>1, <1>2, <1>3
<1>5. ActiveReplays \ {p} = {}
  BY <1>2, <1>4, FS_EmptySet
<1> QED
  BY <1>5

\* So SingleFile may be read without the count.
LEMMA SingleFileIsSingle ==
    ASSUME IsFiniteSet(ActiveReplays), SingleFile
    PROVE  Single
<1>1. CASE ActiveReplays = {}
  BY <1>1 DEF SingleFile, Single, AtMostOneReplay
<1>2. CASE Cardinality(ActiveReplays) = 1 /\ Calm({"crash"})
  <2>1. AtMostOneReplay
    BY <1>2, CountedReplays
  <2> QED
    BY <1>2, <2>1 DEF SingleFile, Single
<1> QED
  BY <1>1, <1>2 DEF SingleFile

\* Who is in single file has been so from the start.
LEMMA SingleBefore ==
    ASSUME TypeInv, [Next]_vars
    PROVE  /\ AtMostOneReplay' => AtMostOneReplay
           /\ Single' => Single
<1>1. ActiveReplays \subseteq ActiveReplays'
  BY ActiveReplaysStay
<1>2. /\ Calm({"lockLost"})' => Calm({"lockLost"})
      /\ Calm({"crash"})' => Calm({"crash"})
  BY CalmBefore DEF Mishaps
<1> QED
  BY <1>1, <1>2 DEF AtMostOneReplay, Single

-----------------------------------------------------------------------------
(* The queue *)

\* A job that is settled stays so.
LEMMA SettledJobs ==
    ASSUME TypeInv, [Next]_vars, NEW j \in DOMAIN jobs, jobs[j].state \in {"completed", "failed"}
    PROVE  j \in DOMAIN jobs' /\ jobs'[j].state = jobs[j].state
<1>1. j \in DOMAIN jobs'
  BY NextGrows DEF JobsGrow
<1>2. CASE jobs'[j] = jobs[j]
  BY <1>1, <1>2
<1>3. CASE jobs'[j] # jobs[j]
  BY <1>1, <1>3, JobMoves DEF HoldsLock
<1> QED
  BY <1>2, <1>3

\* What the listener is told of, now or later, has failed.
LEMMA NoticesStep ==
    ASSUME TypeInv, QueueInv, [Next]_vars
    PROVE  \A j \in failedStream' \cup recovering' : jobs'[j].state = "failed"
<1>0. /\ \A j \in failedStream \cup recovering :
            j \in DOMAIN jobs /\ j \in DOMAIN jobs' /\ jobs'[j].state = "failed"
      /\ jobs \in Seq(Job) /\ failedStream \in SUBSET DOMAIN jobs
  BY SettledJobs DEF QueueInv, TypeInv, TypeOK, StoreTypeOK, ListenerTypeOK
<1>1. CASE Listen \/ Administer \/ Crash \/ Replay \/ Ingest \/ UNCHANGED vars
  <2>1. failedStream' \cup recovering' \subseteq failedStream \cup recovering
    <3>1. CASE Listen
      BY <3>1 DEF Listen, ListenerNext, ListenerStep, FailEvent, FailExecutions, LoseNotice,
         ListenerFault, Deliver, queueVars
    <3>2. CASE Administer \/ Crash \/ UNCHANGED vars
      BY <3>2 DEF Administer, SuspendTenant, EditRule, Crash, queueVars, vars, storeVars,
         listenerVars
    <3>3. CASE Replay
      BY <3>3 DEF Replay, ReplayNext, CheckFailed, SaveHistory, RefuseReason, ResetExecution,
         Requeue, ReplayFault, AddJob, queueVars, storeVars, listenerVars
    <3>4. CASE Ingest
      BY <3>4 DEF Ingest, IngestionNext, Admit, Refuse, RejectDelivery, SaveEvent, SaveDuplicate,
         ReturnExisting, Enqueue, EnqueueFault, SaveFault, AddJob, queueVars, storeVars,
         listenerVars
    <3> QED
      BY <1>1, <3>1, <3>2, <3>3, <3>4
  <2> QED
    BY <1>0, <2>1
<1>2. CASE Work
  <2>1. recovering' = recovering
    BY <1>2 DEF Work, listenerVars
  <2>2. ASSUME NEW w \in Workers, Settle(w), ~UNCHANGED queueVars
        PROVE  \A j \in failedStream' : jobs'[j].state = "failed"
    <3>1. /\ frame[w].job \in DOMAIN jobs
          /\ CompleteJob(frame[w].job) \/ FailJob(frame[w].job, frame[w].discarded)
      BY <2>2, SlotFacts DEF Settle
    <3> QED
      BY <1>0, <3>1, CompleteJobEffect, FailJobEffect
  <2>3. failedStream' = failedStream \/ \E w \in Workers : Settle(w) /\ ~UNCHANGED queueVars
    BY <1>2 DEF Work, ProcessorNext, ProcessorStep, DbFault, PickUp, TakeJob, LockEvent, SkipEvent,
       CheckTenant, LoadRules, FindExecution, StartNew, Resume, SkipAction, PerformAction,
       FailAction, LogSuccess, LogFailure, FinishExecution, MarkExecution, CompleteEvent,
       RevertEvent, storeVars, queueVars
  <2> QED
    BY <1>0, <2>1, <2>2, <2>3
<1>3. CASE Manage
  <2>1. recovering' = recovering
    BY <1>3 DEF Manage, listenerVars
  <2>2. ASSUME NEW j \in DOMAIN jobs, StallJob(j)
        PROVE  \A i \in failedStream' : jobs'[i].state = "failed"
    BY <1>0, <2>2, StallJobEffect
  <2>3. failedStream' = failedStream \/ \E j \in DOMAIN jobs : StallJob(j)
    BY <1>3 DEF Manage, LoseLock
  <2> QED
    BY <1>0, <2>1, <2>2, <2>3
<1> QED
  BY <1>1, <1>2, <1>3 DEF Next

\* A live job keeps an owner, and only who leaves has discarded its job.
LEMMA QueueStep == TypeInv /\ QueueInv /\ [Next]_vars => QueueInv'
<1> SUFFICES ASSUME TypeInv, QueueInv, [Next]_vars
             PROVE  QueueInv'
  OBVIOUS
<1>1. ASSUME Calm({"crash", "lockLost"})', NEW j \in DOMAIN jobs', jobs'[j].state = "active"
      PROVE  jobs'[j].owner # None
  <2>1. /\ Calm({"crash", "lockLost"}) /\ ~Crash
        /\ ~\E w \in Workers, i \in DOMAIN jobs : LoseLock(w, i)
    BY <1>1, CalmBefore, CalmExcludes DEF Mishaps, Calm
  <2>2. j \in DOMAIN jobs
    BY <1>1, NewJobs
  <2>3. CASE jobs'[j] = jobs[j]
    BY <1>1, <2>1, <2>2, <2>3 DEF QueueInv
  <2>4. CASE jobs'[j] # jobs[j]
    <3>1. None \notin Workers
      BY StoreAssumption
    <3> QED
      BY <1>1, <2>1, <2>2, <2>4, <3>1, JobMoves
  <2> QED
    BY <2>3, <2>4
<1>2. ASSUME NEW w \in Workers, frame'[w].discarded
      PROVE  frame'[w].pc \in {"revert", "thrown"}
  <2>1. CASE frame'[w] = frame[w]
    BY <1>2, <2>1 DEF QueueInv
  <2>2. CASE frame'[w] # frame[w]
    BY <1>2, <2>2, Arrivals, RuleSteps DEF QueueInv
  <2> QED
    BY <2>1, <2>2
<1> QED
  BY <1>1, <1>2, NoticesStep DEF QueueInv

\* Where jobs and executions come from, they came from.
LEMMA OriginStep == TypeInv /\ OriginInv /\ [Next]_vars => OriginInv'
<1> SUFFICES ASSUME TypeInv, OriginInv, [Next]_vars
             PROVE  OriginInv'
  OBVIOUS
<1>0. /\ \A e \in Events : IngestJobs(e) # {} => IngestJobs(e)' # {}
      /\ \A j \in DOMAIN jobs : /\ jobs[j].event \in Events /\ j \in DOMAIN jobs'
                                /\ jobs'[j].event = jobs[j].event
                                /\ jobs'[j].origin = jobs[j].origin
      /\ \A x \in DOMAIN executions : /\ executions[x].event \in Events /\ x \in DOMAIN executions'
                                      /\ executions'[x].event = executions[x].event
  BY Indices, NextGrows DEF IngestJobs, JobsGrow, ExecutionsGrow
<1>1. ASSUME NEW j \in DOMAIN jobs'
      PROVE  IngestJobs(jobs[j].event)' # {}
  <2>1. CASE j \in DOMAIN jobs
    BY <1>0, <2>1 DEF OriginInv
  <2>2. ASSUME j \notin DOMAIN jobs, jobs'[j].origin = "ingest"
        PROVE  IngestJobs(jobs[j].event)' # {}
    BY <2>2 DEF IngestJobs
  <2>3. ASSUME NEW p \in Replays, Replaying(p), jobs'[j].event = ReplayedEvent(p)
        PROVE  IngestJobs(jobs[j].event)' # {}
    <3>1. replay[p].exec \in DOMAIN executions
      BY <2>3 DEF TypeInv, ReplayRefs
    <3> QED
      BY <1>0, <2>3, <3>1 DEF OriginInv, ReplayedEvent
  <2> QED
    BY <2>1, <2>2, <2>3, NewJobs
<1>2. ASSUME NEW x \in DOMAIN executions'
      PROVE  IngestJobs(executions[x].event)' # {}
  <2>1. CASE x \in DOMAIN executions
    BY <1>0, <2>1 DEF OriginInv
  <2>2. CASE x \notin DOMAIN executions
    <3>1. PICK w \in Workers : StartNew(w) /\ executions'[x].event = EventAt(w)
      BY <2>2, NewExecutions
    <3>2. frame[w].job \in DOMAIN jobs
      BY <3>1, SlotFacts DEF StartNew
    <3> QED
      BY <1>0, <3>1, <3>2 DEF OriginInv, EventAt
  <2> QED
    BY <2>1, <2>2
<1>3. ASSUME NEW p \in ActiveReplays'
      PROVE  replay'[p].exec \in DOMAIN executions'
  <2>1. CASE p \in ActiveReplays
    BY <1>0, <2>1, ReplaysGoOn DEF OriginInv
  <2>2. CASE p \notin ActiveReplays
    <3>1. p \in Replays /\ replay'[p] # replay[p] /\ ~Replaying(p)
      BY <2>2 DEF ActiveReplays, Replaying
    <3> QED
      BY <1>0, <3>1, ReplayMoves
  <2> QED
    BY <2>1, <2>2
<1>4. ASSUME NEW j \in DOMAIN jobs', jobs'[j].origin = "replay"
      PROVE  \E p \in ActiveReplays' : ~Replaying(p)' /\ ReplaysEvent(p, jobs[j].event)'
  <2>1. CASE j \in DOMAIN jobs
    <3>1. PICK p \in ActiveReplays : ~Replaying(p) /\ ReplaysEvent(p, jobs[j].event)
      BY <1>0, <1>4, <2>1 DEF OriginInv
    <3>2. p \in ActiveReplays' /\ ~Replaying(p)' /\ replay'[p].exec = replay[p].exec
      BY <3>1, ReplaysGoOn
    <3> QED
      BY <1>0, <2>1, <3>1, <3>2 DEF ReplaysEvent
  <2>2. CASE j \notin DOMAIN jobs
    <3>1. PICK p \in Replays : /\ Replaying(p) /\ ~Replaying(p)'
                               /\ jobs'[j].event = ReplayedEvent(p)
      BY <1>4, <2>2, NewJobs
    <3>2. p \in ActiveReplays /\ replay[p].exec \in DOMAIN executions
      BY <3>1 DEF ActiveReplays, Replaying, TypeInv, ReplayRefs
    <3>3. p \in ActiveReplays' /\ replay'[p].exec = replay[p].exec
      BY <3>2, ReplaysGoOn
    <3> QED
      BY <1>0, <3>1, <3>2, <3>3 DEF ReplaysEvent, ReplayedEvent
  <2> QED
    BY <2>1, <2>2
<1>5. ASSUME AtMostOneReplay', NEW j \in DOMAIN jobs', NEW k \in DOMAIN jobs',
             jobs'[j].origin = "replay", jobs'[k].origin = "replay"
      PROVE  j = k
  <2>1. AtMostOneReplay
    BY <1>5, SingleBefore
  <2>2. CASE j \in DOMAIN jobs /\ k \in DOMAIN jobs
    BY <1>0, <1>5, <2>1, <2>2 DEF OriginInv
  <2>3. ASSUME NEW i \in DOMAIN jobs, NEW n \in DOMAIN jobs', n \notin DOMAIN jobs,
               jobs'[i].origin = "replay", jobs'[n].origin = "replay"
        PROVE  FALSE
    <3>1. PICK p \in Replays : Replaying(p)
      BY <2>3, NewJobs
    <3>2. PICK o \in ActiveReplays : ~Replaying(o)
      BY <1>0, <2>3 DEF OriginInv
    <3>3. p \in ActiveReplays
      BY <3>1 DEF ActiveReplays, Replaying
    <3> QED
      BY <2>1, <3>1, <3>2, <3>3 DEF AtMostOneReplay
  <2>4. CASE j \notin DOMAIN jobs /\ k \notin DOMAIN jobs
    BY <2>4, NewJobs
  <2> QED
    BY <1>5, <2>2, <2>3, <2>4
<1> QED
  BY <1>1, <1>2, <1>3, <1>4, <1>5 DEF OriginInv

-----------------------------------------------------------------------------
(* FailedHaltsRetries *)

\* A job that will not run again stays such, while nobody dies or loses a lock.
LEMMA SpentStays ==
    ASSUME TypeInv, QueueInv, [Next]_vars, Calm({"crash", "lockLost"})',
           NEW j \in DOMAIN jobs, Spent(j)
    PROVE  Spent(j)'
<1>0. /\ ~Crash
      /\ ~\E w \in Workers, i \in DOMAIN jobs : LoseLock(w, i)
      /\ None \notin Workers
  BY CalmExcludes, StoreAssumption DEF Calm
<1>1. CASE jobs[j].state \in {"completed", "failed"}
  BY <1>1, SettledJobs DEF Spent
<1>2. ASSUME NEW w \in Workers, HoldsLock(w, j), frame[w].job = j, frame[w].discarded
      PROVE  Spent(j)'
  <2>1. frame[w].pc \in {"revert", "thrown"}
    BY <1>2 DEF QueueInv
  <2>2. ASSUME NEW v \in Workers, Settle(v), frame[v].job = j, HoldsLock(v, j), jobs'[j] # jobs[j]
        PROVE  Spent(j)'
    <3>1. v = w
      BY <1>2, <2>2 DEF HoldsLock
    <3>2. frame[v].pc = "thrown"
      BY <2>1, <2>2, <3>1, CallSteps
    <3>3. \A u \in Workers : HoldsLock(u, j) => u = w
      BY <1>2 DEF HoldsLock
    <3>4. /\ jobs[j].state = "active" /\ jobs[j].owner # None
      BY <1>0, <1>2 DEF HoldsLock
    <3>5. PICK u \in Workers :
             /\ HoldsLock(u, j)
             /\ frame[u].pc = "thrown" /\ frame[u].discarded => jobs'[j].state = "failed"
      BY <1>0, <2>2, <3>4, JobMoves
    <3>6. jobs'[j].state = "failed"
      BY <1>2, <3>1, <3>2, <3>3, <3>5
    <3> QED
      BY <3>6 DEF Spent
  <2>3. CASE jobs'[j] = jobs[j]
    <3>1. frame'[w].pc # "idle" /\ frame'[w].job = j /\ frame'[w].discarded
      <4>1. CASE frame'[w] = frame[w]
        BY <1>2, <2>1, <4>1
      <4>2. CASE RevertEvent(w) \/ DbFault(w)
        BY <1>2, <2>1, <4>2, CallSteps, ActionSteps DEF SameRule, SameCall
      <4>3. CASE Settle(w)
        <5>1. FailJob(j, frame[w].discarded)
          BY <1>2, <2>1, <4>3, CallSteps DEF Settle
        <5>2. jobs'[j].state \in {"waiting", "failed"}
          BY <5>1, FailJobEffect DEF TypeInv, TypeOK, StoreTypeOK
        <5> QED
          BY <1>2, <2>3, <5>2 DEF HoldsLock
      <4>4. CASE ProcessorStep(w) /\ ~RevertEvent(w) /\ ~Settle(w)
        BY <2>1, <4>4, CallSteps, RuleSteps, ActionSteps DEF ProcessorStep
      <4>5. ASSUME NEW i \in DOMAIN jobs, PickUp(w, i)
            PROVE  FALSE
        BY <2>1, <4>5, CallSteps
      <4> QED
        BY <1>0, <4>1, <4>2, <4>3, <4>4, <4>5, SlotMoves
    <3> QED
      BY <1>2, <2>3, <3>1 DEF Spent, HoldsLock
  <2>4. CASE jobs'[j] # jobs[j]
    <3>1. jobs[j].state = "active" /\ jobs[j].owner # None
      BY <1>0, <1>2 DEF HoldsLock
    <3>2. \E v \in Workers : Settle(v) /\ frame[v].job = j /\ HoldsLock(v, j)
      BY <1>0, <2>4, <3>1, JobMoves
    <3> QED
      BY <2>2, <2>4, <3>2
  <2> QED
    BY <2>3, <2>4
<1> QED
  BY <1>1, <1>2 DEF Spent

\* Without replays the jobs of an event are one.
LEMMA OneJob ==
    ASSUME TypeInv, IngestInv, OriginInv, ActiveReplays = {},
           NEW j \in DOMAIN jobs, NEW k \in DOMAIN jobs, jobs[j].event = jobs[k].event
    PROVE  j = k
<1>1. /\ jobs[j].event \in Events
      /\ jobs[j].origin \in {"ingest", "replay"} /\ jobs[k].origin \in {"ingest", "replay"}
  BY Indices DEF Job
<1>2. jobs[j].origin = "ingest" /\ jobs[k].origin = "ingest"
  BY <1>1 DEF OriginInv
<1>3. j \in IngestJobs(jobs[j].event) /\ k \in IngestJobs(jobs[j].event)
  BY <1>2 DEF IngestJobs
<1> QED
  BY <1>1, <1>3 DEF IngestInv, OneIngestJob

\* An event that has an execution gets no second job from a delivery.
LEMMA NoLateDelivery ==
    ASSUME TypeInv, IngestInv, OriginInv, [Next]_vars,
           NEW j \in DOMAIN jobs', j \notin DOMAIN jobs, jobs'[j].origin = "ingest",
           NEW x \in DOMAIN executions, executions[x].event = jobs'[j].event
    PROVE  FALSE
<1>1. PICK q \in Requests : Stored(q) /\ jobs'[j].event = EventOf[q]
  BY NewJobs
<1>2. IngestJobs(EventOf[q]) = {}
  BY <1>1 DEF IngestInv
<1>3. IngestJobs(executions[x].event) # {}
  BY DEF OriginInv
<1> QED
  BY <1>1, <1>2, <1>3

\* An execution fails for good with its job, and a replay starts from there.
LEMMA SpentStep ==
    TypeInv /\ IngestInv /\ LocksHeld /\ QueueInv /\ OriginInv /\ SpentInv /\ [Next]_vars => SpentInv'
<1> SUFFICES ASSUME TypeInv, IngestInv, LocksHeld, QueueInv, OriginInv, SpentInv, [Next]_vars,
                    Calm({"crash", "lockLost"})'
             PROVE  /\ ActiveReplays' = {} =>
                          \A x \in DOMAIN executions' : executions'[x].status = "failed" =>
                             \A j \in DOMAIN jobs' : jobs'[j].event = executions'[x].event => Spent(j)'
                    /\ AtMostOneReplay' =>
                          \A p \in ActiveReplays' : \A j \in DOMAIN jobs' :
                             jobs'[j].origin = "ingest" /\ ReplaysEvent(p, jobs[j].event)' => Spent(j)'
  BY DEF SpentInv
<1>0. /\ Calm({"crash", "lockLost"}) /\ Calm({"lockLost"}) /\ ~Crash
      /\ \A j \in DOMAIN jobs : /\ jobs[j].event \in Events /\ j \in DOMAIN jobs'
                                /\ jobs'[j].event = jobs[j].event
                                /\ jobs'[j].origin = jobs[j].origin
      /\ \A x \in DOMAIN executions : /\ x \in DOMAIN executions'
                                      /\ executions'[x].event = executions[x].event
      /\ ActiveReplays \subseteq ActiveReplays'
  BY CalmBefore, CalmExcludes, Indices, NextGrows, ActiveReplaysStay DEF Mishaps, Calm, JobsGrow, ExecutionsGrow
<1>1. ASSUME ActiveReplays' = {}, NEW x \in DOMAIN executions', executions'[x].status = "failed",
             NEW j \in DOMAIN jobs', jobs'[j].event = executions'[x].event
      PROVE  Spent(j)'
  <2>0. ActiveReplays = {}
    BY <1>0, <1>1
  <2>1. x \in DOMAIN executions
    BY <1>1, NewExecutions
  <2>2. j \in DOMAIN jobs
    <3> SUFFICES ASSUME j \notin DOMAIN jobs
                 PROVE  FALSE
      OBVIOUS
    <3>1. jobs'[j].origin # "ingest"
      BY <1>0, <1>1, <2>1, NoLateDelivery
    <3>2. PICK p \in Replays : Replaying(p)
      BY <1>1, <3>1, NewJobs
    <3> QED
      BY <2>0, <3>2 DEF ActiveReplays, Replaying
  <2>3. CASE executions[x].status = "failed"
    BY <1>0, <1>1, <2>0, <2>1, <2>2, <2>3, SpentStays DEF SpentInv
  <2>4. ASSUME NEW w \in Workers, MarkExecution(w), frame[w].err # "retryable",
               executions[x].event = EventAt(w)
        PROVE  Spent(j)'
    <3>1. /\ frame[w].job \in DOMAIN jobs /\ HoldsLock(w, frame[w].job)
      BY <1>0, <2>4, SlotFacts DEF LocksHeld, Busy, MarkExecution
    <3>2. frame[w].job = j
      BY <1>0, <1>1, <2>0, <2>1, <2>2, <2>4, <3>1, OneJob DEF EventAt
    <3>3. frame'[w].job = j /\ frame'[w].discarded
      BY <2>4, <3>2, RuleSteps
    <3>4. jobs' = jobs
      BY <2>4 DEF MarkExecution, queueVars
    <3> QED
      BY <3>1, <3>2, <3>3, <3>4 DEF Spent, HoldsLock
  <2>5. ASSUME NEW i \in DOMAIN jobs, FailExecutions(i), jobs[i].event = executions[x].event
        PROVE  Spent(j)'
    <3>1. i = j
      BY <1>0, <1>1, <2>0, <2>1, <2>2, <2>5, OneJob
    <3>2. jobs[j].state = "failed"
      BY <2>5, <3>1 DEF FailExecutions, QueueInv
    <3> QED
      BY <2>2, <3>2, SettledJobs DEF Spent
  <2>6. ASSUME executions[x].status # "failed"
        PROVE  \/ \E w \in Workers : /\ MarkExecution(w) /\ frame[w].err # "retryable"
                                     /\ executions[x].event = EventAt(w)
               \/ \E i \in DOMAIN jobs : FailExecutions(i) /\ jobs[i].event = executions[x].event
    BY <1>1, <2>1, <2>6, StatusMoves
  <2> QED
    BY <2>3, <2>4, <2>5, <2>6
<1>2. ASSUME AtMostOneReplay', NEW p \in ActiveReplays', NEW j \in DOMAIN jobs',
             jobs'[j].origin = "ingest", ReplaysEvent(p, jobs[j].event)'
      PROVE  Spent(j)'
  <2>0. AtMostOneReplay
    BY <1>2, SingleBefore
  <2>1. CASE p \in ActiveReplays
    <3>1. /\ replay'[p].exec = replay[p].exec /\ replay[p].exec \in DOMAIN executions
          /\ executions[replay[p].exec].event = jobs'[j].event
      BY <1>0, <1>2, <2>1, ReplaysGoOn DEF OriginInv, ReplaysEvent
    <3>2. j \in DOMAIN jobs
      BY <1>2, <3>1, NoLateDelivery
    <3>3. Spent(j)
      BY <1>0, <1>2, <2>0, <2>1, <3>1, <3>2 DEF SpentInv, ReplaysEvent
    <3> QED
      BY <3>2, <3>3, SpentStays
  <2>2. CASE p \notin ActiveReplays
    <3>0. p \in Replays /\ replay'[p] # replay[p] /\ ~Replaying(p) /\ replay'[p].pc # "rejected"
      BY <1>2, <2>2 DEF ActiveReplays, Replaying
    <3>1. PICK x \in DOMAIN executions :
             /\ replay'[p].exec = x /\ executions[x].status = "failed"
             /\ UNCHANGED <<executions, jobs, frame>>
      BY <3>0, ReplayMoves
    <3>2. ActiveReplays = {}
      BY <1>0, <1>2, <2>2 DEF AtMostOneReplay
    <3>3. Spent(j)
      BY <1>0, <1>2, <3>1, <3>2 DEF SpentInv, ReplaysEvent
    <3> QED
      BY <1>2, <3>1, <3>3 DEF Spent, HoldsLock
  <2> QED
    BY <2>1, <2>2
<1> QED
  BY <1>1, <1>2

-----------------------------------------------------------------------------
(* Who is at work on an event *)

\* A call that may still act on its event.
AtWork(w) == frame[w].pc \notin {"idle", "revert", "thrown"}

\* Its job is not spent.
LEMMA LiveCall ==
    ASSUME TypeInv, LocksHeld, QueueInv, Calm({"lockLost"}), NEW w \in Workers, AtWork(w)
    PROVE  /\ frame[w].job \in DOMAIN jobs /\ EventAt(w) \in Events
           /\ HoldsLock(w, frame[w].job)
           /\ ~Spent(frame[w].job)
<1>1. frame[w].job \in DOMAIN jobs /\ EventAt(w) \in Events
  BY SlotFacts DEF AtWork
<1>2. HoldsLock(w, frame[w].job)
  BY DEF LocksHeld, Busy, AtWork
<1>3. ~frame[w].discarded
  BY DEF QueueInv, AtWork
<1> QED
  BY <1>1, <1>2, <1>3 DEF Spent, HoldsLock

\* The delivered job of an event that has been replayed is spent.
LEMMA ReplayedIsSpent ==
    ASSUME SpentInv, Single, NEW p \in ActiveReplays, NEW j \in DOMAIN jobs,
           jobs[j].origin = "ingest", ReplaysEvent(p, jobs[j].event)
    PROVE  Spent(j)
<1>1. Calm({"crash", "lockLost"}) /\ AtMostOneReplay
  BY DEF Single, Calm
<1> QED
  BY <1>1 DEF SpentInv

\* In single file one call is at work on an event.
LEMMA OneCall ==
    ASSUME TypeInv, SingleFileInv, Single,
           NEW v \in Workers, NEW w \in Workers, AtWork(v), AtWork(w), EventAt(v) = EventAt(w)
    PROVE  v = w
<1>0. TypeInv /\ LocksHeld /\ QueueInv /\ OriginInv /\ Calm({"lockLost"})
      /\ AtMostOneReplay
  BY DEF SingleFileInv, Single
<1>1. /\ frame[v].job \in DOMAIN jobs /\ HoldsLock(v, frame[v].job) /\ ~Spent(frame[v].job)
      /\ frame[w].job \in DOMAIN jobs /\ HoldsLock(w, frame[w].job) /\ ~Spent(frame[w].job)
      /\ EventAt(v) \in Events
      /\ jobs[frame[v].job].event = EventAt(v) /\ jobs[frame[w].job].event = EventAt(v)
  BY <1>0, LiveCall DEF EventAt
<1>2. jobs[frame[v].job] \in Job /\ jobs[frame[w].job] \in Job
  BY <1>1, Indices
<1>3. CASE jobs[frame[v].job].origin = "ingest" /\ jobs[frame[w].job].origin = "ingest"
  <2>1. frame[v].job = frame[w].job
    BY <1>1, <1>3 DEF SingleFileInv, IngestInv, OneIngestJob, IngestJobs
  <2> QED
    BY <1>1, <2>1 DEF HoldsLock
<1>4. CASE jobs[frame[v].job].origin = "replay" /\ jobs[frame[w].job].origin = "replay"
  <2>1. frame[v].job = frame[w].job
    BY <1>0, <1>1, <1>4 DEF OriginInv
  <2> QED
    BY <1>1, <2>1 DEF HoldsLock
<1>5. ASSUME NEW u \in Workers, NEW t \in Workers, EventAt(t) = EventAt(u),
             frame[u].job \in DOMAIN jobs, ~Spent(frame[u].job), frame[t].job \in DOMAIN jobs,
             jobs[frame[u].job].origin = "ingest", jobs[frame[t].job].origin = "replay"
      PROVE  FALSE
  <2>1. PICK p \in ActiveReplays : ReplaysEvent(p, jobs[frame[t].job].event)
    BY <1>0, <1>5 DEF OriginInv
  <2>2. ReplaysEvent(p, jobs[frame[u].job].event)
    BY <1>5, <2>1 DEF EventAt
  <2> QED
    BY <1>5, <2>2, ReplayedIsSpent DEF SingleFileInv
<1> QED
  BY <1>1, <1>2, <1>3, <1>4, <1>5 DEF Job

\* And no replay of it is under way.
LEMMA ReplayIsOver ==
    ASSUME TypeInv, SingleFileInv, Single, NEW w \in Workers, AtWork(w),
           NEW p \in ActiveReplays, ReplaysEvent(p, EventAt(w))
    PROVE  ~Replaying(p)
<1>1. /\ frame[w].job \in DOMAIN jobs /\ ~Spent(frame[w].job)
      /\ jobs[frame[w].job] \in Job /\ jobs[frame[w].job].event = EventAt(w)
  BY LiveCall, Indices DEF SingleFileInv, Single, EventAt
<1>2. jobs[frame[w].job].origin # "ingest"
  BY <1>1, ReplayedIsSpent DEF SingleFileInv
<1>3. PICK o \in ActiveReplays : ~Replaying(o)
  BY <1>1, <1>2 DEF SingleFileInv, OriginInv, Job
<1> QED
  BY <1>3 DEF Single, AtMostOneReplay

\* An execution is completed by the call that is past its last action.
LEMMA Completions ==
    ASSUME TypeInv, [Next]_vars, NEW x \in DOMAIN executions,
           executions[x].status # "completed", executions'[x].status = "completed"
    PROVE  \E w \in Workers : /\ FinishExecution(w) /\ frame[w].exec = x
                              /\ frame[w].pc \in InRule /\ executions[x].event = EventAt(w)
BY StatusMoves

-----------------------------------------------------------------------------
(* What a call has looked up *)

\* Nobody creates the execution a call is about to create, completes the one it
\* works at, or completes the one a replay is about to reset.
LEMMA LookupStep == TypeInv /\ SingleFileInv /\ [Next]_vars => LookupInv'
<1> SUFFICES ASSUME TypeInv, SingleFileInv, [Next]_vars, Single'
             PROVE  /\ \A e \in Events, r \in Rules :
                          \A x, y \in ExecutionsOf(e, r)' : x = y
                    /\ \A w \in Workers : frame'[w].pc = "open" /\ frame'[w].exec = 0 =>
                          ExecutionsOf(EventAt(w), frame[w].rule)' = {}
                    /\ \A w \in Workers : frame'[w].pc \in InRule /\ frame'[w].exec # 0 =>
                          executions'[frame'[w].exec].status # "completed"
                    /\ \A p \in Replays : replay'[p].pc \in {"checked", "logged"} =>
                          executions'[replay'[p].exec].status # "completed"
  BY DEF LookupInv
<1>0. /\ Single
      /\ executions \in Seq(Execution)
      /\ \A x \in DOMAIN executions : /\ x \in DOMAIN executions' /\ x # 0
                                      /\ executions'[x].event = executions[x].event
                                      /\ executions'[x].rule = executions[x].rule
      /\ \A w \in Workers : frame[w].pc # "idle" =>
            frame[w].job \in DOMAIN jobs /\ jobs'[frame[w].job].event = EventAt(w)
  BY SingleBefore, NextGrows, Indices, SlotFacts DEF ExecutionsGrow, JobsGrow, TypeInv, TypeOK,
     StoreTypeOK, EventAt
<1>1. ASSUME NEW e \in Events, NEW r \in Rules,
             NEW x \in ExecutionsOf(e, r)', NEW y \in ExecutionsOf(e, r)'
      PROVE  x = y
  <2>1. ASSUME NEW n \in ExecutionsOf(e, r)', n \notin DOMAIN executions,
               NEW o \in ExecutionsOf(e, r)', o \in DOMAIN executions
        PROVE  FALSE
    <3>1. PICK w \in Workers :
             StartNew(w) /\ EventAt(w) = e /\ RuleId[frame[w].rule] = RuleId[r]
      BY <2>1, NewExecutions DEF ExecutionsOf
    <3>2. ExecutionsOf(e, r) = {}
      BY <1>0, <3>1 DEF StartNew, SingleFileInv, LookupInv, ExecutionsOf
    <3> QED
      BY <1>0, <2>1, <3>2 DEF ExecutionsOf
  <2>2. CASE x \in DOMAIN executions /\ y \in DOMAIN executions
    BY <1>0, <2>2 DEF ExecutionsOf, SingleFileInv, LookupInv
  <2>3. CASE x \notin DOMAIN executions /\ y \notin DOMAIN executions
    BY <2>3, NewExecutions DEF ExecutionsOf
  <2> QED
    BY <2>1, <2>2, <2>3
<1>2. ASSUME NEW w \in Workers, frame'[w].pc = "open", frame'[w].exec = 0,
             NEW x \in ExecutionsOf(EventAt(w), frame[w].rule)'
      PROVE  FALSE
  <2>1. CASE frame'[w] = frame[w]
    <3>1. /\ EventAt(w)' = EventAt(w)
          /\ ExecutionsOf(EventAt(w), frame[w].rule) = {}
      BY <1>0, <1>2, <2>1 DEF SingleFileInv, LookupInv, EventAt
    <3>2. x \notin DOMAIN executions
      BY <1>0, <2>1, <3>1 DEF ExecutionsOf
    <3>3. PICK v \in Workers : StartNew(v) /\ executions'[x].event = EventAt(v)
      BY <3>2, NewExecutions DEF ExecutionsOf
    <3>4. v = w
      BY <1>0, <1>2, <2>1, <3>1, <3>3, OneCall DEF StartNew, AtWork, ExecutionsOf
    <3> QED
      BY <1>2, <3>3, <3>4, RuleSteps
  <2>2. CASE frame'[w] # frame[w]
    <3>1. PICK r \in Rules : FindExecution(w, r)
      BY <1>2, <2>2, Arrivals
    <3>2. executions' = executions /\ frame[w].pc = "loop"
      BY <3>1 DEF FindExecution, storeVars
    <3>3. /\ ExecutionsOf(EventAt(w), r) = {}
          /\ frame'[w].rule = r /\ frame'[w].job = frame[w].job
      BY <1>0, <1>2, <3>1, RuleSteps DEF ExecutionsOf
    <3>4. EventAt(w)' = EventAt(w)
      BY <1>0, <3>2, <3>3 DEF EventAt
    <3> QED
      BY <3>2, <3>3, <3>4 DEF ExecutionsOf
  <2> QED
    BY <2>1, <2>2
<1>3. ASSUME NEW w \in Workers, frame'[w].pc \in InRule, frame'[w].exec # 0
      PROVE  executions'[frame'[w].exec].status # "completed"
  <2>1. CASE frame[w].pc \in InRule /\ frame'[w].exec = frame[w].exec
    <3>1. /\ frame[w].exec \in DOMAIN executions
          /\ executions[frame[w].exec].event = EventAt(w)
          /\ executions[frame[w].exec].status # "completed"
      BY <1>0, <1>3, <2>1, SlotFacts DEF SlotRefs, InRule, InActions, SingleFileInv, LookupInv
    <3>2. ASSUME NEW v \in Workers, FinishExecution(v), frame[v].pc \in InRule,
                 EventAt(v) = EventAt(w)
          PROVE  FALSE
      <4>1. v = w
        BY <1>0, <2>1, <3>2, OneCall DEF AtWork, InRule
      <4> QED
        BY <1>3, <3>2, <4>1, RuleSteps DEF InRule
    <3> QED
      BY <2>1, <3>1, <3>2, Completions
  <2>2. ASSUME NEW r \in Rules, FindExecution(w, r)
        PROVE  executions'[frame'[w].exec].status # "completed"
    <3>1. executions' = executions /\ frame[w].exec = 0
      BY <2>2, SlotFacts DEF FindExecution, storeVars, SlotRefs
    <3>2. \E x \in DOMAIN executions : frame'[w].exec = x /\ executions[x].status # "completed"
      BY <1>3, <2>2, <3>1, RuleSteps DEF ExecutionsOf, InRule
    <3> QED
      BY <3>1, <3>2
  <2>3. CASE StartNew(w)
    <3>1. EventAt(w) \in Events /\ frame[w].rule \in Rules /\ "processing" \in ExecutionStatus
      BY <2>3, SlotFacts DEF StartNew, SlotRefs, InRule, ExecutionStatus
    <3>2. PICK n : n = Len(executions) + 1
      OBVIOUS
    <3>3. executions'[n] = [event |-> EventAt(w), rule |-> RuleId[frame[w].rule],
                            status |-> "processing", ok |-> {}, ranAs |-> {frame[w].rule}]
      BY <1>0, <2>3, <3>1, <3>2, StartExecutionEffect DEF StartNew
    <3> QED
      BY <2>3, <3>2, <3>3, RuleSteps
  <2>4. \/ frame[w].pc \in InRule /\ frame'[w].exec = frame[w].exec
        \/ \E r \in Rules : FindExecution(w, r)
        \/ StartNew(w)
    <3>1. CASE frame'[w] = frame[w]
      BY <1>3, <3>1
    <3>2. Resume(w) \/ SkipAction(w) \/ LogSuccess(w) \/ PerformAction(w) =>
             frame[w].pc \in InRule /\ frame'[w].exec = frame[w].exec
      BY RuleSteps, ActionSteps DEF SameProgress, SameRule, InRule
    <3>3. CASE frame'[w] # frame[w]
      BY <1>3, <3>2, <3>3, Arrivals DEF InRule, InActions, SameRule
    <3> QED
      BY <3>1, <3>3
  <2> QED
    BY <2>1, <2>2, <2>3, <2>4
<1>4. ASSUME NEW p \in Replays, replay'[p].pc \in {"checked", "logged"}
      PROVE  executions'[replay'[p].exec].status # "completed"
  <2>1. CASE replay[p].pc \in {"checked", "logged"} /\ replay'[p].exec = replay[p].exec
    <3>1. /\ replay[p].exec \in DOMAIN executions
          /\ executions[replay[p].exec].status # "completed"
          /\ p \in ActiveReplays /\ Replaying(p)
      BY <1>0, <2>1 DEF TypeInv, ReplayRefs, Replaying, ActiveReplays, SingleFileInv, LookupInv
    <3>2. ASSUME NEW v \in Workers, frame[v].pc \in InRule,
                 executions[replay[p].exec].event = EventAt(v)
          PROVE  FALSE
      BY <1>0, <3>1, <3>2, ReplayIsOver DEF ReplaysEvent, AtWork, InRule
    <3> QED
      BY <2>1, <3>1, <3>2, Completions
  <2>2. ASSUME NEW x \in DOMAIN executions, replay'[p].exec = x,
               replay'[p].pc = "checked" => executions[x].status = "failed",
               executions' = executions, replay'[p].pc \in {"checked", "rejected"}
        PROVE  executions'[replay'[p].exec].status # "completed"
    BY <1>4, <2>2
  <2>3. CASE replay'[p] # replay[p] /\ ~(replay[p].pc \in {"checked", "logged"} /\ replay'[p].exec = replay[p].exec)
    BY <1>4, <2>2, <2>3, ReplayMoves
  <2> QED
    BY <1>4, <2>1, <2>3
<1> QED
  BY <1>1, <1>2, <1>3, <1>4

LEMMA SingleFileHolds == Spec => []SingleFileInv
<1>1. Init => SingleFileInv
  <2> SUFFICES ASSUME Init
               PROVE  SingleFileInv
    OBVIOUS
  <2>1. jobs = <<>> /\ executions = <<>> /\ failedStream = {} /\ recovering = {}
    BY DEF Init, StoreInit, ListenerInit
  <2>2. \A w \in Workers : frame[w].pc = "idle" /\ ~frame[w].discarded
    BY DEF Init, ProcessorInit, IdleFrame
  <2>3. \A p \in Replays : replay[p].pc = "idle"
    BY DEF Init, ReplayInit
  <2>4. \A q \in Requests : ~Stored(q)
    BY DEF Init, IngestionInit, Stored
  <2>5. IngestInv
    BY <2>1, <2>4 DEF IngestInv, OneIngestJob, IngestJobs
  <2>6. LocksHeld
    BY <2>2 DEF LocksHeld, Busy
  <2>7. QueueInv
    BY <2>1, <2>2 DEF QueueInv
  <2>8. OriginInv /\ SpentInv
    BY <2>1, <2>3 DEF OriginInv, SpentInv, ActiveReplays
  <2>9. LookupInv
    BY <2>1, <2>2, <2>3 DEF LookupInv, ExecutionsOf, InRule
  <2> QED
    BY <2>5, <2>6, <2>7, <2>8, <2>9 DEF SingleFileInv
<1>2. TypeInv /\ SingleFileInv /\ [Next]_vars => SingleFileInv'
  BY IngestStep, LocksHeldStep, QueueStep, OriginStep, SpentStep, LookupStep DEF SingleFileInv
<1> QED
  BY <1>1, <1>2, ReferencesExist, PTL DEF Spec

-----------------------------------------------------------------------------
\* While one job at a time is at work for an event, the look-up before the
\* creation suffices: a rule gets one execution for an event.
THEOREM ExecutionsAreUnique == Spec => []OneExecutionPerRule
<1>1. SingleFileInv /\ IsFiniteSet(ActiveReplays) => OneExecutionPerRule
  BY SingleFileIsSingle DEF OneExecutionPerRule, SingleFileInv, LookupInv
<1> QED
  BY <1>1, SingleFileHolds, FinitelyManyReplays, PTL

\* And a completed execution stays completed: no call at work has it open, no
\* replay has checked it, and the listener passes it over.
THEOREM CompletionIsFinal == Spec => CompletedExecutionIsFinal
<1>1. TypeInv /\ SingleFileInv /\ IsFiniteSet(ActiveReplays) /\ [Next]_vars =>
         [SingleFile => \A x \in DOMAIN executions : executions[x].status = "completed"
             => executions'[x].status = "completed"]_vars
  <2> SUFFICES ASSUME TypeInv, SingleFileInv, IsFiniteSet(ActiveReplays), [Next]_vars, SingleFile,
                      NEW x \in DOMAIN executions, executions[x].status = "completed",
                      executions'[x].status # "completed"
               PROVE  FALSE
    OBVIOUS
  <2>1. Single /\ x # 0
    BY SingleFileIsSingle, Indices
  <2>2. ASSUME NEW w \in Workers, frame[w].exec = x, frame[w].pc \in InRule
        PROVE  FALSE
    BY <2>1, <2>2 DEF SingleFileInv, LookupInv
  <2>3. ASSUME NEW p \in Replays, ResetExecution(p), replay[p].exec = x
        PROVE  FALSE
    BY <2>1, <2>3 DEF ResetExecution, SingleFileInv, LookupInv
  <2> QED
    BY <2>2, <2>3, StatusMoves
<1> QED
  BY <1>1, SingleFileHolds, FinitelyManyReplays, ReferencesExist, PTL
     DEF Spec, CompletedExecutionIsFinal

\* Once an execution has failed for good, the job of its event does not wait
\* for another attempt: it is settled, or its call has discarded it.
THEOREM FailureHaltsRetries == Spec => []FailedHaltsRetries
<1>1. SingleFileInv => FailedHaltsRetries
  BY DEF SingleFileInv, SpentInv, Spent, HoldsLock, FailedHaltsRetries
<1> QED
  BY <1>1, SingleFileHolds, PTL

-----------------------------------------------------------------------------
(* NoActionRepeated *)

\* The effect that is counted is the one of the action a call is at.
LEMMA PerformedMoves ==
    ASSUME TypeInv, [Next]_vars, NEW s \in Sites, performed'[s] # performed[s]
    PROVE  \E w \in Workers : /\ PerformAction(w) /\ AtWork(w)
                              /\ frame[w].at \in 1..Len(Orders[frame[w].rule])
                              /\ frame[w].rule \in Rules /\ EventAt(w) \in Events
                              /\ s = <<EventAt(w), frame[w].rule, frame[w].at>>
                              /\ performed'[s] = performed[s] + 1
<1>1. PICK w \in Workers : PerformAction(w)
  BY PerformedWrites
<1>2. /\ frame[w].pc = "act" /\ ~AtLastAction(w) /\ performed \in [Sites -> Nat]
      /\ performed' = [performed EXCEPT ![<<EventAt(w), frame[w].rule, frame[w].at>>] = @ + 1]
  BY <1>1 DEF PerformAction, TypeInv, TypeOK, ProcessorTypeOK
<1>3. /\ frame[w].at \in 1..Len(Orders[frame[w].rule])
      /\ frame[w].rule \in Rules /\ EventAt(w) \in Events
  BY <1>2, ActionFacts, SlotFacts DEF SlotRefs, InRule
<1>4. s = <<EventAt(w), frame[w].rule, frame[w].at>> /\ performed'[s] = performed[s] + 1
  BY <1>2
<1> QED
  BY <1>1, <1>2, <1>3, <1>4 DEF AtWork

\* While nobody dies, loses a lock or meets a rejecting database.
Undisturbed == Calm({"crash", "lockLost", "dbFault"}) /\ AtMostOneReplay

LEMMA UndisturbedStep ==
    ASSUME TypeInv, [Next]_vars, Undisturbed'
    PROVE  /\ Undisturbed /\ Single /\ ~Crash
           /\ ~\E w \in Workers : DbFault(w)
<1>1. Calm({"crash", "lockLost", "dbFault"}) /\ AtMostOneReplay
  BY CalmBefore, SingleBefore DEF Undisturbed, Mishaps
<1>2. ~Crash /\ ~\E w \in Workers : DbFault(w)
  BY CalmExcludes DEF Undisturbed, Calm
<1> QED
  BY <1>1, <1>2 DEF Undisturbed, Single, Calm

\* The parts of OnceInv.
LoggedOrLogging(e, r, k) ==
    \/ \E x \in ExecutionsOf(e, r) : Orders[r][k] \in executions[x].ok
    \/ \E w \in Workers : /\ frame[w].pc = "logOk" /\ EventAt(w) = e
                          /\ frame[w].rule = r /\ frame[w].at = k

AheadIsLogged(w) ==
    frame[w].pc \in {"act", "logOk"} =>
        \A k \in 1..Len(Orders[frame[w].rule]) :
            /\ frame[w].at < k \/ (frame[w].pc = "act" /\ frame[w].at = k)
            /\ performed[<<EventAt(w), frame[w].rule, k>>] > 0
            => Orders[frame[w].rule][k] \in frame[w].logged

OthersAreLogged(w) ==
    frame[w].pc \in {"act", "logOk"} =>
        \A r \in Rules \ {frame[w].rule} : \A k \in 1..Len(Orders[r]) :
            RuleId[r] = RuleId[frame[w].rule] /\ performed[<<EventAt(w), r, k>>] > 0
            => Orders[r][k] \in frame[w].logged

LEMMA OnceParts ==
    OnceInv <=> (Undisturbed =>
        /\ \A s \in Sites : performed[s] <= 1
        /\ OneDocumentPerStep
        /\ \A e \in Events, r \in Rules : \A k \in 1..Len(Orders[r]) :
              performed[<<e, r, k>>] > 0 => LoggedOrLogging(e, r, k)
        /\ \A w \in Workers : AheadIsLogged(w) /\ OthersAreLogged(w))
BY DEF OnceInv, Undisturbed, LoggedOrLogging, AheadIsLogged, OthersAreLogged

\* An action that is performed had not been.
LEMMA PerformedOnce ==
    ASSUME TypeInv, OnceInv, [Next]_vars, Undisturbed', NEW s \in Sites
    PROVE  performed'[s] <= 1
<1>0. Undisturbed /\ performed[s] \in Nat /\ performed[s] <= 1
  BY UndisturbedStep, OnceParts DEF TypeInv, TypeOK, ProcessorTypeOK
<1>1. CASE performed'[s] = performed[s]
  BY <1>0, <1>1
<1>2. CASE performed'[s] # performed[s]
  <2>1. PICK w \in Workers : /\ PerformAction(w)
                             /\ frame[w].at \in 1..Len(Orders[frame[w].rule])
                             /\ s = <<EventAt(w), frame[w].rule, frame[w].at>>
                             /\ performed'[s] = performed[s] + 1
    BY <1>2, PerformedMoves
  <2>2. frame[w].pc = "act" /\ Orders[frame[w].rule][frame[w].at] \notin frame[w].logged
    BY <2>1 DEF PerformAction, OrderAt
  <2>3. AheadIsLogged(w)
    BY <1>0, OnceParts
  <2>4. ~(performed[s] > 0)
    BY <2>1, <2>2, <2>3 DEF AheadIsLogged
  <2> QED
    BY <1>0, <2>1, <2>4
<1> QED
  BY <1>1, <1>2

\* Nor had another that the rule once held at its order.
LEMMA OneDocumentStep ==
    ASSUME TypeInv, OnceInv, [Next]_vars, Undisturbed'
    PROVE  OneDocumentPerStep'
<1> SUFFICES ASSUME NEW e \in Events, NEW r \in Rules, NEW s \in Rules, r # s,
                    NEW k \in 1..Len(Orders[r]), NEW l \in 1..Len(Orders[s]),
                    SameStep(r, k, s, l),
                    performed'[<<e, r, k>>] > 0, performed'[<<e, s, l>>] > 0
             PROVE  FALSE
  BY DEF OneDocumentPerStep, SameStep
<1>0. /\ Undisturbed /\ OneDocumentPerStep
      /\ <<e, r, k>> \in Sites /\ <<e, s, l>> \in Sites
  BY UndisturbedStep, OnceParts, SiteOf
<1>1. ASSUME NEW t \in Rules, NEW u \in Rules, t # u,
             NEW m \in 1..Len(Orders[t]), NEW n \in 1..Len(Orders[u]), SameStep(t, m, u, n),
             performed'[<<e, t, m>>] > 0, performed'[<<e, u, n>>] > 0,
             performed'[<<e, t, m>>] # performed[<<e, t, m>>]
      PROVE  FALSE
  <2>0. <<e, t, m>> \in Sites /\ <<e, u, n>> \in Sites
    BY SiteOf
  <2>1. PICK w \in Workers : /\ PerformAction(w) /\ EventAt(w) = e
                             /\ frame[w].rule = t /\ frame[w].at = m
    BY <1>1, <2>0, PerformedMoves
  <2>2. frame[w].pc = "act" /\ Orders[t][m] \notin frame[w].logged
    BY <2>1 DEF PerformAction, OrderAt
  <2>3. performed'[<<e, u, n>>] = performed[<<e, u, n>>]
    BY <1>1, <2>0, <2>1 DEF PerformAction
  <2>4. OthersAreLogged(w)
    BY <1>0, OnceParts
  <2> QED
    BY <1>1, <2>1, <2>2, <2>3, <2>4 DEF OthersAreLogged, SameStep
<1>2. SameStep(s, l, r, k)
  BY DEF SameStep
<1>3. performed'[<<e, r, k>>] = performed[<<e, r, k>>] /\ performed'[<<e, s, l>>] = performed[<<e, s, l>>]
  BY <1>1, <1>2
<1> QED
  BY <1>0, <1>3 DEF OneDocumentPerStep

\* The step of what has been performed is on record, or about to be.
LEMMA LoggedStep ==
    ASSUME TypeInv, OnceInv, [Next]_vars, Undisturbed',
           NEW e \in Events, NEW r \in Rules, NEW k \in 1..Len(Orders[r]),
           performed'[<<e, r, k>>] > 0
    PROVE  LoggedOrLogging(e, r, k)'
<1> DEFINE s == <<e, r, k>>
<1>0. /\ Undisturbed /\ ~Crash /\ ~\E w \in Workers : DbFault(w)
      /\ s \in Sites /\ executions \in Seq(Execution)
      /\ \A x \in DOMAIN executions : /\ x \in DOMAIN executions'
                                      /\ executions'[x].event = executions[x].event
                                      /\ executions'[x].rule = executions[x].rule
                                      /\ executions[x].ok \subseteq executions'[x].ok
      /\ \A w \in Workers : frame[w].pc # "idle" => jobs'[frame[w].job].event = EventAt(w)
  BY UndisturbedStep, SiteOf, NextGrows, SlotFacts
     DEF TypeInv, TypeOK, StoreTypeOK, ExecutionsGrow, JobsGrow, EventAt
<1>1. CASE performed'[s] # performed[s]
  <2>1. PICK w \in Workers : /\ PerformAction(w)
                             /\ s = <<EventAt(w), frame[w].rule, frame[w].at>>
    BY <1>0, <1>1, PerformedMoves
  <2>2. EventAt(w) = e /\ frame[w].rule = r /\ frame[w].at = k
    BY <2>1
  <2>3. /\ frame[w].pc = "act" /\ frame'[w].pc = "logOk" /\ frame'[w].job = frame[w].job
        /\ frame'[w].rule = r /\ frame'[w].at = k
    BY <2>1, <2>2, ActionSteps DEF SameProgress, SameRule, SameCall
  <2>4. EventAt(w)' = e
    BY <1>0, <2>2, <2>3 DEF EventAt
  <2> QED
    BY <2>3, <2>4 DEF LoggedOrLogging
<1>2. CASE performed'[s] = performed[s]
  <2>0. LoggedOrLogging(e, r, k)
    BY <1>0, <1>2, OnceParts
  <2>1. ASSUME NEW x \in ExecutionsOf(e, r), Orders[r][k] \in executions'[x].ok
        PROVE  LoggedOrLogging(e, r, k)'
    BY <1>0, <2>1 DEF LoggedOrLogging, ExecutionsOf
  <2>2. ASSUME NEW w \in Workers, frame[w].pc = "logOk", EventAt(w) = e,
               frame[w].rule = r, frame[w].at = k
        PROVE  LoggedOrLogging(e, r, k)'
    <3>1. CASE frame'[w] = frame[w]
      <4>1. EventAt(w)' = e
        BY <1>0, <2>2, <3>1 DEF EventAt
      <4> QED
        BY <2>2, <3>1, <4>1 DEF LoggedOrLogging
    <3>2. CASE LogSuccess(w)
      <4>1. frame[w].exec \in ExecutionsOf(e, r)
        BY <2>2, SlotFacts DEF SlotRefs, InActions, ExecutionsOf
      <4>2. OrderAt(w) = Orders[r][k] /\ OrderAt(w) \in Nat
        BY <2>2, ActionFacts DEF OrderAt
      <4>3. Orders[r][k] \in executions'[frame[w].exec].ok
        BY <1>0, <3>2, <4>1, <4>2, AddSuccessStepEffect DEF LogSuccess, ExecutionsOf
      <4> QED
        BY <2>1, <4>1, <4>3
    <3>3. frame'[w] = frame[w] \/ LogSuccess(w)
      BY <1>0, <2>2, SlotMoves, CallSteps, RuleSteps, ActionSteps DEF ProcessorStep
    <3> QED
      BY <3>1, <3>2, <3>3
  <2> QED
    BY <1>0, <2>0, <2>1, <2>2 DEF LoggedOrLogging, ExecutionsOf
<1> QED
  BY <1>1, <1>2

\* Of the actions a call has before it, only those it takes for logged have
\* been performed: no other call is at work on the event.
LEMMA AheadStep ==
    ASSUME TypeInv, SingleFileInv, OnceInv, [Next]_vars, Undisturbed', NEW w \in Workers
    PROVE  AheadIsLogged(w)'
<1> SUFFICES ASSUME frame'[w].pc \in {"act", "logOk"},
                    NEW k \in 1..Len(Orders[frame'[w].rule]),
                    frame'[w].at < k \/ (frame'[w].pc = "act" /\ frame'[w].at = k),
                    performed'[<<EventAt(w)', frame'[w].rule, k>>] > 0
             PROVE  Orders[frame'[w].rule][k] \in frame'[w].logged
  BY DEF AheadIsLogged
<1>0. /\ Undisturbed /\ Single /\ ~Crash /\ ~\E v \in Workers : DbFault(v)
      /\ AheadIsLogged(w)
      /\ frame[w].pc # "idle" => jobs'[frame[w].job].event = EventAt(w)
      /\ frame[w].at \in Nat /\ k \in Nat
  BY UndisturbedStep, OnceParts, NextGrows, SlotFacts DEF JobsGrow, EventAt, Frame
<1>1. ASSUME frame[w].pc \in {"open", "act", "logOk"}, frame'[w].rule = frame[w].rule,
             frame'[w].job = frame[w].job
      PROVE  /\ EventAt(w)' = EventAt(w) /\ EventAt(w) \in Events /\ frame[w].rule \in Rules
             /\ performed[<<EventAt(w), frame[w].rule, k>>] > 0
  <2>1. /\ EventAt(w)' = EventAt(w) /\ EventAt(w) \in Events /\ frame[w].rule \in Rules
        /\ AtWork(w)
    BY <1>0, <1>1, SlotFacts DEF EventAt, SlotRefs, InRule, AtWork
  <2> DEFINE s == <<EventAt(w), frame[w].rule, k>>
  <2>2. s \in Sites
    BY <1>1, <2>1, SiteOf
  <2>3. CASE performed'[s] # performed[s]
    <3>1. PICK v \in Workers : /\ PerformAction(v) /\ AtWork(v)
                               /\ s = <<EventAt(v), frame[v].rule, frame[v].at>>
      BY <2>2, <2>3, PerformedMoves
    <3>2. v = w
      BY <1>0, <2>1, <3>1, OneCall
    <3>3. frame'[w].pc = "logOk" /\ frame'[w].at = frame[w].at /\ frame[w].at = k
      BY <3>1, <3>2, ActionSteps
    <3> QED
      BY <1>0, <3>3
  <2>4. CASE performed'[s] = performed[s]
    BY <1>1, <2>1, <2>4
  <2> QED
    BY <2>1, <2>3, <2>4
<1>2. CASE frame'[w] = frame[w]
  BY <1>0, <1>1, <1>2 DEF AheadIsLogged
<1>3. CASE SkipAction(w) \/ LogSuccess(w) \/ PerformAction(w)
  <2>1. /\ frame[w].pc \in {"act", "logOk"} /\ frame'[w].rule = frame[w].rule
        /\ frame'[w].job = frame[w].job /\ frame'[w].logged = frame[w].logged
        /\ \/ frame'[w].at = frame[w].at + 1
           \/ frame'[w].at = frame[w].at /\ frame'[w].pc = "logOk"
    BY <1>3, ActionSteps DEF SameProgress, SameRule, SameCall
  <2>2. frame[w].at < k
    BY <1>0, <2>1
  <2> QED
    BY <1>0, <1>1, <2>1, <2>2 DEF AheadIsLogged
<1>4. CASE StartNew(w) \/ Resume(w)
  <2>1. /\ frame[w].pc = "open" /\ frame'[w].rule = frame[w].rule
        /\ frame'[w].job = frame[w].job
    BY <1>4, RuleSteps DEF SameRule, SameCall
  <2>2. LoggedOrLogging(EventAt(w), frame[w].rule, k)
    BY <1>0, <1>1, <2>1, OnceParts
  <2>3. PICK x \in ExecutionsOf(EventAt(w), frame[w].rule) :
           Orders[frame[w].rule][k] \in executions[x].ok
    BY <1>0, <2>1, <2>2, OneCall DEF LoggedOrLogging, AtWork
  <2>4. ~StartNew(w)
    BY <1>0, <2>1, <2>3 DEF StartNew, SingleFileInv, LookupInv
  <2>5. frame[w].exec \in ExecutionsOf(EventAt(w), frame[w].rule)
    BY <1>4, <2>1, <2>4, SlotFacts DEF Resume, SlotRefs, ExecutionsOf
  <2>6. x = frame[w].exec
    BY <1>0, <1>1, <2>1, <2>3, <2>5 DEF SingleFileInv, LookupInv
  <2>7. frame'[w].logged = executions[frame[w].exec].ok
    BY <1>4, <2>4, RuleSteps
  <2> QED
    BY <2>1, <2>3, <2>6, <2>7
<1> QED
  BY <1>2, <1>3, <1>4, Arrivals

\* The same of the actions its rule held before, or may hold by now.
LEMMA OthersStep ==
    ASSUME TypeInv, SingleFileInv, OnceInv, [Next]_vars, Undisturbed', NEW w \in Workers
    PROVE  OthersAreLogged(w)'
<1> SUFFICES ASSUME frame'[w].pc \in {"act", "logOk"},
                    NEW r \in Rules, r # frame'[w].rule, RuleId[r] = RuleId[frame'[w].rule],
                    NEW k \in 1..Len(Orders[r]), performed'[<<EventAt(w)', r, k>>] > 0
             PROVE  Orders[r][k] \in frame'[w].logged
  BY DEF OthersAreLogged
<1>0. /\ Undisturbed /\ Single /\ ~Crash /\ ~\E v \in Workers : DbFault(v)
      /\ OthersAreLogged(w)
      /\ frame[w].pc # "idle" => jobs'[frame[w].job].event = EventAt(w)
  BY UndisturbedStep, OnceParts, NextGrows, SlotFacts DEF JobsGrow, EventAt
<1>1. ASSUME frame[w].pc \in {"open", "act", "logOk"}, frame'[w].rule = frame[w].rule,
             frame'[w].job = frame[w].job
      PROVE  /\ EventAt(w)' = EventAt(w) /\ EventAt(w) \in Events /\ frame[w].rule \in Rules
             /\ performed[<<EventAt(w), r, k>>] > 0
  <2>1. /\ EventAt(w)' = EventAt(w) /\ EventAt(w) \in Events /\ frame[w].rule \in Rules
        /\ AtWork(w)
    BY <1>0, <1>1, SlotFacts DEF EventAt, SlotRefs, InRule, AtWork
  <2> DEFINE s == <<EventAt(w), r, k>>
  <2>2. s \in Sites
    BY <2>1, SiteOf
  <2>3. ASSUME performed'[s] # performed[s]
        PROVE  FALSE
    <3>1. PICK v \in Workers : /\ PerformAction(v) /\ AtWork(v)
                               /\ s = <<EventAt(v), frame[v].rule, frame[v].at>>
      BY <2>2, <2>3, PerformedMoves
    <3>2. v = w
      BY <1>0, <2>1, <3>1, OneCall
    <3> QED
      BY <1>1, <3>1, <3>2
  <2> QED
    BY <2>1, <2>3
<1>2. CASE frame'[w] = frame[w]
  BY <1>0, <1>1, <1>2 DEF OthersAreLogged
<1>3. CASE SkipAction(w) \/ LogSuccess(w) \/ PerformAction(w)
  <2>1. /\ frame[w].pc \in {"act", "logOk"} /\ frame'[w].rule = frame[w].rule
        /\ frame'[w].job = frame[w].job /\ frame'[w].logged = frame[w].logged
    BY <1>3, ActionSteps DEF SameProgress, SameRule, SameCall
  <2> QED
    BY <1>0, <1>1, <2>1 DEF OthersAreLogged
<1>4. CASE StartNew(w) \/ Resume(w)
  <2>1. /\ frame[w].pc = "open" /\ frame'[w].rule = frame[w].rule
        /\ frame'[w].job = frame[w].job
    BY <1>4, RuleSteps DEF SameRule, SameCall
  <2>2. LoggedOrLogging(EventAt(w), r, k)
    BY <1>0, <1>1, <2>1, OnceParts
  <2>3. PICK x \in ExecutionsOf(EventAt(w), frame[w].rule) : Orders[r][k] \in executions[x].ok
    BY <1>0, <2>1, <2>2, OneCall DEF LoggedOrLogging, AtWork, ExecutionsOf
  <2>4. ~StartNew(w)
    BY <1>0, <2>1, <2>3 DEF StartNew, SingleFileInv, LookupInv
  <2>5. frame[w].exec \in ExecutionsOf(EventAt(w), frame[w].rule)
    BY <1>4, <2>1, <2>4, SlotFacts DEF Resume, SlotRefs, ExecutionsOf
  <2>6. x = frame[w].exec
    BY <1>0, <1>1, <2>1, <2>3, <2>5 DEF SingleFileInv, LookupInv
  <2>7. frame'[w].logged = executions[frame[w].exec].ok
    BY <1>4, <2>4, RuleSteps
  <2> QED
    BY <2>3, <2>6, <2>7
<1> QED
  BY <1>2, <1>3, <1>4, Arrivals

\* With at most one replay and undisturbed, no action succeeds twice for an
\* event, nor two that its rule held at one order before and after an edit:
\* what has been performed is logged before another call or attempt gets there.
THEOREM ActionsRunOnce == Spec => []NoActionRepeated
<1>1. Init => OnceInv
  <2> SUFFICES ASSUME Init
               PROVE  OnceInv
    OBVIOUS
  <2>1. /\ \A s \in Sites : performed[s] = 0
        /\ \A w \in Workers : frame[w].pc = "idle"
    BY DEF Init, ProcessorInit, IdleFrame
  <2>2. ASSUME NEW e \in Events, NEW r \in Rules, NEW k \in 1..Len(Orders[r])
        PROVE  ~(performed[<<e, r, k>>] > 0)
    <3>1. <<e, r, k>> \in Sites
      BY SiteOf
    <3> QED
      BY <2>1, <3>1
  <2>3. OneDocumentPerStep
    BY <2>2 DEF OneDocumentPerStep
  <2> QED
    BY <2>1, <2>2, <2>3 DEF OnceInv
<1>2. TypeInv /\ SingleFileInv /\ OnceInv /\ [Next]_vars => OnceInv'
  <2> SUFFICES ASSUME TypeInv, SingleFileInv, OnceInv, [Next]_vars, Undisturbed'
               PROVE  /\ \A s \in Sites : performed'[s] <= 1
                      /\ OneDocumentPerStep'
                      /\ \A e \in Events, r \in Rules : \A k \in 1..Len(Orders[r]) :
                            performed'[<<e, r, k>>] > 0 => LoggedOrLogging(e, r, k)'
                      /\ \A w \in Workers : AheadIsLogged(w)' /\ OthersAreLogged(w)'
    BY DEF OnceInv, Undisturbed, LoggedOrLogging, AheadIsLogged, OthersAreLogged
  <2> QED
    BY PerformedOnce, OneDocumentStep, LoggedStep, AheadStep, OthersStep
<1>3. OnceInv /\ IsFiniteSet(ActiveReplays) => NoActionRepeated
  BY CountedReplays DEF OnceInv, NoActionRepeated
<1> QED
  BY <1>1, <1>2, <1>3, SingleFileHolds, FinitelyManyReplays, ReferencesExist, PTL DEF Spec

-----------------------------------------------------------------------------
(* CompletedEventIsSettled *)

\* An event is completed by a call that has run through its rules.
LEMMA EventCompletions ==
    ASSUME TypeInv, [Next]_vars, NEW e \in Events,
           events[e] # "completed", events'[e] = "completed"
    PROVE  \E w \in Workers : CompleteEvent(w) /\ EventAt(w) = e
<1>0. events \in [Events -> EventStatus]
  BY DEF TypeInv, TypeOK, StoreTypeOK
<1>1. CASE Ingest
  BY <1>0, <1>1 DEF Ingest, IngestionNext, Admit, Refuse, RejectDelivery, SaveEvent,
     SaveDuplicate, ReturnExisting, Enqueue, EnqueueFault, SaveFault, storeVars
<1>2. CASE Work
  BY <1>0, <1>2 DEF Work, ProcessorNext, ProcessorStep, PickUp, DbFault, LockEvent, SkipEvent,
     CheckTenant, LoadRules, FindExecution, StartNew, Resume, SkipAction, PerformAction,
     FailAction, LogSuccess, LogFailure, FinishExecution, MarkExecution, CompleteEvent,
     RevertEvent, Settle, storeVars
<1>3. CASE Replay
  BY <1>0, <1>3 DEF Replay, ReplayNext, CheckFailed, SaveHistory, RefuseReason, ResetExecution,
     Requeue, ReplayFault, storeVars
<1>4. CASE Listen
  BY <1>0, <1>4 DEF Listen, ListenerNext, ListenerStep, FailEvent, FailExecutions, LoseNotice,
     ListenerFault
<1>5. CASE Administer \/ Manage \/ Crash \/ UNCHANGED vars
  BY <1>0, <1>5 DEF Administer, SuspendTenant, EditRule, Manage, StallJob, LoseLock, Crash,
     vars, storeVars
<1> QED
  BY <1>1, <1>2, <1>3, <1>4, <1>5 DEF Next

\* Rules are changed by an administrator only.
LEMMA RuleWrites ==
    ASSUME [Next]_vars, activeRules' # activeRules
    PROVE  \E r \in Rules : EditRule(r)
<1>1. CASE Ingest
  BY <1>1 DEF Ingest, IngestionNext, Admit, Refuse, RejectDelivery, SaveEvent,
     SaveDuplicate, ReturnExisting, Enqueue, EnqueueFault, SaveFault, storeVars, adminVars
<1>2. CASE Work
  BY <1>2 DEF Work, ProcessorNext, ProcessorStep, PickUp, DbFault, LockEvent, SkipEvent,
     CheckTenant, LoadRules, FindExecution, StartNew, Resume, SkipAction, PerformAction,
     FailAction, LogSuccess, LogFailure, FinishExecution, MarkExecution, CompleteEvent,
     RevertEvent, Settle, storeVars, adminVars
<1>3. CASE Replay
  BY <1>3 DEF Replay, ReplayNext, CheckFailed, SaveHistory, RefuseReason, ResetExecution,
     Requeue, ReplayFault, storeVars, adminVars
<1>4. CASE Listen
  BY <1>4 DEF Listen, ListenerNext, ListenerStep, FailEvent, FailExecutions, LoseNotice,
     ListenerFault, adminVars
<1>5. CASE Administer \/ Manage \/ Crash \/ UNCHANGED vars
  BY <1>5 DEF Administer, SuspendTenant, Manage, StallJob, LoseLock, Crash,
     vars, storeVars, adminVars
<1> QED
  BY <1>1, <1>2, <1>3, <1>4, <1>5 DEF Next

\* A call takes from the database what the rules hold, and otherwise only drops rules.
LEMMA SlotTakesRules ==
    ASSUME TypeInv, [Next]_vars, NEW w \in Workers,
           frame[w].todo \subseteq activeRules,
           frame[w].pc \in InRule => frame[w].rule \in activeRules
    PROVE  /\ frame'[w].todo \subseteq activeRules
           /\ frame'[w].pc \in InRule => frame'[w].rule \in activeRules
<1>0. frame \in [Workers -> Frame]
  BY DEF TypeInv, TypeOK, ProcessorTypeOK
<1>1. CASE frame'[w] = frame[w]
  BY <1>1
<1>2. CASE Settle(w) \/ Crash \/ \E j \in DOMAIN jobs : PickUp(w, j)
  <2>1. frame'[w].todo = {} /\ frame'[w].pc \notin InRule
    <3>1. CASE Settle(w) \/ Crash
      <4>1. frame'[w] = IdleFrame
        BY <3>1, CallSteps DEF Crash
      <4> QED
        BY <4>1 DEF IdleFrame, InRule
    <3>2. ASSUME NEW j \in DOMAIN jobs, PickUp(w, j)
          PROVE  frame'[w].todo = {} /\ frame'[w].pc \notin InRule
      BY <1>0, <3>2 DEF PickUp, IdleFrame, InRule
    <3> QED
      BY <1>2, <3>1, <3>2
  <2> QED
    BY <2>1
<1>3. CASE LoadRules(w)
  BY <1>3, CallSteps DEF InRule
<1>4. ASSUME NEW r \in Rules, FindExecution(w, r)
      PROVE  /\ frame'[w].todo \subseteq activeRules
             /\ frame'[w].pc \in InRule => frame'[w].rule \in activeRules
  BY <1>4, RuleSteps DEF InRule
<1>5. CASE FinishExecution(w)
  BY <1>5, RuleSteps DEF InRule
<1>6. CASE /\ ProcessorStep(w) \/ DbFault(w)
           /\ ~(\/ Settle(w) \/ LoadRules(w) \/ FinishExecution(w)
                \/ \E r \in Rules : FindExecution(w, r))
  <2>1. /\ frame'[w].todo = frame[w].todo /\ frame'[w].rule = frame[w].rule
        /\ frame'[w].pc \in InRule => frame[w].pc \in InRule
    BY <1>0, <1>6, SlotKeepsRules DEF ProcessorStep
  <2> QED
    BY <2>1
<1> QED
  BY <1>1, <1>2, <1>3, <1>4, <1>5, <1>6, SlotMoves

LEMMA RulesKeptStep == TypeInv /\ RulesKept /\ [Next]_vars => RulesKept'
<1> SUFFICES ASSUME TypeInv, RulesKept, [Next]_vars
             PROVE  RulesKept'
  OBVIOUS
<1>1. ASSUME NEW r \in activeRules', NEW s \in activeRules', RuleId[r] = RuleId[s]
      PROVE  r = s
  <2>1. CASE activeRules' = activeRules
    BY <1>1, <2>1 DEF RulesKept
  <2>2. CASE activeRules' # activeRules
    <3>1. PICK q \in Rules : EditRule(q)
      BY <2>2, RuleWrites
    <3>2. activeRules' \subseteq {t \in activeRules : RuleId[t] # RuleId[q]} \cup {q}
      BY <3>1 DEF EditRule
    <3> QED
      BY <1>1, <3>2 DEF RulesKept
  <2> QED
    BY <2>1, <2>2
<1> SUFFICES ASSUME Calm({"ruleEdit"})'
             PROVE  /\ \A x \in DOMAIN executions' : executions'[x].ranAs \subseteq activeRules
                    /\ \A w \in Workers :
                          /\ frame'[w].todo \subseteq activeRules
                          /\ frame'[w].pc \in InRule => frame'[w].rule \in activeRules
  <2>1. ASSUME Calm({"ruleEdit"})'
        PROVE  activeRules' = activeRules
    <3>1. ~\E r \in Rules : EditRule(r)
      BY <2>1, CalmExcludes
    <3> QED
      BY <3>1, RuleWrites
  <2> QED
    BY <1>1, <2>1 DEF RulesKept
<1>2. /\ \A x \in DOMAIN executions : executions[x].ranAs \subseteq activeRules
      /\ \A w \in Workers : /\ frame[w].todo \subseteq activeRules
                            /\ frame[w].pc \in InRule => frame[w].rule \in activeRules
  <2>1. Calm({"ruleEdit"})
    BY CalmBefore DEF Mishaps
  <2> QED
    BY <2>1 DEF RulesKept
<1>3. ASSUME NEW x \in DOMAIN executions'
      PROVE  executions'[x].ranAs \subseteq activeRules
  <2>1. CASE x \in DOMAIN executions
    BY <1>2, <2>1, Resumed DEF Resume, InRule
  <2>2. CASE x \notin DOMAIN executions
    BY <1>2, <1>3, <2>2, Started DEF StartNew, InRule
  <2> QED
    BY <2>1, <2>2
<1> QED
  BY <1>2, <1>3, SlotTakesRules

\* The rules are documents with an _id each before anything has happened.
LEMMA RulesKeptAtFirst == Init => RulesKept
<1> SUFFICES ASSUME Init
             PROVE  RulesKept
  OBVIOUS
<1>1. activeRules \in RuleCollections /\ executions = <<>>
  BY DEF Init, StoreInit
<1>2. \A w \in Workers : frame[w].pc = "idle" /\ frame[w].todo = {}
  BY DEF Init, ProcessorInit, IdleFrame
<1>3. ASSUME NEW r \in activeRules, NEW s \in activeRules, RuleId[r] = RuleId[s]
      PROVE  r = s
  <2>1. RuleId[r] \in RuleIds
    BY <1>1 DEF RuleCollections, RuleIds
  <2>2. PICK q \in activeRules : {t \in activeRules : RuleId[t] = RuleId[r]} = {q}
    BY <1>1, <2>1 DEF RuleCollections
  <2> QED
    BY <1>3, <2>2
<1> QED
  BY <1>1, <1>2, <1>3 DEF RulesKept, InRule

\* While no lock is lost, no rule edited and nothing replayed.
Undivided == Calm({"lockLost", "ruleEdit"}) /\ ActiveReplays = {}

LEMMA UndividedStep ==
    ASSUME TypeInv, [Next]_vars, Undivided'
    PROVE  Undivided /\ Single /\ Calm({"ruleEdit"}) /\ activeRules' = activeRules
<1>1. ActiveReplays = {}
  BY ActiveReplaysStay DEF Undivided
<1>2. Calm({"lockLost", "ruleEdit"})
  BY CalmBefore DEF Undivided, Mishaps
<1>3. Calm({"ruleEdit"})'
  BY DEF Undivided, Calm
<1>4. activeRules' = activeRules
  BY <1>3, CalmExcludes, RuleWrites
<1> QED
  BY <1>1, <1>2, <1>4 DEF Undivided, Single, AtMostOneReplay, Calm

\* The parts of SettledInv.
OnItsList(w) == frame[w].pc \in InRule => frame[w].rule \in frame[w].todo

OffListSettled(w) ==
    frame[w].pc \in InRule \cup {"loop"} =>
        \A r \in (Matches[EventAt(w)] \cap activeRules) \ frame[w].todo : Settled(EventAt(w), r)

EventOpen(w) == frame[w].pc \in Working => events[EventAt(w)] # "completed"

LEMMA SettledParts ==
    SettledInv <=> (Undivided =>
        /\ \A w \in Workers : OnItsList(w) /\ OffListSettled(w) /\ EventOpen(w)
        /\ \A e \in Events : events[e] = "completed" =>
              \A r \in Matches[e] \cap activeRules : Settled(e, r))
BY DEF SettledInv, Undivided, OnItsList, OffListSettled, EventOpen

\* Settled executions stay so, and are not joined by others, but for a call in the rule.
LEMMA SettledKept ==
    ASSUME TypeInv, [Next]_vars, ActiveReplays = {}, NEW e \in Events, NEW r \in Rules,
           Settled(e, r),
           ~\E w \in Workers : /\ frame[w].pc \in InRule /\ EventAt(w) = e
                               /\ RuleId[frame[w].rule] = RuleId[r]
    PROVE  Settled(e, r)'
<1>0. \A x \in DOMAIN executions : /\ x \in DOMAIN executions'
                                   /\ executions'[x].event = executions[x].event
                                   /\ executions'[x].rule = executions[x].rule
  BY NextGrows DEF ExecutionsGrow
<1>1. ExecutionsOf(e, r)' # {}
  BY <1>0 DEF Settled, ExecutionsOf
<1>2. ASSUME NEW x \in ExecutionsOf(e, r)'
      PROVE  executions'[x].status \in {"completed", "failed"}
  <2>1. x \in DOMAIN executions
    <3> SUFFICES ASSUME x \notin DOMAIN executions
                 PROVE  FALSE
      OBVIOUS
    <3>1. PICK w \in Workers :
             StartNew(w) /\ EventAt(w) = e /\ RuleId[frame[w].rule] = RuleId[r]
      BY <1>2, NewExecutions DEF ExecutionsOf
    <3> QED
      BY <3>1 DEF StartNew, InRule
  <2>2. x \in ExecutionsOf(e, r) /\ executions[x].status \in {"completed", "failed"}
    BY <1>0, <1>2, <2>1 DEF ExecutionsOf, Settled
  <2>3. ~\E p \in Replays : ResetExecution(p)
    BY DEF ResetExecution, ActiveReplays
  <2> QED
    BY <2>1, <2>2, <2>3, StatusMoves DEF ExecutionsOf
<1> QED
  BY <1>1, <1>2 DEF Settled

\* The rule a call is at is on its list.
LEMMA OnListStep ==
    ASSUME TypeInv, [Next]_vars, NEW w \in Workers, OnItsList(w)
    PROVE  OnItsList(w)'
<1> SUFFICES ASSUME frame'[w].pc \in InRule
             PROVE  frame'[w].rule \in frame'[w].todo
  BY DEF OnItsList
<1>1. CASE frame'[w] = frame[w]
  BY <1>1 DEF OnItsList
<1>2. ASSUME NEW r \in Rules, FindExecution(w, r)
      PROVE  frame'[w].rule \in frame'[w].todo
  BY <1>2, RuleSteps DEF InRule
<1>3. ASSUME frame[w].pc \in InRule, frame'[w].rule = frame[w].rule, SameCall(w)
      PROVE  frame'[w].rule \in frame'[w].todo
  BY <1>3 DEF OnItsList, SameCall
<1>4. \/ StartNew(w) \/ Resume(w) \/ SkipAction(w) \/ LogSuccess(w) \/ PerformAction(w) =>
            frame[w].pc \in InRule /\ frame'[w].rule = frame[w].rule /\ SameCall(w)
  BY RuleSteps, ActionSteps DEF SameProgress, SameRule, InRule
<1>5. CASE frame'[w] # frame[w]
  BY <1>2, <1>3, <1>4, <1>5, Arrivals DEF InRule, InActions, SameRule
<1> QED
  BY <1>1, <1>5

\* A call takes a rule off its list when the rule's execution is over.
LEMMA ListStep ==
    ASSUME TypeInv, SingleFileInv, RulesKept, SettledInv, [Next]_vars, Undivided',
           NEW w \in Workers
    PROVE  OnItsList(w)' /\ OffListSettled(w)'
<1>0. /\ Undivided /\ Single /\ activeRules' = activeRules
      /\ OnItsList(w) /\ OffListSettled(w) /\ ActiveReplays = {}
      /\ \A r, s \in activeRules : RuleId[r] = RuleId[s] => r = s
      /\ frame[w].pc \in InRule => frame[w].rule \in activeRules
      /\ executions \in Seq(Execution)
      /\ frame[w].pc # "idle" => /\ frame[w].job \in DOMAIN jobs /\ EventAt(w) \in Events
                                 /\ jobs'[frame[w].job].event = EventAt(w)
                                 /\ Matches[EventAt(w)] \subseteq Rules
  BY UndividedStep, SettledParts, NextGrows, SlotFacts, StoreAssumption
     DEF RulesKept, JobsGrow, EventAt, Undivided, TypeInv, TypeOK, StoreTypeOK
<1>2. ASSUME frame[w].pc \in InRule \cup {"loop"}, NEW e \in Events, EventAt(w) = e,
             NEW r \in Matches[e] \cap activeRules, r \notin frame[w].todo
      PROVE  Settled(e, r)'
  <2>1. Settled(e, r) /\ AtWork(w) /\ r \in Rules
    BY <1>0, <1>2 DEF OffListSettled, AtWork, InRule
  <2>2. ASSUME NEW v \in Workers, frame[v].pc \in InRule, EventAt(v) = e,
               RuleId[frame[v].rule] = RuleId[r]
        PROVE  FALSE
    <3>1. v = w
      BY <1>0, <1>2, <2>1, <2>2, OneCall DEF AtWork, InRule
    <3> QED
      BY <1>0, <1>2, <2>2, <3>1 DEF OnItsList
  <2> QED
    BY <1>0, <2>1, <2>2, SettledKept
<1>3. ASSUME frame'[w].pc \in InRule \cup {"loop"}, NEW e \in Events, EventAt(w) = e,
             NEW r \in Matches[e] \cap activeRules, r \notin frame'[w].todo
      PROVE  Settled(e, r)'
  <2>0. r \in Rules
    BY StoreAssumption
  <2>1. CASE frame[w].pc \in InRule \cup {"loop"} /\ frame'[w].todo = frame[w].todo
    BY <1>2, <1>3, <2>1
  <2>2. CASE LoadRules(w)
    BY <1>0, <1>3, <2>0, <2>2, CallSteps
  <2>3. ASSUME NEW q \in Rules, FindExecution(w, q), frame'[w].todo # frame[w].todo
        PROVE  Settled(e, r)'
    <3>1. PICK x \in ExecutionsOf(e, q) :
             /\ executions[x].status \in {"completed", "failed"}
             /\ frame'[w].todo = frame[w].todo \ {q} /\ frame[w].pc = "loop"
      BY <1>3, <2>3, RuleSteps
    <3>2. CASE r = q
      <4>1. \A y \in ExecutionsOf(e, q) : y = x
        BY <1>0, <3>1 DEF SingleFileInv, LookupInv
      <4>2. executions' = executions
        BY <2>3 DEF FindExecution, storeVars
      <4>3. Settled(e, r)
        BY <3>1, <3>2, <4>1 DEF Settled
      <4> QED
        BY <4>2, <4>3 DEF Settled, ExecutionsOf
    <3>3. CASE r # q
      BY <1>2, <1>3, <3>1, <3>3
    <3> QED
      BY <3>2, <3>3
  <2>4. CASE FinishExecution(w)
    <3>1. /\ frame[w].pc = "act" /\ frame'[w].todo = frame[w].todo \ {frame[w].rule}
          /\ frame[w].rule \in Rules
          /\ frame[w].exec \in ExecutionsOf(e, frame[w].rule)
      BY <1>3, <2>4, RuleSteps, SlotFacts DEF SlotRefs, InActions, InRule, ExecutionsOf
    <3>2. CASE r = frame[w].rule
      <4>1. \A y \in ExecutionsOf(e, r) : y = frame[w].exec
        BY <1>0, <3>1, <3>2 DEF SingleFileInv, LookupInv
      <4>2. /\ CompleteExecution(frame[w].exec, "completed") /\ "completed" \in ExecutionStatus
            /\ frame[w].exec \in DOMAIN executions
        BY <2>4, <3>1 DEF FinishExecution, ExecutionStatus, ExecutionsOf
      <4>3. /\ DOMAIN executions' = DOMAIN executions /\ ExecutionsGrow
            /\ executions'[frame[w].exec].status = "completed"
        BY <1>0, <4>2, CompleteExecutionEffect
      <4>4. ExecutionsOf(e, r)' = ExecutionsOf(e, r)
        BY <4>3 DEF ExecutionsOf, ExecutionsGrow
      <4> QED
        BY <3>1, <3>2, <4>1, <4>3, <4>4 DEF Settled
    <3>3. CASE r # frame[w].rule
      BY <1>2, <1>3, <3>1, <3>3 DEF InRule
    <3> QED
      BY <3>2, <3>3
  <2>5. \/ StartNew(w) \/ Resume(w) \/ SkipAction(w) \/ LogSuccess(w) \/ PerformAction(w) =>
              frame[w].pc \in InRule /\ frame'[w].todo = frame[w].todo
    BY RuleSteps, ActionSteps DEF SameProgress, SameRule, SameCall, InRule
  <2>6. ASSUME NEW q \in Rules, FindExecution(w, q)
        PROVE  frame[w].pc = "loop"
    BY <2>6 DEF FindExecution
  <2>7. CASE frame'[w] # frame[w]
    BY <1>3, <2>1, <2>2, <2>3, <2>4, <2>5, <2>6, <2>7, Arrivals
       DEF InRule, InActions, SameRule, SameCall
  <2> QED
    BY <1>3, <2>1, <2>7
<1>4. ASSUME frame'[w].pc \in InRule \cup {"loop"}
      PROVE  EventAt(w)' = EventAt(w) /\ EventAt(w) \in Events
  <2>1. frame'[w].job = frame[w].job /\ frame[w].pc # "idle"
    BY <1>4, Arrivals DEF InRule
  <2> QED
    BY <1>0, <2>1 DEF EventAt
<1>5. OffListSettled(w)'
  <2> SUFFICES ASSUME frame'[w].pc \in InRule \cup {"loop"},
                      NEW r \in (Matches[EventAt(w)'] \cap activeRules) \ frame'[w].todo
               PROVE  Settled(EventAt(w), r)'
    BY <1>0 DEF OffListSettled
  <2>1. PICK e \in Events : e = EventAt(w) /\ e = EventAt(w)'
    BY <1>4
  <2>2. Settled(e, r)'
    BY <1>3, <2>1
  <2> QED
    BY <2>1, <2>2 DEF Settled, ExecutionsOf
<1> QED
  BY <1>0, <1>5, OnListStep

\* No call works on an event that is completed, or completes the event another
\* works on.
LEMMA OpenStep ==
    ASSUME TypeInv, SingleFileInv, Single, [Next]_vars, NEW w \in Workers, EventOpen(w)
    PROVE  EventOpen(w)'
<1> SUFFICES ASSUME frame'[w].pc \in Working
             PROVE  events'[EventAt(w)'] # "completed"
  BY DEF EventOpen
<1>0. /\ events \in [Events -> EventStatus]
      /\ frame[w].pc # "idle" => /\ EventAt(w) \in Events
                                 /\ jobs'[frame[w].job].event = EventAt(w)
  BY NextGrows, SlotFacts DEF JobsGrow, EventAt, TypeInv, TypeOK, StoreTypeOK
<1>1. frame'[w].job = frame[w].job /\ frame[w].pc # "idle"
  BY Arrivals DEF Working, InRule
<1>2. EventAt(w)' = EventAt(w) /\ EventAt(w) \in Events
  BY <1>0, <1>1 DEF EventAt
<1>3. CASE frame[w].pc \in Working
  <2>1. PICK e \in Events : e = EventAt(w) /\ events[e] # "completed"
    BY <1>0, <1>2, <1>3 DEF EventOpen
  <2>2. ASSUME NEW v \in Workers, CompleteEvent(v), EventAt(v) = e
        PROVE  FALSE
    <3>1. frame[v].pc = "loop" /\ frame'[v].pc = "done"
      BY <2>2, CallSteps
    <3>2. v = w
      BY <1>0, <1>3, <2>1, <2>2, <3>1, OneCall DEF AtWork, Working, InRule
    <3> QED
      BY <3>1, <3>2 DEF Working, InRule
  <2> QED
    BY <1>2, <2>1, <2>2, EventCompletions
<1>4. CASE LockEvent(w)
  BY <1>0, <1>2, <1>4 DEF LockEvent
<1>5. frame[w].pc \in Working \/ LockEvent(w)
  <2>1. /\ CheckTenant(w) \/ LoadRules(w) => frame[w].pc \in {"tenant", "rules"}
        /\ \A r \in Rules : FindExecution(w, r) => frame[w].pc = "loop"
        /\ StartNew(w) \/ Resume(w) => frame[w].pc = "open"
        /\ FinishExecution(w) \/ SkipAction(w) \/ PerformAction(w) => frame[w].pc = "act"
        /\ LogSuccess(w) => frame[w].pc = "logOk"
    BY CallSteps, RuleSteps, ActionSteps
  <2>2. CASE frame'[w] # frame[w]
    BY <2>1, <2>2, Arrivals DEF Working, InRule, InActions
  <2> QED
    BY <2>2
<1> QED
  BY <1>3, <1>4, <1>5

\* The rules of a completed event stay settled.
LEMMA ClosedStep ==
    ASSUME TypeInv, SingleFileInv, SettledInv, [Next]_vars, Undivided',
           NEW e \in Events, events'[e] = "completed", NEW r \in Matches[e] \cap activeRules
    PROVE  Settled(e, r)'
<1>0. /\ Undivided /\ ActiveReplays = {} /\ r \in Rules
      /\ \A w \in Workers : OffListSettled(w) /\ EventOpen(w)
  BY UndividedStep, SettledParts, StoreAssumption DEF Undivided
<1>1. CASE events[e] = "completed"
  <2>1. Settled(e, r)
    BY <1>0, <1>1, SettledParts
  <2>2. ~\E w \in Workers : frame[w].pc \in InRule /\ EventAt(w) = e
    BY <1>0, <1>1 DEF EventOpen, Working
  <2> QED
    BY <1>0, <2>1, <2>2, SettledKept
<1>2. CASE events[e] # "completed"
  <2>1. PICK w \in Workers : CompleteEvent(w) /\ EventAt(w) = e
    BY <1>2, EventCompletions
  <2>2. frame[w].pc = "loop" /\ frame[w].todo = {} /\ executions' = executions
    BY <2>1 DEF CompleteEvent
  <2>3. Settled(e, r)
    BY <1>0, <2>1, <2>2 DEF OffListSettled
  <2> QED
    BY <2>2, <2>3 DEF Settled, ExecutionsOf
<1> QED
  BY <1>1, <1>2

\* An event is completed over settled executions: each rule it matched has been
\* run to its end, or to its permanent failure.
THEOREM CompletionIsSettled == Spec => []CompletedEventIsSettled
<1>1. Init => RulesKept /\ SettledInv
  <2> SUFFICES ASSUME Init
               PROVE  RulesKept /\ SettledInv
    OBVIOUS
  <2>1. \A e \in Events : events[e] = "absent"
    BY DEF Init, StoreInit
  <2>2. \A w \in Workers : frame[w].pc = "idle"
    BY DEF Init, ProcessorInit, IdleFrame
  <2> QED
    BY <2>1, <2>2, RulesKeptAtFirst DEF SettledInv, Working, InRule
<1>2. TypeInv /\ SingleFileInv /\ RulesKept /\ SettledInv /\ [Next]_vars => SettledInv'
  <2> SUFFICES ASSUME TypeInv, SingleFileInv, RulesKept, SettledInv, [Next]_vars, Undivided'
               PROVE  /\ \A w \in Workers : OnItsList(w)' /\ OffListSettled(w)' /\ EventOpen(w)'
                      /\ \A e \in Events : events'[e] = "completed" =>
                            \A r \in (Matches[e] \cap activeRules)' : Settled(e, r)'
    BY DEF SettledInv, Undivided, OnItsList, OffListSettled, EventOpen
  <2>1. /\ Single /\ activeRules' = activeRules
        /\ \A w \in Workers : EventOpen(w)
    BY UndividedStep, SettledParts
  <2> QED
    BY <2>1, ListStep, OpenStep, ClosedStep
<1>3. SettledInv => CompletedEventIsSettled
  BY DEF SettledInv, Settled, CompletedEventIsSettled
<1> QED
  BY <1>1, <1>2, <1>3, RulesKeptStep, SingleFileHolds, ReferencesExist, PTL DEF Spec

-----------------------------------------------------------------------------
(* EventIsInHand *)

\* What one interruption rules out: a second one.
LEMMA InterruptionSteps ==
    ASSUME TypeInv, [Next]_vars, Interruptions' <= 1
    PROVE  /\ Interruptions <= 1
           /\ CutOff' => Calm({"lockLost"})'
           /\ CutOff => /\ CutOff' /\ ~Crash
                        /\ \A w \in Workers : ~DbFault(w)
                        /\ \A j \in DOMAIN jobs : ~LoseNotice(j) /\ ~ListenerFault(j)
           /\ Crash => CutOff'
           /\ \A w \in Workers : DbFault(w) => CutOff'
<1>1. /\ mishaps \in [Mishaps -> Nat]
      /\ \A m \in Mishaps : mishaps[m] \in Nat /\ mishaps'[m] >= mishaps[m]
  BY MishapsCount DEF TypeInv, TypeOK, StoreTypeOK
<1>2. mishaps' \in [Mishaps -> Nat]
  BY NextTypes DEF TypeInv, TypeOK, StoreTypeOK
<1>3. {"crash", "dbFault", "lockLost", "noticeLost"} \subseteq Mishaps
  BY DEF Mishaps
<1>4. ASSUME NEW m \in Mishaps, Suffer(m)
      PROVE  mishaps'[m] = mishaps[m] + 1
  BY <1>1, <1>4 DEF Suffer
<1>5. /\ Crash => mishaps'["crash"] = mishaps["crash"] + 1
      /\ \A w \in Workers : DbFault(w) => mishaps'["dbFault"] = mishaps["dbFault"] + 1
      /\ \A j \in DOMAIN jobs :
            /\ LoseNotice(j) => mishaps'["noticeLost"] = mishaps["noticeLost"] + 1
            /\ ListenerFault(j) => mishaps'["dbFault"] = mishaps["dbFault"] + 1
  BY <1>3, <1>4 DEF Crash, DbFault, LoseNotice, ListenerFault
<1>6. /\ CutOff <=> mishaps["crash"] # 0 \/ mishaps["dbFault"] # 0
      /\ CutOff' <=> mishaps'["crash"] # 0 \/ mishaps'["dbFault"] # 0
      /\ Calm({"lockLost"})' <=> mishaps'["lockLost"] = 0
  BY DEF CutOff, Calm
<1>7. \A m \in {"crash", "dbFault", "lockLost", "noticeLost"} :
         mishaps[m] \in Nat /\ mishaps'[m] \in Nat /\ mishaps'[m] >= mishaps[m]
  BY <1>1, <1>2, <1>3
<1>8. /\ mishaps["crash"] \in Nat /\ mishaps'["crash"] \in Nat
      /\ mishaps["dbFault"] \in Nat /\ mishaps'["dbFault"] \in Nat
      /\ mishaps["lockLost"] \in Nat /\ mishaps'["lockLost"] \in Nat
      /\ mishaps["noticeLost"] \in Nat /\ mishaps'["noticeLost"] \in Nat
      /\ mishaps'["crash"] >= mishaps["crash"] /\ mishaps'["dbFault"] >= mishaps["dbFault"]
      /\ mishaps'["lockLost"] >= mishaps["lockLost"]
      /\ mishaps'["noticeLost"] >= mishaps["noticeLost"]
  BY <1>7
<1>9. mishaps'["crash"] + mishaps'["dbFault"] + mishaps'["lockLost"] + mishaps'["noticeLost"] <= 1
  BY DEF Interruptions
<1>10. Interruptions <= 1
  BY <1>8, <1>9 DEF Interruptions
<1>11. CutOff' => Calm({"lockLost"})'
  BY <1>6, <1>8, <1>9
<1>12. ASSUME CutOff
       PROVE  /\ CutOff' /\ ~Crash
              /\ \A w \in Workers : ~DbFault(w)
              /\ \A j \in DOMAIN jobs : ~LoseNotice(j) /\ ~ListenerFault(j)
  <2>1. /\ mishaps'["crash"] + mishaps'["dbFault"] >= 1
        /\ mishaps["crash"] + mishaps["dbFault"] >= 1
    BY <1>6, <1>8, <1>12
  <2>2. CutOff'
    BY <1>6, <1>8, <2>1
  <2>3. ~Crash
    BY <1>5, <1>8, <1>9, <2>1
  <2>4. \A w \in Workers : ~DbFault(w)
    BY <1>5, <1>8, <1>9, <2>1
  <2>5. \A j \in DOMAIN jobs : ~LoseNotice(j) /\ ~ListenerFault(j)
    BY <1>5, <1>8, <1>9, <2>1
  <2> QED
    BY <2>2, <2>3, <2>4, <2>5
<1>13. /\ Crash => CutOff'
       /\ \A w \in Workers : DbFault(w) => CutOff'
  BY <1>5, <1>6, <1>8
<1> QED
  BY <1>10, <1>11, <1>12, <1>13

\* By which step a call leaves its event.
LEMMA Departures ==
    ASSUME TypeInv, [Next]_vars, NEW w \in Workers, InEvent(w), ~InEvent(w)'
    PROVE  \/ CompleteEvent(w)
           \/ RevertEvent(w)
           \/ DbFault(w) /\ frame[w].pc = "revert" /\ frame'[w].pc = "thrown" /\ SameRule(w)
           \/ Crash
<1>0. frame'[w] # frame[w] /\ frame[w].pc \notin {"idle", "lock", "done", "thrown"}
  BY DEF InEvent
<1>1. CASE LockEvent(w) \/ SkipEvent(w) \/ CheckTenant(w) \/ LoadRules(w) \/ Settle(w)
  BY <1>0, <1>1, CallSteps DEF InEvent
<1>2. ASSUME NEW j \in DOMAIN jobs, PickUp(w, j)
      PROVE  FALSE
  BY <1>0, <1>2, CallSteps
<1>3. ASSUME NEW r \in Rules, FindExecution(w, r)
      PROVE  FALSE
  BY <1>3, RuleSteps DEF InEvent
<1>4. CASE StartNew(w) \/ Resume(w) \/ FinishExecution(w) \/ MarkExecution(w)
  BY <1>4, RuleSteps DEF InEvent
<1>5. CASE \/ SkipAction(w) \/ PerformAction(w) \/ LogSuccess(w) \/ LogFailure(w)
           \/ \E err \in {"retryable", "permanent"} : FailAction(w, err)
  BY <1>5, ActionSteps DEF InEvent
<1>6. CASE DbFault(w)
  <2>1. Handler(w) = frame'[w].pc
    <3>1. frame \in [Workers -> Frame]
      BY DEF TypeInv, TypeOK, ProcessorTypeOK
    <3> QED
      BY <1>6, <3>1 DEF DbFault, Throw, Frame
  <2>2. Handler(w) = "thrown" => frame[w].pc \in {"lock", "revert"}
    BY <1>6 DEF Handler, DbFault, ProcessorPc
  <2> QED
    BY <1>0, <1>6, <2>1, <2>2, ActionSteps DEF InEvent
<1> QED
  BY <1>0, <1>1, <1>2, <1>3, <1>4, <1>5, <1>6, SlotMoves DEF ProcessorStep

\* An event is put in processing by a call that locks it.
LEMMA EventLocks ==
    ASSUME TypeInv, [Next]_vars, NEW e \in Events,
           events[e] # "processing", events'[e] = "processing"
    PROVE  \E w \in Workers : LockEvent(w) /\ EventAt(w) = e
<1>0. events \in [Events -> EventStatus]
  BY DEF TypeInv, TypeOK, StoreTypeOK
<1>1. CASE Ingest
  BY <1>0, <1>1 DEF Ingest, IngestionNext, Admit, Refuse, RejectDelivery, SaveEvent,
     SaveDuplicate, ReturnExisting, Enqueue, EnqueueFault, SaveFault, storeVars
<1>2. CASE Work
  BY <1>0, <1>2 DEF Work, ProcessorNext, ProcessorStep, PickUp, DbFault, LockEvent, SkipEvent,
     CheckTenant, LoadRules, FindExecution, StartNew, Resume, SkipAction, PerformAction,
     FailAction, LogSuccess, LogFailure, FinishExecution, MarkExecution, CompleteEvent,
     RevertEvent, Settle, storeVars
<1>3. CASE Replay
  BY <1>0, <1>3 DEF Replay, ReplayNext, CheckFailed, SaveHistory, RefuseReason, ResetExecution,
     Requeue, ReplayFault, storeVars
<1>4. CASE Listen
  BY <1>0, <1>4 DEF Listen, ListenerNext, ListenerStep, FailEvent, FailExecutions, LoseNotice,
     ListenerFault
<1>5. CASE Administer \/ Manage \/ Crash \/ UNCHANGED vars
  BY <1>0, <1>5 DEF Administer, SuspendTenant, EditRule, Manage, StallJob, LoseLock, Crash,
     vars, storeVars
<1> QED
  BY <1>1, <1>2, <1>3, <1>4, <1>5 DEF Next

\* A notice goes by its delivery, its loss, a rejected update or a crash.
LEMMA NoticeMoves ==
    ASSUME TypeInv, [Next]_vars, NEW j \in failedStream, j \notin failedStream'
    PROVE  FailEvent(j) \/ LoseNotice(j) \/ ListenerFault(j) \/ Crash
<1>0. failedStream \in SUBSET DOMAIN jobs
  BY DEF TypeInv, TypeOK, StoreTypeOK
<1>1. CASE Ingest
  BY <1>1 DEF Ingest, IngestionNext, Admit, Refuse, RejectDelivery, SaveEvent, SaveDuplicate,
     ReturnExisting, Enqueue, EnqueueFault, SaveFault, AddJob, queueVars, storeVars
<1>2. CASE Work
  BY <1>2 DEF Work, ProcessorNext, ProcessorStep, PickUp, TakeJob, DbFault, LockEvent, SkipEvent,
     CheckTenant, LoadRules, FindExecution, StartNew, Resume, SkipAction, PerformAction,
     FailAction, LogSuccess, LogFailure, FinishExecution, MarkExecution, CompleteEvent,
     RevertEvent, Settle, CompleteJob, FailJob, storeVars, queueVars
<1>3. CASE Replay
  BY <1>3 DEF Replay, ReplayNext, CheckFailed, SaveHistory, RefuseReason, ResetExecution,
     Requeue, ReplayFault, AddJob, queueVars, storeVars
<1>4. CASE Listen
  BY <1>4 DEF Listen, ListenerNext, ListenerStep, FailEvent, FailExecutions, LoseNotice,
     ListenerFault, Deliver, queueVars
<1>5. CASE Administer \/ Manage \/ UNCHANGED vars
  BY <1>5 DEF Administer, SuspendTenant, EditRule, Manage, StallJob, LoseLock, vars, storeVars,
     queueVars
<1> QED
  BY <1>1, <1>2, <1>3, <1>4, <1>5 DEF Next

\* While no lock is lost, the calls of a job are one, and it holds the lock.
LEMMA CallOfJob ==
    ASSUME TypeInv, LocksHeld, Calm({"lockLost"}), NEW w \in Workers, Busy(w)
    PROVE  /\ frame[w].job \in DOMAIN jobs
           /\ jobs[frame[w].job].state = "active" /\ jobs[frame[w].job].owner = w
           /\ jobs[frame[w].job].event = EventAt(w)
           /\ \A v \in Workers : Busy(v) /\ frame[v].job = frame[w].job => v = w
BY SlotFacts DEF LocksHeld, HoldsLock, Busy, EventAt

\* A job that fails for good is reported.
LEMMA FailureIsReported ==
    ASSUME TypeInv, NEW j \in DOMAIN jobs, jobs'[j].state = "failed", jobs[j].state # "failed",
           StallJob(j) \/ \E w \in Workers : Settle(w) /\ frame[w].job = j
    PROVE  j \in failedStream'
<1>0. jobs \in Seq(Job) /\ jobs[j] \in Job
  BY Indices DEF TypeInv, TypeOK, StoreTypeOK
<1>1. CASE StallJob(j)
  <2>1. PICK again \in BOOLEAN :
           /\ jobs' = [jobs EXCEPT ![j].state = IF again THEN "waiting" ELSE "failed",
                                   ![j].stalls = jobs[j].stalls + 1]
           /\ failedStream' = IF again THEN failedStream ELSE failedStream \cup {j}
    BY <1>1 DEF StallJob
  <2>2. again => jobs'[j].state = "waiting"
    BY <1>0, <2>1 DEF Job
  <2> QED
    BY <2>1, <2>2
<1>2. ASSUME NEW w \in Workers, Settle(w), frame[w].job = j
      PROVE  j \in failedStream'
  <2>1. CASE CompleteJob(j)
    BY <1>0, <2>1, CompleteJobEffect
  <2>2. CASE FailJob(j, frame[w].discarded)
    <3>1. PICK retry \in BOOLEAN :
             /\ jobs' = [jobs EXCEPT ![j].state = IF retry THEN "waiting" ELSE "failed",
                                     ![j].made = jobs[j].made + 1, ![j].owner = None]
             /\ failedStream' = IF retry THEN failedStream ELSE failedStream \cup {j}
      BY <2>2 DEF FailJob
    <3>2. retry => jobs'[j].state = "waiting"
      BY <1>0, <3>1 DEF Job
    <3> QED
      BY <3>1, <3>2
  <2>3. CASE UNCHANGED queueVars
    BY <2>3 DEF queueVars
  <2> QED
    BY <1>2, <2>1, <2>2, <2>3 DEF Settle
<1> QED
  BY <1>1, <1>2

\* A job that stands in for a call goes on to do so, or a call takes over.
LEMMA StandInStep ==
    ASSUME TypeInv, LocksHeld, [Next]_vars, Interruptions' <= 1, CutOff,
           NEW j \in DOMAIN jobs, WillBeTakenUp(j), events'[jobs[j].event] = "processing"
    PROVE  WillBeTakenUp(j)' \/ \E w \in Workers : InEvent(w)' /\ EventAt(w)' = jobs[j].event
<1> DEFINE e == jobs[j].event
<1>0. /\ Calm({"lockLost"}) /\ Calm({"lockLost"})' /\ ~Crash
      /\ \A w \in Workers : ~DbFault(w)
      /\ ~LoseNotice(j) /\ ~ListenerFault(j)
      /\ ~\E w \in Workers, i \in DOMAIN jobs : LoseLock(w, i)
  BY InterruptionSteps, CalmBefore, CalmExcludes DEF Mishaps
<1>1. /\ TypeInv' /\ LocksHeld' /\ j \in DOMAIN jobs' /\ jobs'[j].event = e
      /\ events \in [Events -> EventStatus] /\ e \in Events /\ jobs[j] \in Job
  BY NextTypes, LocksHeldStep, NextGrows, Indices
     DEF JobsGrow, TypeInv, TypeOK, StoreTypeOK
<1>2. CASE j \in failedStream
  <2>1. CASE FailEvent(j)
    BY <1>1, <2>1 DEF FailEvent
  <2> QED
    BY <1>0, <1>2, <2>1, NoticeMoves DEF WillBeTakenUp
<1>3. CASE jobs[j].state = "waiting"
  <2>1. CASE jobs'[j] = jobs[j]
    BY <1>3, <2>1 DEF WillBeTakenUp
  <2>2. ASSUME NEW w \in Workers, PickUp(w, j), jobs'[j].state = "active"
        PROVE  WillBeTakenUp(j)'
    <3>1. frame'[w].pc = "lock" /\ frame'[w].job = j /\ Busy(w)'
      BY <2>2, CallSteps DEF Busy
    <3>2. \A v \in Workers : Busy(v)' /\ frame'[v].job = j => v = w
      <4>1. \A v \in Workers : Busy(v)' => (jobs[frame[v].job].owner = v)'
        BY <1>0, <1>1 DEF LocksHeld, HoldsLock
      <4> QED
        BY <3>1, <4>1
    <3> QED
      BY <2>2, <3>1, <3>2 DEF WillBeTakenUp, Busy
  <2> QED
    BY <1>0, <1>3, <2>1, <2>2, JobMoves DEF HoldsLock
<1>4. CASE /\ jobs[j].state = "active"
           /\ \A w \in Workers : frame[w].pc # "idle" /\ frame[w].job = j =>
                 frame[w].pc \in {"lock", "thrown"}
  <2>1. ASSUME NEW w \in Workers, frame[w].pc # "idle", frame[w].job = j,
               frame'[w] # frame[w], frame'[w].pc # "idle"
        PROVE  InEvent(w)' /\ EventAt(w)' = e
    <3>1. frame[w].pc \in {"lock", "thrown"} /\ EventAt(w) = e
      BY <1>4, <2>1 DEF EventAt
    <3>2. CASE LockEvent(w)
      <4>1. frame'[w].pc = "tenant" /\ frame'[w].job = j
        BY <2>1, <3>2, CallSteps DEF SameRule, SameCall
      <4> QED
        BY <1>1, <4>1 DEF InEvent, EventAt
    <3>3. CASE SkipEvent(w)
      <4>1. events[e] \notin Lockable /\ events' = events
        BY <3>1, <3>3 DEF SkipEvent, storeVars
      <4> QED
        BY <4>1 DEF Lockable
    <3>4. ~\E i \in DOMAIN jobs : PickUp(w, i)
      BY <2>1, CallSteps
    <3>5. ProcessorStep(w)
      BY <1>0, <2>1, <3>4, SlotMoves
    <3>6. CASE Settle(w)
      BY <2>1, <3>6, CallSteps DEF IdleFrame
    <3>7. LockEvent(w) \/ SkipEvent(w) \/ Settle(w)
      BY <3>1, <3>5 DEF ProcessorStep, CheckTenant, LoadRules, FindExecution, StartNew, Resume,
         SkipAction, PerformAction, FailAction, LogSuccess, LogFailure, FinishExecution,
         MarkExecution, CompleteEvent, RevertEvent
    <3> QED
      BY <3>2, <3>3, <3>6, <3>7
  <2>2. CASE jobs'[j] = jobs[j]
    <3>1. ASSUME NEW w \in Workers, frame'[w].pc # "idle", frame'[w].job = j,
                 frame'[w].pc \notin {"lock", "thrown"}
          PROVE  InEvent(w)' /\ EventAt(w)' = e
      <4>1. CASE frame'[w] = frame[w]
        BY <1>4, <3>1, <4>1
      <4>2. CASE frame'[w] # frame[w]
        <5>1. frame'[w].job = frame[w].job /\ frame[w].pc # "idle"
          BY <3>1, <4>2, Arrivals
        <5> QED
          BY <2>1, <3>1, <4>2, <5>1
      <4> QED
        BY <4>1, <4>2
    <3> QED
      BY <1>4, <2>2, <3>1 DEF WillBeTakenUp
  <2>3. CASE StallJob(j) /\ jobs'[j].state \in {"waiting", "failed"}
    BY <1>4, <2>3, FailureIsReported DEF WillBeTakenUp
  <2>4. ASSUME NEW w \in Workers, Settle(w), frame[w].job = j, HoldsLock(w, j)
        PROVE  WillBeTakenUp(j)'
    <3>1. frame[w].pc = "thrown"
      BY <1>4, <2>4, CallSteps
    <3>2. FailJob(j, frame[w].discarded)
      BY <2>4, <3>1 DEF Settle
    <3>3. jobs'[j].state \in {"waiting", "failed"}
      BY <3>2, FailJobEffect DEF TypeInv, TypeOK, StoreTypeOK
    <3> QED
      BY <1>4, <2>4, <3>3, FailureIsReported DEF WillBeTakenUp
  <2> QED
    BY <1>0, <1>4, <2>2, <2>3, <2>4, JobMoves
<1> QED
  BY <1>2, <1>3, <1>4 DEF WillBeTakenUp

\* A call that leaves its event in processing has been cut off, and its job
\* stands in for it.
LEMMA EventHeldStep ==
    ASSUME TypeInv, LocksHeld, EventHeldInv, [Next]_vars, Interruptions' <= 1,
           NEW e \in Events, events'[e] = "processing"
    PROVE  EventHeld(e)'
<1>0. /\ Interruptions <= 1 /\ events \in [Events -> EventStatus]
      /\ \A i \in DOMAIN jobs : i \in DOMAIN jobs' /\ jobs'[i].event = jobs[i].event
  BY InterruptionSteps, NextGrows DEF JobsGrow, TypeInv, TypeOK, StoreTypeOK
<1>1. CASE events[e] # "processing"
  <2>1. PICK w \in Workers : LockEvent(w) /\ EventAt(w) = e
    BY <1>1, EventLocks
  <2>2. /\ frame'[w].pc = "tenant" /\ frame'[w].job = frame[w].job
        /\ frame[w].job \in DOMAIN jobs
    BY <2>1, CallSteps, SlotFacts DEF SameRule, SameCall
  <2> QED
    BY <1>0, <2>1, <2>2 DEF EventHeld, InEvent, EventAt
<1>2. ASSUME NEW w \in Workers, InEvent(w), EventAt(w) = e
      PROVE  EventHeld(e)'
  <2>0. frame[w].job \in DOMAIN jobs /\ jobs[frame[w].job].event = e /\ Busy(w)
    BY <1>2, SlotFacts DEF InEvent, EventAt, Busy
  <2>1. CASE InEvent(w)'
    <3>1. frame'[w].job = frame[w].job
      BY <2>1, Arrivals DEF InEvent
    <3> QED
      BY <1>0, <1>2, <2>0, <2>1, <3>1 DEF EventHeld, EventAt
  <2>2. CASE CompleteEvent(w) \/ RevertEvent(w)
    BY <1>0, <1>2, <2>2 DEF CompleteEvent, RevertEvent
  <2>3. CASE DbFault(w) /\ frame'[w].pc = "thrown" /\ SameRule(w)
    <3>1. CutOff' /\ Calm({"lockLost"}) /\ jobs' = jobs
      BY <2>3, InterruptionSteps, CalmBefore DEF Mishaps, DbFault, queueVars
    <3>2. ASSUME NEW v \in Workers, frame'[v].pc # "idle", frame'[v].job = frame[w].job
          PROVE  v = w
      <4>1. CASE frame'[v] = frame[v]
        BY <2>0, <3>1, <3>2, <4>1, CallOfJob DEF Busy
      <4>2. CASE frame'[v] # frame[v]
        <5>1. frame \in [Workers -> Frame]
          BY DEF TypeInv, TypeOK, ProcessorTypeOK
        <5> QED
          BY <2>3, <4>2, <5>1 DEF DbFault, Throw
      <4> QED
        BY <4>1, <4>2
    <3>3. jobs'[frame[w].job].state = "active"
      BY <2>0, <3>1, CallOfJob
    <3> QED
      BY <1>0, <2>0, <2>3, <3>1, <3>2, <3>3 DEF EventHeld, WillBeTakenUp
  <2>4. CASE Crash
    <3>1. CutOff' /\ Calm({"lockLost"})
      BY <2>4, InterruptionSteps, CalmBefore DEF Mishaps
    <3>2. jobs'[frame[w].job].state = "active"
      <4>1. jobs[frame[w].job].state = "active" /\ jobs[frame[w].job] \in Job
        BY <2>0, <3>1, CallOfJob, Indices
      <4>2. jobs'[frame[w].job] = [jobs[frame[w].job] EXCEPT !.owner = None]
        BY <2>0, <2>4 DEF Crash
      <4> QED
        BY <4>1, <4>2 DEF Job
    <3>3. \A v \in Workers : frame'[v].pc = "idle"
      BY <2>4 DEF Crash, IdleFrame
    <3> QED
      BY <1>0, <2>0, <3>1, <3>2, <3>3 DEF EventHeld, WillBeTakenUp
  <2> QED
    BY <1>2, <2>1, <2>2, <2>3, <2>4, Departures
<1>3. ASSUME CutOff, NEW j \in DOMAIN jobs, jobs[j].event = e, WillBeTakenUp(j)
      PROVE  EventHeld(e)'
  BY <1>0, <1>3, StandInStep, InterruptionSteps DEF EventHeld
<1> QED
  BY <1>0, <1>1, <1>2, <1>3 DEF EventHeldInv, EventHeld

\* One interruption, wherever it comes, strands no event in processing: with a
\* call cut off, its job is retried, taken up after a stall or reported as failed.
THEOREM OneInterruptionStrandsNoEvent == Spec => []EventIsInHand
<1>1. Init => LocksHeld /\ EventHeldInv
  BY DEF Init, StoreInit, ProcessorInit, IdleFrame, LocksHeld, Busy, EventHeldInv
<1>2. TypeInv /\ LocksHeld /\ EventHeldInv /\ [Next]_vars => EventHeldInv'
  BY EventHeldStep DEF EventHeldInv
<1>3. EventHeldInv => EventIsInHand
  BY DEF EventHeldInv, EventHeld, WillBeTakenUp, EventIsInHand, InHand
<1> QED
  BY <1>1, <1>2, <1>3, LocksHeldStep, ReferencesExist, PTL DEF Spec

-----------------------------------------------------------------------------
(* ProcessingIsInHand *)

\* In single file, with the rules left as they are.
InOrder == Single /\ Calm({"ruleEdit"})

LEMMA InOrderBefore ==
    ASSUME TypeInv, [Next]_vars, InOrder'
    PROVE  InOrder
BY SingleBefore, CalmBefore DEF InOrder, Mishaps

\* The parts of ExecutionHeldInv.
LEMMA HeldParts ==
    ExecutionHeldInv <=> (InOrder =>
        /\ \A w \in Workers : /\ OnItsList(w) /\ EventOpen(w)
                              /\ Listed("processing", w) /\ NoneAtEnd("processing", w)
        /\ \A e \in Events : events[e] = "completed" => OnlyWith("processing", e, {})
        /\ Interruptions <= 1 =>
              \A x \in DOMAIN executions :
                  executions[x].status = "processing" => ExecutionHeld(x))
BY DEF ExecutionHeldInv, InOrder, OnItsList, EventOpen

\* An execution is put in processing by a call that opens it.
LEMMA Openings ==
    ASSUME TypeInv, [Next]_vars, NEW x \in DOMAIN executions',
           executions'[x].status = "processing",
           ~(x \in DOMAIN executions /\ executions[x].status = "processing")
    PROVE  \E w \in Workers :
              /\ StartNew(w) \/ Resume(w)
              /\ frame[w].pc = "open" /\ frame'[w].pc \in {"act", "mark"}
              /\ frame'[w].exec = x
              /\ executions'[x].event = EventAt(w)
              /\ executions'[x].rule = RuleId[frame[w].rule]
<1>1. CASE x \notin DOMAIN executions
  BY <1>1, NewExecutions, RuleSteps
<1>2. CASE x \in DOMAIN executions
  <2>1. PICK w \in Workers :
           /\ Resume(w) /\ frame[w].exec = x
           /\ executions[x].event = EventAt(w)
           /\ executions[x].rule = RuleId[frame[w].rule]
    BY <1>2, StatusMoves
  <2>2. executions'[x].event = executions[x].event /\ executions'[x].rule = executions[x].rule
    BY <1>2, NextGrows DEF ExecutionsGrow
  <2> QED
    BY <2>1, <2>2, RuleSteps DEF SameRule
<1> QED
  BY <1>1, <1>2

\* No execution of another rule comes into processing while no call opens one.
LEMMA ProcessingKept ==
    ASSUME TypeInv, [Next]_vars, NEW e \in Events, NEW left, OnlyWith("processing", e, left),
           \A w \in Workers : frame[w].pc = "open" /\ EventAt(w) = e => frame[w].rule \in left
    PROVE  OnlyWith("processing", e, left)'
<1> SUFFICES ASSUME NEW x \in DOMAIN executions', executions'[x].event = e,
                    executions'[x].status = "processing"
             PROVE  executions'[x].rule \in {RuleId[r] : r \in left}
  BY DEF OnlyWith
<1>1. CASE x \in DOMAIN executions /\ executions[x].status = "processing"
  BY <1>1, NextGrows DEF ExecutionsGrow, OnlyWith
<1>2. CASE ~(x \in DOMAIN executions /\ executions[x].status = "processing")
  BY <1>2, Openings
<1> QED
  BY <1>1, <1>2

\* The call of an event is the only one that opens executions of it.
LEMMA OnlyOpener ==
    ASSUME TypeInv, SingleFileInv, Single, NEW w \in Workers, AtWork(w),
           NEW v \in Workers, frame[v].pc = "open", EventAt(v) = EventAt(w)
    PROVE  v = w
BY OneCall DEF AtWork

\* A call takes a rule off its list when the rule's execution is over; and rules
\* it does not list have none, for executions are of rules that match and are as
\* they were.  So of those with another status the rules stay
\* listed, as long as the step gives no execution off the list that status.
LEMMA ListedStep ==
    ASSUME TypeInv, SingleFileInv, MatchInv, RulesKept, [Next]_vars, InOrder,
           NEW w \in Workers, NEW status \in {"processing", "queued"}, Listed(status, w),
           \A e \in Events, left \in SUBSET Rules :
              /\ frame[w].pc \in InRule \cup {"loop"}
              /\ e = EventAt(w) /\ left = frame[w].todo
              => OnlyWith(status, e, left)'
    PROVE  Listed(status, w)'
<1> SUFFICES ASSUME frame'[w].pc \in InRule \cup {"loop"}
             PROVE  OnlyWith(status, EventAt(w), frame[w].todo)'
  BY DEF Listed
<1>0. /\ Single /\ executions \in Seq(Execution)
      /\ \A x \in DOMAIN executions : executions[x].ranAs \subseteq activeRules
      /\ frame'[w].job = frame[w].job /\ frame[w].pc # "idle"
  BY Arrivals DEF InOrder, RulesKept, TypeInv, TypeOK, StoreTypeOK, InRule
<1>1. PICK e \in Events : /\ e = EventAt(w) /\ e = EventAt(w)'
                          /\ jobs[frame[w].job].event = e /\ Matches[e] \subseteq Rules
  BY <1>0, NextGrows, SlotFacts, StoreAssumption DEF JobsGrow, EventAt
<1> SUFFICES OnlyWith(status, e, frame[w].todo)'
  BY <1>1 DEF OnlyWith
<1>2. ASSUME frame[w].pc \in InRule \cup {"loop"}
      PROVE  OnlyWith(status, e, frame[w].todo)
  BY <1>1, <1>2 DEF Listed
<1>4. CASE frame[w].pc \in InRule \cup {"loop"} /\ frame'[w].todo = frame[w].todo
  <2>1. PICK left \in SUBSET Rules : left = frame[w].todo /\ left = frame'[w].todo
    BY <1>4, SlotFacts DEF Frame
  <2>2. OnlyWith(status, e, left)'
    BY <1>1, <1>4, <2>1
  <2> QED
    BY <2>1, <2>2 DEF OnlyWith
<1>5. CASE LoadRules(w)
  <2>1. executions' = executions /\ frame'[w].todo = Matches[e] \cap activeRules
    BY <1>0, <1>1, <1>5, CallSteps DEF LoadRules, storeVars
  <2>2. ASSUME NEW x \in DOMAIN executions, executions[x].event = e
        PROVE  \E r \in Matches[e] \cap activeRules : executions[x].rule = RuleId[r]
    <3>1. RunsOfRule(x) /\ executions[x].ranAs \subseteq activeRules
      BY <1>0, <2>2 DEF MatchInv
    <3> QED
      BY <2>2, <3>1 DEF RunsOfRule
  <2> QED
    BY <2>1, <2>2 DEF OnlyWith
<1>6. ASSUME NEW q \in Rules, FindExecution(w, q), frame'[w].todo # frame[w].todo
      PROVE  OnlyWith(status, e, frame[w].todo)'
  <2>1. PICK x \in ExecutionsOf(e, q) :
           /\ executions[x].status \in {"completed", "failed"}
           /\ frame'[w].todo = frame[w].todo \ {q} /\ frame[w].pc = "loop"
    BY <1>1, <1>6, RuleSteps
  <2>2. \A y \in ExecutionsOf(e, q) : y = x
    BY <1>0, <2>1 DEF SingleFileInv, LookupInv
  <2>3. executions' = executions
    BY <1>6 DEF FindExecution, storeVars
  <2>4. OnlyWith(status, e, frame[w].todo)
    BY <1>2, <2>1
  <2> QED
    BY <2>1, <2>2, <2>3, <2>4 DEF OnlyWith, ExecutionsOf
<1>7. CASE FinishExecution(w)
  <2>1. /\ frame[w].pc = "act" /\ frame'[w].todo = frame[w].todo \ {frame[w].rule}
        /\ frame[w].rule \in Rules
        /\ frame[w].exec \in ExecutionsOf(e, frame[w].rule)
    BY <1>1, <1>7, RuleSteps, SlotFacts DEF SlotRefs, InActions, InRule, ExecutionsOf
  <2>2. \A y \in ExecutionsOf(e, frame[w].rule) : y = frame[w].exec
    BY <1>0, <2>1 DEF SingleFileInv, LookupInv
  <2>3. /\ CompleteExecution(frame[w].exec, "completed") /\ "completed" \in ExecutionStatus
        /\ frame[w].exec \in DOMAIN executions
    BY <1>7, <2>1 DEF FinishExecution, ExecutionStatus, ExecutionsOf
  <2>4. /\ DOMAIN executions' = DOMAIN executions
        /\ executions'[frame[w].exec].status = "completed"
        /\ \A y \in DOMAIN executions : y # frame[w].exec => executions'[y] = executions[y]
    BY <1>0, <2>3, CompleteExecutionEffect
  <2>5. OnlyWith(status, e, frame[w].todo)
    BY <1>2, <2>1 DEF InRule
  <2> QED
    BY <2>1, <2>2, <2>4, <2>5 DEF OnlyWith, ExecutionsOf
<1>8. \/ StartNew(w) \/ Resume(w) \/ SkipAction(w) \/ LogSuccess(w) \/ PerformAction(w) =>
            frame[w].pc \in InRule /\ frame'[w].todo = frame[w].todo
  BY RuleSteps, ActionSteps DEF SameProgress, SameRule, SameCall, InRule
<1>9. ASSUME NEW q \in Rules, FindExecution(w, q)
      PROVE  frame[w].pc = "loop"
  BY <1>9 DEF FindExecution
<1>10. CASE frame'[w] # frame[w]
  BY <1>4, <1>5, <1>6, <1>7, <1>8, <1>9, <1>10, Arrivals
     DEF InRule, InActions, SameRule, SameCall
<1> QED
  BY <1>4, <1>10

\* An event is completed at the end of the list.
LEMMA NoneCompleted ==
    ASSUME TypeInv, [Next]_vars, NEW status, \A w \in Workers : Listed(status, w),
           NEW e \in Events, events'[e] = "completed",
           events[e] = "completed" => OnlyWith(status, e, {})'
    PROVE  OnlyWith(status, e, {})'
<1>1. CASE events[e] = "completed"
  BY <1>1
<1>2. CASE events[e] # "completed"
  <2>1. PICK w \in Workers : CompleteEvent(w) /\ EventAt(w) = e
    BY <1>2, EventCompletions
  <2>2. frame[w].pc = "loop" /\ frame[w].todo = {} /\ executions' = executions
    BY <2>1 DEF CompleteEvent
  <2>3. OnlyWith(status, e, {})
    BY <2>1, <2>2 DEF Listed
  <2> QED
    BY <2>2, <2>3 DEF OnlyWith
<1> QED
  BY <1>1, <1>2

\* A call is done when its event is completed, by itself or before it.
LEMMA NoneAtEndStep ==
    ASSUME TypeInv, AcknowledgedInv, [Next]_vars, NEW w \in Workers, NEW status,
           \A e \in Events : events'[e] = "completed" => OnlyWith(status, e, {})',
           \A e \in Events : frame[w].pc = "done" /\ EventAt(w) = e => OnlyWith(status, e, {})'
    PROVE  NoneAtEnd(status, w)'
<1> SUFFICES ASSUME frame'[w].pc = "done"
             PROVE  OnlyWith(status, EventAt(w), {})'
  BY DEF NoneAtEnd
<1>0. events \in [Events -> EventStatus]
  BY DEF TypeInv, TypeOK, StoreTypeOK
<1>1. frame[w].pc # "idle" /\ frame'[w].job = frame[w].job
  <2>1. CASE frame'[w] = frame[w]
    BY <2>1
  <2>2. CASE frame'[w] # frame[w]
    BY <2>2, Arrivals
  <2> QED
    BY <2>1, <2>2
<1>2. PICK e \in Events : /\ e = EventAt(w) /\ e = EventAt(w)'
                          /\ frame[w].job \in DOMAIN jobs /\ jobs[frame[w].job].event = e
  BY <1>1, NextGrows, SlotFacts DEF JobsGrow, EventAt
<1> SUFFICES OnlyWith(status, e, {})'
  BY <1>2 DEF OnlyWith
<1>3. CASE frame'[w] = frame[w]
  BY <1>2, <1>3
<1>4. CASE CompleteEvent(w)
  <2>1. events'[e] = "completed"
    BY <1>0, <1>2, <1>4 DEF CompleteEvent
  <2> QED
    BY <2>1
<1>5. CASE SkipEvent(w)
  <2>1. events[e] # "absent"
    BY <1>2 DEF AcknowledgedInv
  <2>2. events'[e] = "completed"
    BY <1>0, <1>2, <1>5, <2>1 DEF SkipEvent, Lockable, EventStatus, storeVars
  <2> QED
    BY <2>2
<1>6. CASE frame'[w] # frame[w]
  <2>1. CASE LockEvent(w) \/ CheckTenant(w) \/ LoadRules(w) \/ RevertEvent(w)
    BY <2>1, CallSteps
  <2>2. CASE Settle(w) \/ Crash
    <3>1. frame'[w] = IdleFrame
      BY <2>2, CallSteps DEF Crash
    <3> QED
      BY <3>1 DEF IdleFrame
  <2>3. ASSUME NEW j \in DOMAIN jobs, PickUp(w, j)
        PROVE  FALSE
    BY <1>1, <2>3, CallSteps
  <2>4. ASSUME NEW r \in Rules, FindExecution(w, r)
        PROVE  FALSE
    BY <2>4, RuleSteps
  <2>5. CASE StartNew(w) \/ Resume(w) \/ FinishExecution(w) \/ MarkExecution(w)
    BY <2>5, RuleSteps
  <2>6. CASE \/ SkipAction(w) \/ PerformAction(w) \/ LogSuccess(w) \/ LogFailure(w)
             \/ \E err \in {"retryable", "permanent"} : FailAction(w, err)
    BY <2>6, ActionSteps
  <2>7. CASE DbFault(w)
    BY <2>7, ActionSteps
  <2> QED
    BY <1>4, <1>5, <1>6, <2>1, <2>2, <2>3, <2>4, <2>5, <2>6, <2>7, SlotMoves DEF ProcessorStep
<1> QED
  BY <1>3, <1>6

\* By which step a call leaves the actions of its execution.
LEMMA ActionDepartures ==
    ASSUME TypeInv, [Next]_vars, NEW w \in Workers, frame[w].pc \in InActions
    PROVE  \/ frame'[w].pc \in InActions /\ frame'[w].exec = frame[w].exec
           \/ FinishExecution(w)
           \/ MarkExecution(w)
           \/ DbFault(w)
           \/ Crash
<1>0. frame[w].pc \in {"act", "logOk", "logFail", "mark"}
  BY DEF InActions
<1>1. CASE \/ LockEvent(w) \/ SkipEvent(w) \/ CheckTenant(w) \/ LoadRules(w)
           \/ CompleteEvent(w) \/ RevertEvent(w) \/ Settle(w)
  BY <1>0, <1>1, CallSteps
<1>2. ASSUME NEW j \in DOMAIN jobs, PickUp(w, j)
      PROVE  FALSE
  BY <1>0, <1>2, CallSteps
<1>3. ASSUME NEW r \in Rules, FindExecution(w, r)
      PROVE  FALSE
  BY <1>0, <1>3, RuleSteps
<1>4. CASE StartNew(w) \/ Resume(w)
  BY <1>0, <1>4, RuleSteps
<1>5. CASE \/ SkipAction(w) \/ PerformAction(w) \/ LogSuccess(w) \/ LogFailure(w)
           \/ \E err \in {"retryable", "permanent"} : FailAction(w, err)
  BY <1>5, ActionSteps DEF SameProgress, SameRule, InActions
<1>6. CASE frame'[w] = frame[w]
  BY <1>6
<1> QED
  BY <1>1, <1>2, <1>3, <1>4, <1>5, <1>6, SlotMoves DEF ProcessorStep

\* A job's recovery ends with its second update, a rejected one, or a crash.
LEMMA RecoveryMoves ==
    ASSUME TypeInv, [Next]_vars, NEW j \in recovering, j \notin recovering'
    PROVE  FailExecutions(j) \/ ListenerFault(j) \/ Crash
BY DEF Next, Ingest, Work, Replay, Administer, Manage, Listen, ListenerNext, ListenerStep,
   FailEvent, FailExecutions, LoseNotice, ListenerFault, listenerVars, vars

\* A job that stands in for an execution goes on to do so: while the execution is
\* not over, no call of the event is done, so the job is not completed.
LEMMA StandInKept ==
    ASSUME TypeInv, [Next]_vars, ~Crash,
           NEW status \in {"processing", "queued"}, \A w \in Workers : NoneAtEnd(status, w),
           NEW x \in DOMAIN executions, executions[x].status = status,
           executions'[x].status = status,
           NEW j \in DOMAIN jobs, jobs[j].event = executions[x].event,
           ~LoseNotice(j), ~ListenerFault(j),
           jobs[j].state \in {"waiting", "active"} \/ j \in failedStream \cup recovering
    PROVE  jobs'[j].state \in {"waiting", "active"} \/ j \in failedStream' \cup recovering'
<1>1. CASE j \in failedStream
  <2>1. FailEvent(j) => j \in recovering'
    BY DEF FailEvent
  <2> QED
    BY <1>1, <2>1, NoticeMoves
<1>2. CASE j \in recovering
  <2>1. CASE FailExecutions(j)
    <3>1. executions'[x].status = "failed"
      <4>1. executions[x] \in Execution
        BY Indices
      <4>2. executions'[x] = [executions[x] EXCEPT !.status = "failed"]
        BY <2>1 DEF FailExecutions, FailActiveExecutions
      <4> QED
        BY <4>1, <4>2 DEF Execution
    <3> QED
      BY <3>1
  <2> QED
    BY <1>2, <2>1, RecoveryMoves
<1>3. CASE jobs[j].state \in {"waiting", "active"}
  <2>1. CASE StallJob(j) /\ jobs'[j].state \in {"waiting", "failed"}
    BY <1>3, <2>1, FailureIsReported
  <2>2. ASSUME NEW w \in Workers, Settle(w), frame[w].job = j, HoldsLock(w, j)
        PROVE  jobs'[j].state \in {"waiting", "active"} \/ j \in failedStream'
    <3>1. CASE frame[w].pc = "done"
      <4>1. EventAt(w) = executions[x].event
        BY <2>2 DEF EventAt
      <4> QED
        BY <3>1, <4>1 DEF NoneAtEnd, OnlyWith
    <3>2. CASE frame[w].pc = "thrown"
      <4>1. FailJob(j, frame[w].discarded)
        BY <2>2, <3>2 DEF Settle
      <4>2. jobs'[j].state \in {"waiting", "failed"}
        BY <4>1, FailJobEffect DEF TypeInv, TypeOK, StoreTypeOK
      <4> QED
        BY <1>3, <2>2, <4>2, FailureIsReported
    <3> QED
      BY <2>2, <3>1, <3>2 DEF Settle
  <2>3. CASE jobs'[j] = jobs[j]
    BY <1>3, <2>3
  <2> QED
    BY <1>3, <2>1, <2>2, <2>3, JobMoves
<1> QED
  BY <1>1, <1>2, <1>3

\* A call that leaves its execution in processing has been cut off.
LEMMA ExecutionHeldStep ==
    ASSUME TypeInv, LocksHeld, ExecutionHeldInv, InOrder, [Next]_vars, Interruptions' <= 1,
           NEW x \in DOMAIN executions', executions'[x].status = "processing"
    PROVE  ExecutionHeld(x)'
<1>0. /\ Interruptions <= 1 /\ executions \in Seq(Execution)
      /\ \A i \in DOMAIN jobs : i \in DOMAIN jobs' /\ jobs'[i].event = jobs[i].event
  BY InterruptionSteps, NextGrows DEF JobsGrow, TypeInv, TypeOK, StoreTypeOK
<1>1. CASE ~(x \in DOMAIN executions /\ executions[x].status = "processing")
  BY <1>1, Openings DEF ExecutionHeld, InActions
<1>2. CASE x \in DOMAIN executions /\ executions[x].status = "processing"
  <2>0. ExecutionHeld(x) /\ executions'[x].event = executions[x].event
    BY <1>0, <1>2, HeldParts, NextGrows DEF ExecutionsGrow
  <2>1. ASSUME NEW w \in Workers, frame[w].pc \in InActions, frame[w].exec = x
        PROVE  ExecutionHeld(x)'
    <3>0. /\ frame[w].job \in DOMAIN jobs /\ jobs[frame[w].job].event = executions[x].event
          /\ Busy(w)
      BY <2>1, SlotFacts DEF SlotRefs, InActions, EventAt, Busy
    <3>1. CASE FinishExecution(w) \/ MarkExecution(w)
      <4>1. PICK status \in {"completed", "retrying", "failed"} : CompleteExecution(x, status)
        BY <2>1, <3>1 DEF FinishExecution, MarkExecution
      <4>2. executions'[x].status = status
        BY <1>0, <1>2, <4>1, CompleteExecutionEffect DEF ExecutionStatus
      <4> QED
        BY <4>1, <4>2
    <3>2. CASE DbFault(w)
      <4>1. CutOff' /\ Calm({"lockLost"}) /\ jobs' = jobs
        BY <3>2, InterruptionSteps, CalmBefore DEF Mishaps, DbFault, queueVars
      <4>2. jobs[frame[w].job].state = "active"
        BY <3>0, <4>1, CallOfJob
      <4> QED
        BY <2>0, <3>0, <4>1, <4>2 DEF ExecutionHeld
    <3>3. CASE Crash
      <4>1. CutOff' /\ Calm({"lockLost"})
        BY <3>3, InterruptionSteps, CalmBefore DEF Mishaps
      <4>2. jobs[frame[w].job].state = "active" /\ jobs[frame[w].job] \in Job
        BY <3>0, <4>1, CallOfJob, Indices
      <4>3. jobs'[frame[w].job] = [jobs[frame[w].job] EXCEPT !.owner = None]
        BY <3>0, <3>3 DEF Crash
      <4>4. jobs'[frame[w].job].state = "active"
        BY <4>2, <4>3 DEF Job
      <4> QED
        BY <1>0, <2>0, <3>0, <4>1, <4>4 DEF ExecutionHeld
    <3>4. CASE frame'[w].pc \in InActions /\ frame'[w].exec = frame[w].exec
      BY <2>1, <3>4 DEF ExecutionHeld
    <3> QED
      BY <2>1, <3>1, <3>2, <3>3, <3>4, ActionDepartures
  <2>2. ASSUME CutOff, NEW j \in DOMAIN jobs, jobs[j].event = executions[x].event,
               jobs[j].state \in {"waiting", "active"} \/ j \in failedStream \cup recovering
        PROVE  ExecutionHeld(x)'
    <3>1. jobs'[j].state \in {"waiting", "active"} \/ j \in failedStream' \cup recovering'
      <4>1. /\ ~Crash /\ ~LoseNotice(j) /\ ~ListenerFault(j)
            /\ \A w \in Workers : NoneAtEnd("processing", w)
        BY <2>2, InterruptionSteps, HeldParts
      <4> QED
        BY <1>2, <2>2, <4>1, StandInKept
    <3>2. CutOff'
      BY <2>2, InterruptionSteps
    <3> QED
      BY <1>0, <2>0, <2>2, <3>1, <3>2 DEF ExecutionHeld
  <2> QED
    BY <2>0, <2>1, <2>2 DEF ExecutionHeld
<1> QED
  BY <1>1, <1>2

\* What the calls of an event know of its executions in processing stays so: no
\* other call opens one, and none once the event is completed.
LEMMA ProcessingStep ==
    ASSUME TypeInv, SingleFileInv, MatchInv, AcknowledgedInv, RulesKept, ExecutionHeldInv,
           InOrder, [Next]_vars
    PROVE  /\ \A w \in Workers : Listed("processing", w)' /\ NoneAtEnd("processing", w)'
           /\ \A e \in Events : events'[e] = "completed" => OnlyWith("processing", e, {})'
<1>0. /\ Single
      /\ \A w \in Workers : /\ OnItsList(w) /\ EventOpen(w)
                            /\ Listed("processing", w) /\ NoneAtEnd("processing", w)
  BY HeldParts DEF InOrder
<1>1. ASSUME NEW e \in Events, events[e] = "completed"
      PROVE  OnlyWith("processing", e, {})'
  <2>1. OnlyWith("processing", e, {})
    BY <1>1, HeldParts
  <2>2. ~\E w \in Workers : frame[w].pc = "open" /\ EventAt(w) = e
    BY <1>0, <1>1 DEF EventOpen, Working, InRule
  <2> QED
    BY <2>1, <2>2, ProcessingKept
<1>2. \A e \in Events : events'[e] = "completed" => OnlyWith("processing", e, {})'
  BY <1>0, <1>1, NoneCompleted
<1>3. ASSUME NEW w \in Workers, NEW e \in Events, frame[w].pc = "done", EventAt(w) = e
      PROVE  OnlyWith("processing", e, {})'
  <2>1. OnlyWith("processing", e, {}) /\ AtWork(w)
    BY <1>0, <1>3 DEF NoneAtEnd, AtWork
  <2>2. ~\E v \in Workers : frame[v].pc = "open" /\ EventAt(v) = e
    BY <1>0, <1>3, <2>1, OnlyOpener
  <2> QED
    BY <2>1, <2>2, ProcessingKept
<1>4. ASSUME NEW w \in Workers, NEW e \in Events, NEW left \in SUBSET Rules,
             frame[w].pc \in InRule \cup {"loop"}, e = EventAt(w), left = frame[w].todo
      PROVE  OnlyWith("processing", e, left)'
  <2>1. OnlyWith("processing", e, left) /\ AtWork(w)
    BY <1>0, <1>4 DEF Listed, AtWork, InRule
  <2>2. ASSUME NEW v \in Workers, frame[v].pc = "open", EventAt(v) = e
        PROVE  frame[v].rule \in left
    <3>1. v = w
      BY <1>0, <1>4, <2>1, <2>2, OnlyOpener
    <3> QED
      BY <1>0, <1>4, <2>2, <3>1 DEF OnItsList, InRule
  <2> QED
    BY <2>1, <2>2, ProcessingKept
<1>5. \A w \in Workers : Listed("processing", w)'
  BY <1>0, <1>4, ListedStep
<1>6. \A w \in Workers : NoneAtEnd("processing", w)'
  BY <1>2, <1>3, NoneAtEndStep
<1> QED
  BY <1>2, <1>5, <1>6

LEMMA ExecutionsHeld == Spec => []ExecutionHeldInv
<1>1. Init => RulesKept /\ ExecutionHeldInv
  <2> SUFFICES ASSUME Init
               PROVE  RulesKept /\ ExecutionHeldInv
    OBVIOUS
  <2>1. executions = <<>> /\ \A w \in Workers : frame[w].pc = "idle"
    BY DEF Init, StoreInit, ProcessorInit, IdleFrame
  <2>2. \A e \in Events : events[e] = "absent"
    BY DEF Init, StoreInit
  <2> QED
    BY <2>1, <2>2, RulesKeptAtFirst DEF ExecutionHeldInv, Listed, NoneAtEnd, OnlyWith, InRule, Working
<1>2. /\ TypeInv /\ SingleFileInv /\ MatchInv /\ AcknowledgedInv /\ RulesKept
      /\ ExecutionHeldInv /\ [Next]_vars
      => ExecutionHeldInv'
  <2> SUFFICES ASSUME TypeInv, SingleFileInv, MatchInv, AcknowledgedInv, RulesKept,
                      ExecutionHeldInv, [Next]_vars, InOrder'
               PROVE  /\ \A w \in Workers : OnItsList(w)' /\ EventOpen(w)'
                      /\ \A w \in Workers : /\ Listed("processing", w)'
                                            /\ NoneAtEnd("processing", w)'
                      /\ \A e \in Events :
                            events'[e] = "completed" => OnlyWith("processing", e, {})'
                      /\ Interruptions' <= 1 =>
                            \A x \in DOMAIN executions' :
                                executions'[x].status = "processing" => ExecutionHeld(x)'
    BY DEF ExecutionHeldInv, InOrder, OnItsList, EventOpen
  <2>1. InOrder /\ Single /\ LocksHeld
    BY InOrderBefore DEF InOrder, SingleFileInv
  <2>2. ASSUME NEW w \in Workers
        PROVE  OnItsList(w)' /\ EventOpen(w)'
    BY <2>1, HeldParts, OnListStep, OpenStep
  <2> QED
    BY <2>1, <2>2, ProcessingStep, ExecutionHeldStep
<1> QED
  BY <1>1, <1>2, RulesKeptStep, SingleFileHolds, MatchHolds, AcknowledgedHolds, ReferencesExist,
     PTL DEF Spec

\* Nor does it strand an execution in processing: the retry of its job finds the
\* rule's execution and resumes it, or the listener fails it.
THEOREM OneInterruptionStrandsNoExecution == Spec => []ProcessingIsInHand
<1>1. TypeInv /\ ExecutionHeldInv /\ IsFiniteSet(ActiveReplays) => ProcessingIsInHand
  <2> SUFFICES ASSUME TypeInv, ExecutionHeldInv, IsFiniteSet(ActiveReplays), Interruptions <= 1,
                      SingleFile, Calm({"ruleEdit"}),
                      NEW x \in DOMAIN executions, executions[x].status = "processing"
               PROVE  InHand(executions[x].event, failedStream \cup recovering)
    BY DEF ProcessingIsInHand
  <2>1. ExecutionHeld(x)
    BY SingleFileIsSingle, HeldParts DEF InOrder
  <2>2. ASSUME NEW w \in Workers, frame[w].pc \in InActions, frame[w].exec = x
        PROVE  InEvent(w) /\ EventAt(w) = executions[x].event
    BY <2>2, SlotFacts DEF SlotRefs, InActions, InEvent
  <2> QED
    BY <2>1, <2>2 DEF ExecutionHeld, InHand
<1> QED
  BY <1>1, ExecutionsHeld, FinitelyManyReplays, ReferencesExist, PTL

-----------------------------------------------------------------------------
(* QueuedIsInHand *)

\* In single file, with the rules left as they are and nothing cut off.
InPeace == InOrder /\ Interruptions = 0 /\ Calm({"queueFault"})

LEMMA PeaceBefore ==
    ASSUME TypeInv, [Next]_vars, InPeace'
    PROVE  /\ InPeace /\ InOrder /\ Single /\ Calm({"crash", "lockLost"})
           /\ ~Crash
           /\ \A j \in DOMAIN jobs : ~LoseNotice(j) /\ ~ListenerFault(j)
           /\ \A p \in Replays : ~ReplayFault(p)
<1>1. /\ mishaps \in [Mishaps -> Nat] /\ mishaps' \in [Mishaps -> Nat]
      /\ {"crash", "dbFault", "lockLost", "noticeLost", "queueFault"} \subseteq Mishaps
      /\ \A m \in Mishaps : mishaps'[m] >= mishaps[m]
  BY NextTypes, MishapsCount DEF TypeInv, TypeOK, StoreTypeOK, Mishaps
<1>2. \A m \in {"crash", "dbFault", "lockLost", "noticeLost", "queueFault"} :
         mishaps[m] \in Nat /\ mishaps'[m] \in Nat /\ mishaps'[m] >= mishaps[m]
  BY <1>1
<1>3. /\ mishaps'["crash"] + mishaps'["dbFault"] + mishaps'["lockLost"]
            + mishaps'["noticeLost"] = 0
      /\ mishaps'["queueFault"] = 0
  BY DEF InPeace, Interruptions, Calm
<1>4. /\ mishaps'["crash"] = 0 /\ mishaps'["dbFault"] = 0 /\ mishaps'["lockLost"] = 0
      /\ mishaps'["noticeLost"] = 0
  <2>1. /\ mishaps'["crash"] \in Nat /\ mishaps'["dbFault"] \in Nat
        /\ mishaps'["lockLost"] \in Nat /\ mishaps'["noticeLost"] \in Nat
    BY <1>2
  <2>2. \A a, b, c, d \in Nat : a + b + c + d = 0 => a = 0 /\ b = 0 /\ c = 0 /\ d = 0
    OBVIOUS
  <2> QED
    BY <1>3, <2>1, <2>2
<1>5. /\ mishaps["crash"] = 0 /\ mishaps["dbFault"] = 0 /\ mishaps["lockLost"] = 0
      /\ mishaps["noticeLost"] = 0 /\ mishaps["queueFault"] = 0
  BY <1>2, <1>3, <1>4
<1>6. Interruptions = 0 /\ Calm({"crash", "lockLost"}) /\ Calm({"queueFault"})
  BY <1>5 DEF Interruptions, Calm
<1>7. ASSUME NEW m \in Mishaps, Suffer(m)
      PROVE  mishaps'[m] # 0
  BY <1>1, <1>7 DEF Suffer
<1>8. ~Suffer("crash") /\ ~Suffer("dbFault") /\ ~Suffer("noticeLost") /\ ~Suffer("queueFault")
  BY <1>1, <1>3, <1>4, <1>7
<1> QED
  BY <1>6, <1>8, InOrderBefore
     DEF InPeace, InOrder, Crash, LoseNotice, ListenerFault, ReplayFault

\* The parts of QueuedHeldInv.
LEMMA QueuedParts ==
    QueuedHeldInv <=> (InPeace =>
        /\ ActiveReplays = {} =>
              \A x \in DOMAIN executions :
                 /\ executions[x].status # "queued"
                 /\ executions[x].status = "failed" => events[executions[x].event] # "completed"
        /\ \A p \in Replays : Replaying(p) => events[ReplayedEvent(p)] # "completed"
        /\ \A w \in Workers : Listed("queued", w) /\ NoneAtEnd("queued", w)
        /\ \A e \in Events : events[e] = "completed" => OnlyWith("queued", e, {})
        /\ \A x \in DOMAIN executions : executions[x].status = "queued" => QueuedHeld(x))
<1>1. InPeace <=> Single /\ Interruptions = 0 /\ Calm({"ruleEdit", "queueFault"})
  BY DEF InPeace, InOrder, Calm
<1> QED
  BY <1>1 DEF QueuedHeldInv

\* An execution is set to queued by a replay.
LEMMA Requeuings ==
    ASSUME TypeInv, [Next]_vars, NEW x \in DOMAIN executions', executions'[x].status = "queued",
           ~(x \in DOMAIN executions /\ executions[x].status = "queued")
    PROVE  /\ x \in DOMAIN executions
           /\ \E p \in Replays : /\ ResetExecution(p) /\ replay[p].exec = x /\ Replaying(p)
                                 /\ p \in ActiveReplays
<1>1. x \in DOMAIN executions
  BY NewExecutions
<1>2. PICK p \in Replays : ResetExecution(p) /\ replay[p].exec = x
  BY <1>1, StatusMoves
<1> QED
  BY <1>1, <1>2 DEF ResetExecution, Replaying, ActiveReplays

LEMMA QueuedKept ==
    ASSUME TypeInv, [Next]_vars, NEW e \in Events, NEW left, OnlyWith("queued", e, left),
           ~\E p \in Replays : Replaying(p) /\ ReplayedEvent(p) = e
    PROVE  OnlyWith("queued", e, left)'
<1> SUFFICES ASSUME NEW x \in DOMAIN executions', executions'[x].event = e,
                    executions'[x].status = "queued"
             PROVE  executions'[x].rule \in {RuleId[r] : r \in left}
  BY DEF OnlyWith
<1>1. CASE x \in DOMAIN executions /\ executions[x].status = "queued"
  BY <1>1, NextGrows DEF ExecutionsGrow, OnlyWith
<1>2. CASE ~(x \in DOMAIN executions /\ executions[x].status = "queued")
  BY <1>2, Requeuings, NextGrows DEF ExecutionsGrow, ReplayedEvent
<1> QED
  BY <1>1, <1>2

\* No call is at work on an event that is being replayed.
LEMMA NoCallReplayed ==
    ASSUME TypeInv, SingleFileInv, Single, NEW w \in Workers, AtWork(w),
           NEW p \in Replays, Replaying(p)
    PROVE  ReplayedEvent(p) # EventAt(w)
<1>1. p \in ActiveReplays /\ replay[p].exec \in DOMAIN executions
  BY DEF Replaying, ActiveReplays, TypeInv, ReplayRefs
<1> QED
  BY <1>1, ReplayIsOver DEF ReplaysEvent, ReplayedEvent

\* What the calls of an event know of its queued executions stays so: a replay
\* queues none while they are at work, nor once the event is completed.
LEMMA QueuedStep ==
    ASSUME TypeInv, SingleFileInv, MatchInv, AcknowledgedInv, RulesKept, QueuedHeldInv,
           InPeace, [Next]_vars
    PROVE  /\ \A w \in Workers : Listed("queued", w)' /\ NoneAtEnd("queued", w)'
           /\ \A e \in Events : events'[e] = "completed" => OnlyWith("queued", e, {})'
<1>0. /\ Single /\ InOrder
      /\ \A w \in Workers : Listed("queued", w) /\ NoneAtEnd("queued", w)
  BY QueuedParts DEF InPeace, InOrder
<1>1. ASSUME NEW e \in Events, events[e] = "completed"
      PROVE  OnlyWith("queued", e, {})'
  BY <1>1, QueuedParts, QueuedKept
<1>2. \A e \in Events : events'[e] = "completed" => OnlyWith("queued", e, {})'
  BY <1>0, <1>1, NoneCompleted
<1>3. ASSUME NEW w \in Workers, NEW e \in Events, frame[w].pc = "done", EventAt(w) = e
      PROVE  OnlyWith("queued", e, {})'
  <2>1. OnlyWith("queued", e, {}) /\ AtWork(w)
    BY <1>0, <1>3 DEF NoneAtEnd, AtWork
  <2> QED
    BY <1>0, <1>3, <2>1, NoCallReplayed, QueuedKept
<1>4. ASSUME NEW w \in Workers, NEW e \in Events, NEW left \in SUBSET Rules,
             frame[w].pc \in InRule \cup {"loop"}, e = EventAt(w), left = frame[w].todo
      PROVE  OnlyWith("queued", e, left)'
  <2>1. OnlyWith("queued", e, left) /\ AtWork(w)
    BY <1>0, <1>4 DEF Listed, AtWork, InRule
  <2> QED
    BY <1>0, <1>4, <2>1, NoCallReplayed, QueuedKept
<1>5. \A w \in Workers : Listed("queued", w)'
  BY <1>0, <1>4, ListedStep
<1>6. \A w \in Workers : NoneAtEnd("queued", w)'
  BY <1>2, <1>3, NoneAtEndStep
<1> QED
  BY <1>2, <1>5, <1>6

\* An event with a failed execution is completed only after that is replayed: the
\* job that failed it is spent.  And a replayed event only after its replay.
LEMMA OpenForReplay ==
    ASSUME TypeInv, SingleFileInv, ExecutionHeldInv, QueuedHeldInv, [Next]_vars, InPeace'
    PROVE  /\ ActiveReplays' = {} =>
                 \A x \in DOMAIN executions' :
                    /\ executions'[x].status # "queued"
                    /\ executions'[x].status = "failed" =>
                          events'[executions'[x].event] # "completed"
           /\ \A p \in Replays : Replaying(p)' => events'[ReplayedEvent(p)'] # "completed"
<1>0. /\ InPeace /\ InOrder /\ Single /\ Calm({"crash", "lockLost"})
      /\ AtMostOneReplay' /\ ActiveReplays \subseteq ActiveReplays'
      /\ events \in [Events -> EventStatus]
  BY PeaceBefore, ActiveReplaysStay DEF InPeace, InOrder, Single, TypeInv, TypeOK, StoreTypeOK
<1>1. ASSUME NEW w \in Workers, CompleteEvent(w)
      PROVE  /\ AtWork(w) /\ frame[w].job \in DOMAIN jobs /\ ~Spent(frame[w].job)
             /\ jobs[frame[w].job].event = EventAt(w)
  <2>1. AtWork(w)
    BY <1>1 DEF CompleteEvent, AtWork
  <2> QED
    BY <1>0, <2>1, LiveCall DEF SingleFileInv, Single, EventAt
<1>2. ASSUME ActiveReplays' = {}, NEW x \in DOMAIN executions'
      PROVE  /\ executions'[x].status # "queued"
             /\ executions'[x].status = "failed" => events'[executions'[x].event] # "completed"
  <2>0. ActiveReplays = {}
    BY <1>0, <1>2
  <2>1. executions'[x].status # "queued"
    BY <1>0, <2>0, QueuedParts, Requeuings
  <2>2. ASSUME executions'[x].status = "failed"
        PROVE  events'[executions'[x].event] # "completed"
    <3>0. /\ x \in DOMAIN executions /\ executions'[x].event = executions[x].event
          /\ executions[x].event \in Events
      BY <2>2, NewExecutions, NextGrows, Indices DEF ExecutionsGrow
    <3>1. PICK e \in Events : e = executions[x].event
      BY <3>0
    <3>2. CASE executions[x].status = "failed"
      <4>1. events[e] # "completed"
        BY <1>0, <2>0, <3>0, <3>1, <3>2, QueuedParts
      <4>2. ASSUME NEW w \in Workers, CompleteEvent(w), EventAt(w) = e
            PROVE  FALSE
        BY <1>0, <1>1, <2>0, <3>0, <3>1, <3>2, <4>2 DEF SingleFileInv, SpentInv
      <4> QED
        BY <3>0, <3>1, <4>1, <4>2, EventCompletions
    <3>3. CASE executions[x].status # "failed"
      <4>1. ASSUME NEW w \in Workers, MarkExecution(w), EventAt(w) = e
            PROVE  events'[e] # "completed"
        BY <1>0, <4>1, HeldParts DEF MarkExecution, EventOpen, Working, InRule
      <4>2. ASSUME NEW j \in DOMAIN jobs, FailExecutions(j),
                   executions[x].status \in {"queued", "processing"}
            PROVE  events'[e] # "completed"
        <5>1. events' = events /\ executions[x].status = "processing"
          BY <1>0, <2>0, <3>0, <4>2, QueuedParts DEF FailExecutions
        <5> QED
          BY <1>0, <3>0, <3>1, <5>1, HeldParts DEF OnlyWith
      <4> QED
        BY <2>2, <3>0, <3>1, <3>3, <4>1, <4>2, StatusMoves
    <3> QED
      BY <3>2, <3>3
  <2> QED
    BY <2>1, <2>2
<1>3. ASSUME NEW p \in Replays, Replaying(p)'
      PROVE  events'[ReplayedEvent(p)'] # "completed"
  <2>1. CASE Replaying(p)
    <3>1. /\ replay'[p].exec = replay[p].exec /\ replay[p].exec \in DOMAIN executions
          /\ executions[replay[p].exec].event \in Events
          /\ executions'[replay[p].exec].event = executions[replay[p].exec].event
      <4>1. p \in ActiveReplays /\ replay[p].exec \in DOMAIN executions
        BY <2>1 DEF Replaying, ActiveReplays, TypeInv, ReplayRefs
      <4> QED
        BY <4>1, ReplaysGoOn, NextGrows, Indices DEF ExecutionsGrow
    <3>2. PICK e \in Events : e = ReplayedEvent(p) /\ e = ReplayedEvent(p)'
      BY <3>1 DEF ReplayedEvent
    <3>3. events[e] # "completed"
      BY <1>0, <2>1, <3>2, QueuedParts
    <3>4. ASSUME NEW w \in Workers, CompleteEvent(w), EventAt(w) = e
          PROVE  FALSE
      BY <1>0, <1>1, <2>1, <3>2, <3>4, NoCallReplayed
    <3> QED
      BY <3>2, <3>3, <3>4, EventCompletions
  <2>2. CASE ~Replaying(p)
    <3>1. PICK x \in DOMAIN executions :
             /\ p \notin ActiveReplays /\ replay'[p].exec = x
             /\ executions[x].status = "failed"
             /\ UNCHANGED <<executions, frame>>
      <4>1. replay'[p] # replay[p] /\ replay'[p].pc \in {"checked", "logged", "reset"}
        BY <1>3, <2>2 DEF Replaying
      <4> QED
        BY <2>2, <4>1, ReplayMoves
    <3>2. ActiveReplays = {}
      <4>1. p \in ActiveReplays'
        BY <1>3 DEF Replaying, ActiveReplays
      <4> QED
        BY <1>0, <3>1, <4>1 DEF AtMostOneReplay
    <3>3. PICK e \in Events : e = executions[x].event /\ e = ReplayedEvent(p)'
      BY <3>1, Indices DEF ReplayedEvent
    <3>4. events[e] # "completed"
      BY <1>0, <3>1, <3>2, <3>3, QueuedParts
    <3>5. ASSUME NEW w \in Workers, CompleteEvent(w)
          PROVE  FALSE
      <4>1. frame[w].pc = "loop" /\ frame'[w].pc = "done"
        BY <3>5, CallSteps
      <4> QED
        BY <3>1, <4>1
    <3> QED
      BY <3>3, <3>4, <3>5, EventCompletions
  <2> QED
    BY <2>1, <2>2
<1> QED
  BY <1>2, <1>3

\* A replay that has reset its execution goes on to Queue.add.
LEMMA ResetMoves ==
    ASSUME TypeInv, [Next]_vars, NEW p \in Replays, replay[p].pc = "reset"
    PROVE  replay'[p] = replay[p] \/ Requeue(p) \/ ReplayFault(p) \/ Crash
<1>0. replay \in [Replays -> [pc: ReplayPc, exec: Nat]]
  BY DEF TypeInv, TypeOK, ReplayTypeOK
<1>1. CASE Replay
  BY <1>0, <1>1 DEF Replay, ReplayNext, CheckFailed, SaveHistory, RefuseReason, ResetExecution,
     Requeue, ReplayFault, Advance
<1>2. CASE ~Replay /\ ~Crash
  BY <1>2 DEF Next, Ingest, Work, Listen, Administer, Manage, replayVars, vars
<1> QED
  BY <1>1, <1>2

\* A queued execution has its replay at Queue.add, then a job that is not over.
LEMMA QueuedHeldStep ==
    ASSUME TypeInv, QueuedHeldInv, [Next]_vars, InPeace',
           NEW x \in DOMAIN executions', executions'[x].status = "queued"
    PROVE  QueuedHeld(x)'
<1>0. /\ InPeace /\ ~Crash /\ \A p \in Replays : ~ReplayFault(p)
      /\ \A j \in DOMAIN jobs : ~LoseNotice(j) /\ ~ListenerFault(j)
      /\ \A w \in Workers : NoneAtEnd("queued", w)
      /\ \A j \in DOMAIN jobs : j \in DOMAIN jobs' /\ jobs'[j].event = jobs[j].event
      /\ replay \in [Replays -> [pc: ReplayPc, exec: Nat]] /\ jobs \in Seq(Job)
  BY PeaceBefore, QueuedParts, NextGrows
     DEF JobsGrow, TypeInv, TypeOK, ReplayTypeOK, StoreTypeOK
<1>1. CASE ~(x \in DOMAIN executions /\ executions[x].status = "queued")
  <2>1. PICK p \in Replays : ResetExecution(p) /\ replay[p].exec = x
    BY <1>1, Requeuings
  <2>2. replay'[p].pc = "reset" /\ replay'[p].exec = x
    BY <1>0, <2>1 DEF ResetExecution, Advance
  <2> QED
    BY <2>2 DEF QueuedHeld
<1>2. CASE x \in DOMAIN executions /\ executions[x].status = "queued"
  <2>0. QueuedHeld(x) /\ executions'[x].event = executions[x].event
    BY <1>0, <1>2, QueuedParts, NextGrows DEF ExecutionsGrow
  <2>1. ASSUME NEW p \in Replays, replay[p].pc = "reset", replay[p].exec = x
        PROVE  QueuedHeld(x)'
    <3>1. CASE replay'[p] = replay[p]
      BY <2>1, <3>1 DEF QueuedHeld
    <3>2. CASE Requeue(p)
      <4>1. /\ Len(jobs) + 1 \in DOMAIN jobs'
            /\ jobs'[Len(jobs) + 1].event = executions[x].event
            /\ jobs'[Len(jobs) + 1].state = "waiting"
        BY <1>0, <2>1, <3>2, AppendProperties DEF Requeue, AddJob, ReplayedEvent
      <4> QED
        BY <2>0, <4>1 DEF QueuedHeld
    <3> QED
      BY <1>0, <2>1, <3>1, <3>2, ResetMoves
  <2>2. ASSUME NEW j \in DOMAIN jobs, jobs[j].event = executions[x].event,
               jobs[j].state \in {"waiting", "active"} \/ j \in failedStream \cup recovering
        PROVE  QueuedHeld(x)'
    <3>1. jobs'[j].state \in {"waiting", "active"} \/ j \in failedStream' \cup recovering'
      BY <1>0, <1>2, <2>2, StandInKept
    <3> QED
      BY <1>0, <2>0, <2>2, <3>1 DEF QueuedHeld
  <2> QED
    BY <2>0, <2>1, <2>2 DEF QueuedHeld
<1> QED
  BY <1>1, <1>2

\* What a replay has queued is not left behind: its job is run, or reported as
\* failed, while nothing is cut off.
THEOREM ReplayedStaysInHand == Spec => []QueuedIsInHand
<1>1. Init => RulesKept /\ QueuedHeldInv
  <2> SUFFICES ASSUME Init
               PROVE  RulesKept /\ QueuedHeldInv
    OBVIOUS
  <2>1. /\ executions = <<>>
        /\ \A w \in Workers : frame[w].pc = "idle"
        /\ \A p \in Replays : replay[p].pc = "idle"
    BY DEF Init, StoreInit, ProcessorInit, IdleFrame, ReplayInit
  <2> QED
    BY <2>1, RulesKeptAtFirst DEF QueuedHeldInv, Listed, NoneAtEnd, OnlyWith, InRule, Replaying
<1>2. /\ TypeInv /\ SingleFileInv /\ MatchInv /\ AcknowledgedInv /\ RulesKept
      /\ ExecutionHeldInv /\ QueuedHeldInv /\ [Next]_vars
      => QueuedHeldInv'
  <2> SUFFICES ASSUME TypeInv, SingleFileInv, MatchInv, AcknowledgedInv, RulesKept,
                      ExecutionHeldInv, QueuedHeldInv, [Next]_vars, InPeace'
               PROVE  /\ ActiveReplays' = {} =>
                            \A x \in DOMAIN executions' :
                               /\ executions'[x].status # "queued"
                               /\ executions'[x].status = "failed" =>
                                     events'[executions'[x].event] # "completed"
                      /\ \A p \in Replays :
                            Replaying(p)' => events'[ReplayedEvent(p)'] # "completed"
                      /\ \A w \in Workers : Listed("queued", w)' /\ NoneAtEnd("queued", w)'
                      /\ \A e \in Events : events'[e] = "completed" => OnlyWith("queued", e, {})'
                      /\ \A x \in DOMAIN executions' :
                            executions'[x].status = "queued" => QueuedHeld(x)'
    BY DEF QueuedHeldInv, InPeace, InOrder, Calm
  <2> QED
    BY PeaceBefore, OpenForReplay, QueuedStep, QueuedHeldStep
<1>3. TypeInv /\ QueuedHeldInv /\ IsFiniteSet(ActiveReplays) => QueuedIsInHand
  <2> SUFFICES ASSUME TypeInv, QueuedHeldInv, IsFiniteSet(ActiveReplays), Interruptions = 0,
                      SingleFile, Calm({"ruleEdit", "queueFault"}),
                      NEW x \in DOMAIN executions, executions[x].status = "queued"
               PROVE  \/ InHand(executions[x].event, failedStream \cup recovering)
                      \/ \E p \in Replays : replay[p].pc = "reset" /\ replay[p].exec = x
    BY DEF QueuedIsInHand
  <2>1. QueuedHeld(x)
    BY SingleFileIsSingle DEF QueuedHeldInv
  <2> QED
    BY <2>1 DEF QueuedHeld, InHand
<1> QED
  BY <1>1, <1>2, <1>3, RulesKeptStep, SingleFileHolds, MatchHolds, AcknowledgedHolds,
     ExecutionsHeld, FinitelyManyReplays, ReferencesExist, PTL DEF Spec

=============================================================================
