------------------------- MODULE WebhookEngineProofs -------------------------
(***************************************************************************)
(* Type correctness of WebhookEngine: TypeInv, which adds to TypeOK what   *)
(* calls and replays refer to, is inductive.  The lemmas follow Next, one  *)
(* per component and inside it one step per action.  Then the lemmas the   *)
(* other proofs keep needing: who writes what, and what only grows.        *)
(***************************************************************************)
EXTENDS EngineInvariants, EngineStoreProofs

\* Nothing about the collections grows when they are left alone.
LEMMA Unchanged ==
    /\ executions' = executions => ExecutionsGrow
    /\ jobs' = jobs => JobsGrow /\ JobsMove
    /\ JobsMove => JobsGrow
BY DEF ExecutionsGrow, JobsGrow, JobsMove

\* An index of the executions or of the jobs is a positive number.
LEMMA Indices ==
    ASSUME TypeInv
    PROVE  /\ \A x \in DOMAIN executions : x \in Nat \ {0} /\ executions[x] \in Execution
           /\ \A j \in DOMAIN jobs : j \in Nat \ {0} /\ jobs[j] \in Job
           /\ \A x \in DOMAIN executions : executions[x].event \in Events
           /\ \A j \in DOMAIN jobs : jobs[j].event \in Events
<1>1. executions \in Seq(Execution) /\ jobs \in Seq(Job)
  BY DEF TypeInv, TypeOK, StoreTypeOK
<1>2. /\ \A x \in DOMAIN executions : x \in Nat \ {0} /\ executions[x] \in Execution
      /\ \A j \in DOMAIN jobs : j \in Nat \ {0} /\ jobs[j] \in Job
  BY <1>1, LenProperties, ElementOfSeq
<1> QED
  BY <1>2 DEF Execution, Job

\* A slot that does not move keeps its references while the collections grow.
LEMMA RefsKept ==
    ASSUME TypeInv, ExecutionsGrow, JobsGrow, NEW w \in Workers, frame'[w] = frame[w]
    PROVE  SlotRefs(w)'
BY DEF TypeInv, SlotRefs, ExecutionsGrow, JobsGrow, EventAt, InActions

\* So does a replay that does not move.
LEMMA ReplayRefsKept ==
    ASSUME TypeInv, ExecutionsGrow, NEW p \in Replays, replay'[p] = replay[p]
    PROVE  ReplayRefs(p)'
BY DEF TypeInv, ReplayRefs, Replaying, ExecutionsGrow

\* A step of one slot: the others, the requests and the replays are as before.
LEMMA SlotStep ==
    ASSUME TypeInv, NEW w \in Workers, NEW f \in Frame,
           frame' = [frame EXCEPT ![w] = f],
           SlotRefs(w)', StoreTypeOK', performed' \in [Sites -> Nat],
           ExecutionsGrow, JobsGrow,
           UNCHANGED <<ingestionVars, replayVars, listenerVars>>
    PROVE  TypeInv'
<1>1. frame' \in [Workers -> Frame] /\ \A v \in Workers : v # w => frame'[v] = frame[v]
  BY DEF TypeInv, TypeOK, ProcessorTypeOK
<1>2. \A v \in Workers : SlotRefs(v)'
  BY <1>1, RefsKept
<1>3. \A p \in Replays : ReplayRefs(p)'
  BY ReplayRefsKept DEF replayVars
<1>4. IngestionTypeOK' /\ ReplayTypeOK' /\ ListenerTypeOK'
  BY DEF TypeInv, TypeOK, IngestionTypeOK, ReplayTypeOK, ListenerTypeOK,
         ingestionVars, replayVars, listenerVars, JobsGrow
<1> QED
  BY <1>1, <1>2, <1>3, <1>4 DEF TypeInv, TypeOK, ProcessorTypeOK

\* A step of one slot that writes nothing but its own frame.
LEMMA LocalSlotStep ==
    ASSUME TypeInv, NEW w \in Workers, NEW f \in Frame,
           frame' = [frame EXCEPT ![w] = f], SlotRefs(w)',
           UNCHANGED <<storeVars, performed, ingestionVars, replayVars, listenerVars>>
    PROVE  TypeInv'
<1>1. StoreTypeOK' /\ performed' \in [Sites -> Nat]
  BY DEF TypeInv, TypeOK, StoreTypeOK, ProcessorTypeOK, storeVars
<1>2. ExecutionsGrow /\ JobsGrow
  BY Unchanged DEF storeVars
<1> QED
  BY <1>1, <1>2, SlotStep

-----------------------------------------------------------------------------
\* The initial states.
LEMMA InitTypes == Init => TypeInv
<1> SUFFICES ASSUME Init
             PROVE  TypeInv
  OBVIOUS
<1> USE DEF Init
<1>1. StoreTypeOK
  BY EmptySeq, StoreAssumption DEF StoreInit, RuleCollections, StoreTypeOK, EventStatus, Mishaps
<1>2. IngestionTypeOK
  BY DEF IngestionInit, IngestionTypeOK, RequestState
<1>3. ProcessorTypeOK
  BY DEF ProcessorInit, ProcessorTypeOK, IdleFrame, Frame, ProcessorPc, ErrorKind
<1>4. ReplayTypeOK /\ ListenerTypeOK
  BY DEF ReplayInit, ReplayTypeOK, ReplayPc, ListenerInit, ListenerTypeOK
<1>5. \A w \in Workers : SlotRefs(w)
  BY DEF ProcessorInit, SlotRefs, IdleFrame, InRule, InActions
<1>6. \A p \in Replays : ReplayRefs(p)
  BY DEF ReplayInit, ReplayRefs, Replaying
<1> QED
  BY <1>1, <1>2, <1>3, <1>4, <1>5, <1>6 DEF TypeInv, TypeOK

-----------------------------------------------------------------------------
\* What the calls assume of a busy slot: its frame, its job and its event.
LEMMA SlotFacts ==
    ASSUME TypeInv, NEW w \in Workers
    PROVE  /\ frame[w] \in Frame
           /\ frame[w].pc # "idle" => frame[w].job \in DOMAIN jobs /\ EventAt(w) \in Events
           /\ SlotRefs(w)
BY Indices DEF TypeInv, TypeOK, ProcessorTypeOK, SlotRefs, EventAt

\* Steps of a call that change nothing but its frame.
LEMMA LocalSteps ==
    ASSUME TypeInv, NEW w \in Workers,
           \/ SkipEvent(w) \/ CheckTenant(w) \/ LoadRules(w)
           \/ \E r \in Rules : FindExecution(w, r)
           \/ SkipAction(w)
           \/ \E err \in {"retryable", "permanent"} : FailAction(w, err)
           \/ LogFailure(w),
           UNCHANGED <<ingestionVars, replayVars, listenerVars>>
    PROVE  TypeInv'
<1> USE SlotFacts
<1>0. frame \in [Workers -> Frame]
  BY DEF TypeInv, TypeOK, ProcessorTypeOK
<1> SUFFICES ASSUME UNCHANGED <<storeVars, performed>>
             PROVE  \E f \in Frame : frame' = [frame EXCEPT ![w] = f] /\ SlotRefs(w)'
  BY LocalSlotStep DEF SkipEvent, CheckTenant, LoadRules, FindExecution, SkipAction,
                       FailAction, LogFailure
<1>1. CASE SkipEvent(w)
  <2> DEFINE f == [frame[w] EXCEPT !.pc = "done"]
  <2>1. f \in Frame /\ frame' = [frame EXCEPT ![w] = f]
    BY <1>0, <1>1 DEF SkipEvent, Goto, Frame, ProcessorPc
  <2>2. SlotRefs(w)'
    BY <1>0, <1>1 DEF SkipEvent, Goto, SlotRefs, InRule, InActions, Frame, storeVars
  <2> QED
    BY <2>1, <2>2
<1>2. CASE CheckTenant(w)
  <2> DEFINE f == IF tenantActive THEN [frame[w] EXCEPT !.pc = "rules"]
                  ELSE [frame[w] EXCEPT !.pc = "revert", !.err = "permanent"]
  <2>1. f \in Frame /\ frame' = [frame EXCEPT ![w] = f]
    BY <1>0, <1>2 DEF CheckTenant, Goto, Throw, Frame, ProcessorPc, ErrorKind
  <2>2. SlotRefs(w)'
    BY <1>0, <1>2 DEF CheckTenant, Goto, Throw, SlotRefs, InRule, InActions, Frame, storeVars
  <2> QED
    BY <2>1, <2>2
<1>3. CASE LoadRules(w)
  <2> DEFINE f == [frame[w] EXCEPT !.pc = "loop", !.todo = Matches[EventAt(w)] \cap activeRules]
  <2>1. Matches[EventAt(w)] \cap activeRules \in SUBSET Rules
    BY DEF TypeInv, TypeOK, StoreTypeOK
  <2>2. f \in Frame /\ frame' = [frame EXCEPT ![w] = f]
    BY <1>0, <1>3, <2>1 DEF LoadRules, FilterMatchingRules, Frame, ProcessorPc
  <2>3. SlotRefs(w)'
    BY <1>0, <1>3 DEF LoadRules, SlotRefs, InRule, InActions, Frame, storeVars
  <2> QED
    BY <2>2, <2>3
<1>4. ASSUME NEW r \in Rules, FindExecution(w, r)
      PROVE  \E f \in Frame : frame' = [frame EXCEPT ![w] = f] /\ SlotRefs(w)'
  <2>1. frame[w].pc = "loop" /\ frame[w].exec = 0
    BY <1>4 DEF FindExecution, SlotRefs
  <2>2. CASE frame' = [frame EXCEPT ![w].pc = "open", ![w].rule = r]
    <3> DEFINE f == [frame[w] EXCEPT !.pc = "open", !.rule = r]
    <3>1. f \in Frame /\ frame' = [frame EXCEPT ![w] = f]
      BY <1>0, <2>2 DEF Frame, ProcessorPc
    <3>2. SlotRefs(w)'
      BY <1>0, <2>1, <2>2 DEF SlotRefs, InRule, InActions, Frame, storeVars
    <3> QED
      BY <3>1, <3>2
  <2>3. CASE frame' = [frame EXCEPT ![w].todo = @ \ {r}]
    <3> DEFINE f == [frame[w] EXCEPT !.todo = frame[w].todo \ {r}]
    <3>1. f \in Frame /\ frame' = [frame EXCEPT ![w] = f]
      BY <1>0, <2>3 DEF Frame
    <3>2. SlotRefs(w)'
      BY <1>0, <2>1, <2>3 DEF SlotRefs, InRule, InActions, Frame, storeVars
    <3> QED
      BY <3>1, <3>2
  <2>4. ASSUME NEW x \in FindExecutions(EventAt(w), r),
               frame' = [frame EXCEPT ![w].pc = "open", ![w].rule = r, ![w].exec = x]
        PROVE  \E f \in Frame : frame' = [frame EXCEPT ![w] = f] /\ SlotRefs(w)'
    <3> DEFINE f == [frame[w] EXCEPT !.pc = "open", !.rule = r, !.exec = x]
    <3>1. /\ x \in DOMAIN executions /\ x \in Nat
          /\ executions[x].event = EventAt(w) /\ executions[x].rule = RuleId[r]
      BY Indices DEF FindExecutions
    <3>2. f \in Frame /\ frame' = [frame EXCEPT ![w] = f]
      BY <1>0, <2>4, <3>1 DEF Frame, ProcessorPc
    <3>3. SlotRefs(w)'
      BY <1>0, <2>1, <2>4, <3>1 DEF SlotRefs, InRule, InActions, Frame, storeVars, EventAt
    <3> QED
      BY <3>2, <3>3
  <2> QED
    BY <1>4, <2>2, <2>3, <2>4 DEF FindExecution
<1>5. CASE SkipAction(w)
  <2> DEFINE f == [frame[w] EXCEPT !.at = frame[w].at + 1]
  <2>1. f \in Frame /\ frame' = [frame EXCEPT ![w] = f]
    BY <1>0, <1>5 DEF SkipAction, Frame
  <2>2. frame[w].rule \in Rules /\ Len(Orders[frame[w].rule]) \in Nat
    BY <1>5, StoreAssumption, LenProperties DEF SkipAction, SlotRefs, InRule
  <2>3. frame[w].at + 1 \in 1..(Len(Orders[frame[w].rule]) + 1)
    BY <1>5, <2>2 DEF SkipAction, SlotRefs, AtLastAction
  <2>4. SlotRefs(w)'
    BY <1>0, <1>5, <2>3 DEF SkipAction, SlotRefs, InRule, InActions, Frame, storeVars, EventAt
  <2> QED
    BY <2>1, <2>4
<1>6. ASSUME NEW err \in {"retryable", "permanent"}, FailAction(w, err)
      PROVE  \E f \in Frame : frame' = [frame EXCEPT ![w] = f] /\ SlotRefs(w)'
  <2> DEFINE f == [frame[w] EXCEPT !.pc = "logFail", !.err = err]
  <2>1. f \in Frame /\ frame' = [frame EXCEPT ![w] = f]
    BY <1>0, <1>6 DEF FailAction, Throw, Frame, ProcessorPc, ErrorKind
  <2>2. frame[w].rule \in Rules /\ Len(Orders[frame[w].rule]) \in Nat
    BY <1>6, StoreAssumption, LenProperties DEF FailAction, SlotRefs, InRule
  <2>3. frame[w].at \in 1..Len(Orders[frame[w].rule])
    BY <1>6, <2>2 DEF FailAction, SlotRefs, AtLastAction
  <2>4. SlotRefs(w)'
    BY <1>0, <1>6, <2>3 DEF FailAction, Throw, SlotRefs, InRule, InActions, Frame, storeVars, EventAt
  <2> QED
    BY <2>1, <2>4
<1>7. CASE LogFailure(w)
  <2> DEFINE f == [frame[w] EXCEPT !.pc = "mark"]
  <2>1. f \in Frame /\ frame' = [frame EXCEPT ![w] = f]
    BY <1>0, <1>7 DEF LogFailure, Goto, Frame, ProcessorPc
  <2>2. SlotRefs(w)'
    BY <1>0, <1>7 DEF LogFailure, Goto, SlotRefs, InRule, InActions, Frame, storeVars, EventAt
  <2> QED
    BY <2>1, <2>2
<1> QED
  BY <1>1, <1>2, <1>3, <1>4, <1>5, <1>6, <1>7

\* Steps of a call that write its event.
LEMMA EventSteps ==
    ASSUME TypeInv, NEW w \in Workers,
           LockEvent(w) \/ CompleteEvent(w) \/ RevertEvent(w),
           UNCHANGED <<ingestionVars, replayVars, listenerVars>>
    PROVE  TypeInv'
<1> USE SlotFacts
<1>0. frame \in [Workers -> Frame] /\ StoreTypeOK /\ performed \in [Sites -> Nat]
  BY DEF TypeInv, TypeOK, ProcessorTypeOK
<1>1. PICK pc \in {"tenant", "done", "thrown"} :
         /\ frame' = [frame EXCEPT ![w] = [frame[w] EXCEPT !.pc = pc]]
         /\ frame[w].pc # "idle"
         /\ pc = "tenant" => frame[w].pc = "lock"
  BY DEF LockEvent, CompleteEvent, RevertEvent, Goto
<1> DEFINE f == [frame[w] EXCEPT !.pc = pc]
<1>2. f \in Frame
  BY DEF Frame, ProcessorPc
<1>3. SlotRefs(w)'
  <2>1. jobs' = jobs /\ executions' = executions
    BY DEF LockEvent, CompleteEvent, RevertEvent, queueVars
  <2> QED
    BY <1>0, <1>1, <2>1 DEF SlotRefs, InRule, InActions, Frame, EventAt
<1>4. StoreTypeOK'
  BY <1>0 DEF LockEvent, CompleteEvent, RevertEvent, StoreTypeOK, EventStatus,
              adminVars, queueVars
<1>5. ExecutionsGrow /\ JobsGrow /\ performed' = performed
  BY Unchanged DEF LockEvent, CompleteEvent, RevertEvent, queueVars
<1> QED
  BY <1>0, <1>1, <1>2, <1>3, <1>4, <1>5, SlotStep

\* startExecution or the resumption of an execution, then into the actions.
LEMMA OpenSteps ==
    ASSUME TypeInv, NEW w \in Workers, StartNew(w) \/ Resume(w),
           UNCHANGED <<ingestionVars, replayVars, listenerVars>>
    PROVE  TypeInv'
<1> USE SlotFacts
<1>0. /\ frame \in [Workers -> Frame] /\ StoreTypeOK /\ performed \in [Sites -> Nat]
      /\ executions \in Seq(Execution)
      /\ frame[w].pc = "open" /\ frame[w].rule \in Rules
      /\ Len(Orders[frame[w].rule]) \in Nat
  BY StoreAssumption, LenProperties
     DEF TypeInv, TypeOK, StoreTypeOK, ProcessorTypeOK, StartNew, Resume, SlotRefs, InRule
<1>1. PICK x \in Nat, logged \in SUBSET Nat :
         /\ EnterActions(w, x, logged)
         /\ x \in DOMAIN executions'
         /\ executions'[x].event = EventAt(w) /\ executions'[x].rule = RuleId[frame[w].rule]
         /\ frame[w].rule \in executions'[x].ranAs
         /\ executions' \in Seq(Execution) /\ ExecutionsGrow
  <2>1. CASE StartNew(w)
    <3>1. StartExecution(EventAt(w), frame[w].rule, "processing")
      BY <2>1 DEF StartNew
    <3> DEFINE n == Len(executions) + 1
    <3>2. EventAt(w) \in Events /\ "processing" \in ExecutionStatus
      BY <1>0 DEF ExecutionStatus
    <3>3. /\ executions' \in Seq(Execution) /\ ExecutionsGrow
          /\ n \in DOMAIN executions' /\ n \in Nat
          /\ executions'[n] = [event |-> EventAt(w), rule |-> RuleId[frame[w].rule],
                               status |-> "processing", ok |-> {}, ranAs |-> {frame[w].rule}]
      BY <1>0, <3>1, <3>2, StartExecutionEffect
    <3> QED
      BY <2>1, <3>3 DEF StartNew
  <2>2. CASE Resume(w)
    <3> DEFINE x == frame[w].exec
    <3>1. /\ x \in DOMAIN executions /\ x \in Nat
          /\ executions[x].event = EventAt(w) /\ executions[x].rule = RuleId[frame[w].rule]
          /\ executions[x].ok \in SUBSET Nat
      BY <2>2, Indices DEF Resume, SlotRefs, Execution
    <3>2. /\ executions' \in Seq(Execution) /\ ExecutionsGrow
          /\ executions'[x].ranAs = executions[x].ranAs \cup {frame[w].rule}
      BY <1>0, <2>2, <3>1, ResumeExecutionEffect DEF Resume
    <3> QED
      BY <2>2, <3>1, <3>2 DEF Resume, ExecutionsGrow
  <2> QED
    BY <2>1, <2>2
<1>2. PICK pc \in {"mark", "act"}, err \in {"permanent", "none"} :
         frame' = [frame EXCEPT ![w] = [frame[w] EXCEPT !.pc = pc, !.err = err,
                                            !.exec = x, !.logged = logged, !.at = 1]]
  BY <1>1 DEF EnterActions
<1> DEFINE f == [frame[w] EXCEPT !.pc = pc, !.err = err, !.exec = x, !.logged = logged, !.at = 1]
<1>3. f \in Frame
  BY DEF Frame, ProcessorPc, ErrorKind
<1>4. /\ UNCHANGED <<adminVars, events, queueVars, mishaps, performed>>
      /\ JobsGrow
  BY Unchanged DEF StartNew, Resume, queueVars
<1>5. StoreTypeOK'
  BY <1>0, <1>1, <1>4 DEF StoreTypeOK, adminVars, queueVars
<1>6. frame'[w] = f
  BY <1>0, <1>2
<1>7. /\ frame'[w].pc = pc /\ frame'[w].exec = x /\ frame'[w].at = 1
      /\ frame'[w].rule = frame[w].rule /\ frame'[w].job = frame[w].job
  BY <1>6 DEF Frame
<1>8. jobs' = jobs /\ frame[w].job \in DOMAIN jobs
  BY <1>0, <1>4 DEF queueVars
<1>9. 1 \in 1..(Len(Orders[frame[w].rule]) + 1)
  BY <1>0
<1>10. SlotRefs(w)'
  BY <1>0, <1>1, <1>7, <1>8, <1>9 DEF SlotRefs, InRule, InActions, EventAt
<1> QED
  BY <1>0, <1>1, <1>2, <1>3, <1>4, <1>5, <1>10, SlotStep

\* An event, a rule and a position in the rule make a site.
LEMMA SiteOf ==
    ASSUME NEW e \in Events, NEW r \in Rules, NEW k \in 1..Len(Orders[r])
    PROVE  <<e, r, k>> \in Sites
<1> DEFINE of(d, q) == {<<d, q, i>> : i \in 1..Len(Orders[q])}
<1>1. <<e, r, k>> \in of(e, r)
  OBVIOUS
<1>2. of(e, r) \in {of(d, q) : d \in Events, q \in Rules}
  OBVIOUS
<1>3. Sites = UNION {of(d, q) : d \in Events, q \in Rules}
  BY DEF Sites
<1> HIDE DEF of
<1> QED
  BY <1>1, <1>2, <1>3

\* A slot at an action or at its step has that action, with its order and the
\* site where its effect is counted.
LEMMA ActionFacts ==
    ASSUME TypeInv, NEW w \in Workers, frame[w].pc \in {"act", "logOk", "logFail"},
           frame[w].pc = "act" => ~AtLastAction(w)
    PROVE  /\ frame[w].at \in 1..Len(Orders[frame[w].rule])
           /\ OrderAt(w) \in Nat
           /\ <<EventAt(w), frame[w].rule, frame[w].at>> \in Sites
<1>1. /\ frame[w].rule \in Rules /\ Orders[frame[w].rule] \in Seq(Nat)
      /\ Len(Orders[frame[w].rule]) \in Nat /\ EventAt(w) \in Events
  BY SlotFacts, StoreAssumption, LenProperties DEF SlotRefs, InRule
<1>2. frame[w].at \in 1..Len(Orders[frame[w].rule])
  BY <1>1, SlotFacts DEF SlotRefs, AtLastAction
<1>3. OrderAt(w) \in Nat
  BY <1>1, <1>2, ElementOfSeq DEF OrderAt
<1>4. <<EventAt(w), frame[w].rule, frame[w].at>> \in Sites
  BY <1>1, <1>2, SiteOf
<1> QED
  BY <1>2, <1>3, <1>4

\* An action succeeds, and its effect is counted.
LEMMA PerformStep ==
    ASSUME TypeInv, NEW w \in Workers, PerformAction(w),
           UNCHANGED <<ingestionVars, replayVars, listenerVars>>
    PROVE  TypeInv'
<1> USE SlotFacts
<1> DEFINE f == [frame[w] EXCEPT !.pc = "logOk"]
           site == <<EventAt(w), frame[w].rule, frame[w].at>>
<1>0. /\ frame \in [Workers -> Frame] /\ StoreTypeOK /\ performed \in [Sites -> Nat]
      /\ frame[w].pc = "act" /\ ~AtLastAction(w)
  BY DEF TypeInv, TypeOK, ProcessorTypeOK, PerformAction
<1>1. f \in Frame /\ frame' = [frame EXCEPT ![w] = f]
  BY <1>0 DEF PerformAction, Goto, Frame, ProcessorPc
<1>2. performed' = [performed EXCEPT ![site] = performed[site] + 1]
  BY DEF PerformAction
<1>3. site \in Sites /\ frame[w].at \in 1..Len(Orders[frame[w].rule])
  BY <1>0, ActionFacts
<1>4. performed' \in [Sites -> Nat]
  BY <1>0, <1>2, <1>3
<1>5. UNCHANGED storeVars
  BY DEF PerformAction
<1>6. StoreTypeOK'
  BY <1>0, <1>5 DEF StoreTypeOK, storeVars
<1>7. ExecutionsGrow /\ JobsGrow
  BY <1>5, Unchanged DEF storeVars
<1>8. SlotRefs(w)'
  BY <1>0, <1>1, <1>3, <1>5 DEF SlotRefs, InRule, InActions, Frame, EventAt, storeVars
<1> QED
  BY <1>1, <1>4, <1>6, <1>7, <1>8, SlotStep

\* addStep, after a success.
LEMMA LogStep ==
    ASSUME TypeInv, NEW w \in Workers, LogSuccess(w),
           UNCHANGED <<ingestionVars, replayVars, listenerVars>>
    PROVE  TypeInv'
<1> USE SlotFacts
<1> DEFINE f == [frame[w] EXCEPT !.pc = "act", !.at = frame[w].at + 1]
<1>0. /\ frame \in [Workers -> Frame] /\ StoreTypeOK /\ performed \in [Sites -> Nat]
      /\ executions \in Seq(Execution) /\ frame[w].pc = "logOk"
  BY DEF TypeInv, TypeOK, StoreTypeOK, ProcessorTypeOK, LogSuccess
<1>1. f \in Frame /\ frame' = [frame EXCEPT ![w] = f]
  BY <1>0 DEF LogSuccess, Frame, ProcessorPc
<1>2. /\ frame[w].at \in 1..Len(Orders[frame[w].rule]) /\ OrderAt(w) \in Nat
      /\ frame[w].rule \in Rules /\ frame[w].exec \in DOMAIN executions
  BY <1>0, ActionFacts DEF SlotRefs, InRule, InActions
<1>3. Len(Orders[frame[w].rule]) \in Nat
  BY <1>2, StoreAssumption, LenProperties
<1>4. executions' \in Seq(Execution) /\ ExecutionsGrow
  BY <1>0, <1>2, AddSuccessStepEffect DEF LogSuccess
<1>5. UNCHANGED <<adminVars, events, queueVars, mishaps, performed>>
  BY DEF LogSuccess
<1>6. StoreTypeOK'
  BY <1>0, <1>4, <1>5 DEF StoreTypeOK, adminVars, queueVars
<1>7. JobsGrow
  BY <1>5, Unchanged DEF queueVars
<1>8. /\ f.pc = "act" /\ f.at = frame[w].at + 1 /\ f.exec = frame[w].exec
      /\ f.rule = frame[w].rule /\ f.job = frame[w].job /\ frame'[w] = f
  BY <1>0, <1>1 DEF Frame
<1>9. frame[w].at + 1 \in 1..(Len(Orders[frame[w].rule]) + 1)
  BY <1>2, <1>3
<1>10. SlotRefs(w)'
  BY <1>0, <1>4, <1>5, <1>8, <1>9
     DEF SlotRefs, InRule, InActions, EventAt, queueVars, ExecutionsGrow
<1> QED
  BY <1>0, <1>1, <1>4, <1>5, <1>6, <1>7, <1>10, SlotStep

\* An execution is completed, or marked as failed or retrying.
LEMMA CloseSteps ==
    ASSUME TypeInv, NEW w \in Workers, FinishExecution(w) \/ MarkExecution(w),
           UNCHANGED <<ingestionVars, replayVars, listenerVars>>
    PROVE  TypeInv'
<1> USE SlotFacts
<1>0. /\ frame \in [Workers -> Frame] /\ StoreTypeOK /\ performed \in [Sites -> Nat]
      /\ executions \in Seq(Execution)
      /\ frame[w].pc \in {"act", "mark"} /\ frame[w].exec \in DOMAIN executions
  BY DEF TypeInv, TypeOK, StoreTypeOK, ProcessorTypeOK, FinishExecution, MarkExecution,
         SlotRefs, InActions
<1>1. PICK status \in {"completed", "retrying", "failed"} : CompleteExecution(frame[w].exec, status)
  BY DEF FinishExecution, MarkExecution
<1>2. PICK f \in Frame : /\ frame' = [frame EXCEPT ![w] = f]
                         /\ f.job = frame[w].job
                         /\ f.pc = "revert" \/ (f.pc = "loop" /\ f.exec = 0)
  <2>1. CASE FinishExecution(w)
    <3> DEFINE f == [IdleFrame EXCEPT !.pc = "loop", !.job = frame[w].job,
                                      !.todo = frame[w].todo \ {frame[w].rule}]
    <3>1. f \in Frame /\ f.job = frame[w].job /\ f.pc = "loop" /\ f.exec = 0
      BY <1>0 DEF Frame, IdleFrame, ProcessorPc, ErrorKind
    <3>2. frame' = [frame EXCEPT ![w] = f]
      BY <2>1 DEF FinishExecution
    <3> QED
      BY <3>1, <3>2
  <2>2. CASE MarkExecution(w)
    <3> DEFINE d == frame[w].err # "retryable"
               f == [frame[w] EXCEPT !.pc = "revert", !.discarded = d]
    <3>1. frame' = [frame EXCEPT ![w] = f]
      BY <2>2 DEF MarkExecution
    <3>2. d \in BOOLEAN
      OBVIOUS
    <3> HIDE DEF d
    <3>3. f \in Frame /\ f.job = frame[w].job /\ f.pc = "revert"
      BY <1>0, <3>2 DEF Frame, ProcessorPc
    <3> QED
      BY <3>1, <3>3
  <2> QED
    BY <2>1, <2>2
<1>3. executions' \in Seq(Execution) /\ ExecutionsGrow
  <2>1. status \in ExecutionStatus
    BY DEF ExecutionStatus
  <2> QED
    BY <1>0, <1>1, <2>1, CompleteExecutionEffect
<1>4. UNCHANGED <<adminVars, events, queueVars, mishaps, performed>>
  BY DEF FinishExecution, MarkExecution
<1>5. StoreTypeOK'
  BY <1>0, <1>3, <1>4 DEF StoreTypeOK, adminVars, queueVars
<1>6. JobsGrow
  BY <1>4, Unchanged DEF queueVars
<1>7. SlotRefs(w)'
  BY <1>0, <1>2, <1>4 DEF SlotRefs, InRule, InActions, queueVars
<1> QED
  BY <1>0, <1>2, <1>3, <1>4, <1>5, <1>6, <1>7, SlotStep

\* A free slot takes a job, and BullMQ settles the job of a call that is over.
LEMMA QueueSteps ==
    ASSUME TypeInv, NEW w \in Workers,
           Settle(w) \/ \E j \in DOMAIN jobs : PickUp(w, j),
           UNCHANGED <<ingestionVars, replayVars, listenerVars>>
    PROVE  TypeInv'
<1> USE SlotFacts
<1>0. /\ frame \in [Workers -> Frame] /\ StoreTypeOK /\ performed \in [Sites -> Nat]
      /\ jobs \in Seq(Job) /\ failedStream \in SUBSET DOMAIN jobs
  BY DEF TypeInv, TypeOK, StoreTypeOK, ProcessorTypeOK
<1>1. UNCHANGED <<adminVars, events, executions, mishaps, performed>>
  BY DEF Settle, PickUp
<1>2. /\ jobs' \in Seq(Job) /\ JobsMove /\ failedStream' \in SUBSET DOMAIN jobs'
      /\ \E f \in Frame : /\ frame' = [frame EXCEPT ![w] = f]
                          /\ f.exec = 0
                          /\ \/ f.pc = "idle"
                             \/ f.pc = "lock" /\ f.job \in DOMAIN jobs
  <2>1. ASSUME NEW j \in DOMAIN jobs, PickUp(w, j)
        PROVE  <1>2!:
    <3> DEFINE f == [IdleFrame EXCEPT !.pc = "lock", !.job = j]
    <3>1. j \in Nat
      BY Indices
    <3>2. f \in Frame /\ f.exec = 0 /\ f.pc = "lock" /\ f.job = j
      BY <3>1 DEF Frame, IdleFrame, ProcessorPc, ErrorKind
    <3>3. frame' = [frame EXCEPT ![w] = f]
      BY <2>1 DEF PickUp
    <3>4. jobs' \in Seq(Job) /\ JobsMove /\ failedStream' = failedStream
      BY <1>0, <2>1, TakeJobEffect DEF PickUp
    <3> QED
      BY <1>0, <3>2, <3>3, <3>4 DEF JobsMove
  <2>2. CASE Settle(w)
    <3> DEFINE j == frame[w].job
    <3>1. IdleFrame \in Frame /\ IdleFrame.exec = 0 /\ IdleFrame.pc = "idle"
      BY DEF Frame, IdleFrame, ProcessorPc, ErrorKind
    <3>2. frame' = [frame EXCEPT ![w] = IdleFrame]
      BY <2>2 DEF Settle
    <3>3. j \in DOMAIN jobs
      BY <2>2 DEF Settle
    <3>4. CompleteJob(j) \/ FailJob(j, frame[w].discarded) \/ UNCHANGED queueVars
      BY <2>2 DEF Settle
    <3>5. CASE CompleteJob(j)
      BY <1>0, <3>1, <3>2, <3>3, <3>5, CompleteJobEffect DEF JobsMove
    <3>6. CASE FailJob(j, frame[w].discarded)
      BY <1>0, <3>1, <3>2, <3>3, <3>6, FailJobEffect
    <3>7. CASE UNCHANGED queueVars
      BY <1>0, <3>1, <3>2, <3>7, Unchanged DEF queueVars
    <3> QED
      BY <3>4, <3>5, <3>6, <3>7
  <2> QED
    BY <2>1, <2>2
<1>3. PICK f \in Frame : /\ frame' = [frame EXCEPT ![w] = f]
                         /\ f.exec = 0
                         /\ \/ f.pc = "idle"
                            \/ f.pc = "lock" /\ f.job \in DOMAIN jobs
  BY <1>2
<1>4. StoreTypeOK'
  BY <1>0, <1>1, <1>2 DEF StoreTypeOK, adminVars
<1>5. ExecutionsGrow /\ JobsGrow
  BY <1>1, <1>2, Unchanged
<1>6. SlotRefs(w)'
  BY <1>0, <1>2, <1>3 DEF SlotRefs, InRule, InActions, JobsMove
<1> QED
  BY <1>0, <1>1, <1>3, <1>4, <1>5, <1>6, SlotStep

\* A database call rejects.
LEMMA FaultStep ==
    ASSUME TypeInv, NEW w \in Workers, DbFault(w),
           UNCHANGED <<ingestionVars, replayVars, listenerVars>>
    PROVE  TypeInv'
<1> USE SlotFacts
<1>0. /\ frame \in [Workers -> Frame] /\ StoreTypeOK /\ performed \in [Sites -> Nat]
      /\ frame[w].pc # "idle" /\ mishaps \in [Mishaps -> Nat] /\ "dbFault" \in Mishaps
      /\ UNCHANGED <<adminVars, events, executions, queueVars, performed>>
  BY DEF TypeInv, TypeOK, StoreTypeOK, ProcessorTypeOK, DbFault, Mishaps
<1>1. PICK pc \in {"revert", "mark", "logFail", "thrown"} :
         /\ frame' = [frame EXCEPT ![w] = [frame[w] EXCEPT !.pc = pc, !.err = "permanent"]]
         /\ pc = "mark" => frame[w].pc \in {"act", "logFail"}
         /\ pc = "logFail" => frame[w].pc = "logOk"
  <2>1. frame[w].pc \in {"lock", "tenant", "rules", "loop", "open", "act",
                         "logOk", "logFail", "mark", "revert"}
    BY DEF DbFault, ProcessorPc
  <2>2. /\ Handler(w) \in {"revert", "mark", "logFail", "thrown"}
        /\ Handler(w) = "mark" => frame[w].pc \in {"act", "logFail"}
        /\ Handler(w) = "logFail" => frame[w].pc = "logOk"
    BY <2>1 DEF Handler
  <2> QED
    BY <2>2 DEF DbFault, Throw
<1> DEFINE f == [frame[w] EXCEPT !.pc = pc, !.err = "permanent"]
<1>2. f \in Frame
  BY DEF Frame, ProcessorPc, ErrorKind
<1>3. StoreTypeOK'
  BY <1>0 DEF StoreTypeOK, DbFault, Suffer, adminVars, queueVars
<1>4. ExecutionsGrow /\ JobsGrow
  BY <1>0, Unchanged DEF queueVars
<1>5. SlotRefs(w)'
  BY <1>0, <1>1 DEF SlotRefs, InRule, InActions, Frame, EventAt, queueVars
<1> QED
  BY <1>0, <1>1, <1>2, <1>3, <1>4, <1>5, SlotStep

\* The processor.
LEMMA WorkTypes == TypeInv /\ Work => TypeInv'
BY LocalSteps, EventSteps, OpenSteps, PerformStep, LogStep, CloseSteps, QueueSteps,
   FaultStep DEF Work, ProcessorNext, ProcessorStep

-----------------------------------------------------------------------------
\* A step of anything but a slot.
LEMMA OutsideStep ==
    ASSUME TypeInv, UNCHANGED processorVars,
           StoreTypeOK', IngestionTypeOK', ReplayTypeOK', ListenerTypeOK',
           ExecutionsGrow, JobsGrow,
           \A p \in Replays : ReplayRefs(p)'
    PROVE  TypeInv'
<1>1. ProcessorTypeOK'
  BY DEF TypeInv, TypeOK, ProcessorTypeOK, processorVars
<1>2. \A w \in Workers : SlotRefs(w)'
  BY RefsKept DEF processorVars
<1> QED
  BY <1>1, <1>2 DEF TypeInv, TypeOK

\* A mishap is counted and its counters stay numbers.
LEMMA SufferTypes ==
    ASSUME TypeInv, NEW m \in Mishaps, Suffer(m)
    PROVE  mishaps' \in [Mishaps -> Nat]
BY DEF TypeInv, TypeOK, StoreTypeOK, Suffer

\* Ingestion.
LEMMA IngestTypes == TypeInv /\ Ingest => TypeInv'
<1> SUFFICES ASSUME TypeInv, Ingest
             PROVE  TypeInv'
  OBVIOUS
<1>0. /\ StoreTypeOK /\ IngestionTypeOK /\ ReplayTypeOK /\ ListenerTypeOK
      /\ jobs \in Seq(Job) /\ failedStream \in SUBSET DOMAIN jobs
  BY DEF TypeInv, TypeOK, StoreTypeOK
<1>1. PICK q \in Requests :
         \/ Admit(q) \/ Refuse(q) \/ RejectDelivery(q) \/ SaveEvent(q) \/ SaveDuplicate(q)
         \/ ReturnExisting(q) \/ Enqueue(q) \/ EnqueueFault(q) \/ SaveFault(q)
  BY DEF Ingest, IngestionNext
<1>2. /\ UNCHANGED <<processorVars, replayVars, listenerVars>>
      /\ UNCHANGED <<adminVars, executions>>
  BY <1>1 DEF Ingest, Admit, Refuse, RejectDelivery, SaveEvent, SaveDuplicate, ReturnExisting, Enqueue,
              EnqueueFault, SaveFault, storeVars, adminVars
<1>3. IngestionTypeOK'
  BY <1>0, <1>1 DEF IngestionTypeOK, RequestState, Answer, Admit, Refuse, RejectDelivery, SaveEvent,
              SaveDuplicate, ReturnExisting, Enqueue, EnqueueFault, SaveFault
<1>4. jobs' \in Seq(Job) /\ failedStream' \in SUBSET DOMAIN jobs' /\ JobsGrow
  <2>1. AddJob(EventOf[q], "ingest") \/ UNCHANGED queueVars
    BY <1>1 DEF Admit, Refuse, RejectDelivery, SaveEvent, SaveDuplicate, ReturnExisting, Enqueue,
                EnqueueFault, SaveFault, storeVars, queueVars
  <2>2. CASE AddJob(EventOf[q], "ingest")
    BY <1>0, <2>2, IngestionAssumption, AddJobEffect
  <2>3. CASE UNCHANGED queueVars
    BY <1>0, <2>3, Unchanged DEF queueVars
  <2> QED
    BY <2>1, <2>2, <2>3
<1>5. events' \in [Events -> EventStatus]
  BY <1>0, <1>1 DEF StoreTypeOK, EventStatus, Admit, Refuse, RejectDelivery, SaveEvent, SaveDuplicate,
              ReturnExisting, Enqueue, EnqueueFault, SaveFault, storeVars
<1>6. mishaps' \in [Mishaps -> Nat]
  <2>1. Suffer("queueFault") \/ Suffer("dbFault") \/ UNCHANGED mishaps
    BY <1>1 DEF Admit, Refuse, RejectDelivery, SaveEvent, SaveDuplicate, ReturnExisting, Enqueue,
                EnqueueFault, SaveFault, storeVars
  <2>2. "queueFault" \in Mishaps /\ "dbFault" \in Mishaps
    BY DEF Mishaps
  <2> QED
    BY <1>0, <2>1, <2>2, SufferTypes DEF StoreTypeOK
<1>7. StoreTypeOK'
  BY <1>0, <1>2, <1>4, <1>5, <1>6 DEF StoreTypeOK, adminVars
<1>8. ExecutionsGrow
  BY <1>2, Unchanged
<1>9. ReplayTypeOK' /\ ListenerTypeOK' /\ \A p \in Replays : ReplayRefs(p)'
  BY <1>0, <1>2, <1>4, <1>8, ReplayRefsKept
     DEF ReplayTypeOK, ListenerTypeOK, replayVars, listenerVars, JobsGrow
<1> QED
  BY <1>2, <1>3, <1>4, <1>7, <1>8, <1>9, OutsideStep

\* Replay of a failed execution.
LEMMA ReplayTypes == TypeInv /\ Replay => TypeInv'
<1> SUFFICES ASSUME TypeInv, Replay
             PROVE  TypeInv'
  OBVIOUS
<1>0. /\ StoreTypeOK /\ IngestionTypeOK /\ ReplayTypeOK /\ ListenerTypeOK
      /\ jobs \in Seq(Job) /\ failedStream \in SUBSET DOMAIN jobs
      /\ executions \in Seq(Execution)
  BY DEF TypeInv, TypeOK, StoreTypeOK
<1>1. PICK p \in Replays :
         \/ \E x \in DOMAIN executions : CheckFailed(p, x)
         \/ SaveHistory(p) \/ RefuseReason(p) \/ ResetExecution(p) \/ Requeue(p) \/ ReplayFault(p)
  BY DEF Replay, ReplayNext
<1>2. /\ UNCHANGED <<ingestionVars, processorVars, listenerVars>>
      /\ UNCHANGED <<adminVars, events>>
  BY <1>1 DEF Replay, CheckFailed, SaveHistory, RefuseReason, ResetExecution, Requeue,
              ReplayFault, storeVars, adminVars
<1>3. Replaying(p) => replay[p].exec \in DOMAIN executions /\ ReplayedEvent(p) \in Events
  BY Indices DEF TypeInv, ReplayRefs, ReplayedEvent
<1>4. executions' \in Seq(Execution) /\ ExecutionsGrow
  <2>1. CASE ResetExecution(p)
    <3>1. "queued" \in ExecutionStatus /\ replay[p].exec \in DOMAIN executions
      BY <1>3, <2>1 DEF ExecutionStatus, ResetExecution, Replaying
    <3> QED
      BY <1>0, <2>1, <3>1, CompleteExecutionEffect DEF ResetExecution
  <2>2. CASE UNCHANGED executions
    BY <1>0, <2>2, Unchanged
  <2> QED
    BY <1>1, <2>1, <2>2 DEF CheckFailed, SaveHistory, RefuseReason, Requeue, ReplayFault, storeVars
<1>5. jobs' \in Seq(Job) /\ failedStream' \in SUBSET DOMAIN jobs' /\ JobsGrow
  <2>1. \/ AddJob(ReplayedEvent(p), "replay") /\ Replaying(p)
        \/ UNCHANGED queueVars
    BY <1>1 DEF CheckFailed, SaveHistory, RefuseReason, ResetExecution, Requeue, ReplayFault,
                storeVars, queueVars, Replaying
  <2>2. CASE AddJob(ReplayedEvent(p), "replay") /\ Replaying(p)
    BY <1>0, <1>3, <2>2, AddJobEffect
  <2>3. CASE UNCHANGED queueVars
    BY <1>0, <2>3, Unchanged DEF queueVars
  <2> QED
    BY <2>1, <2>2, <2>3
<1>6. mishaps' \in [Mishaps -> Nat]
  <2>1. Suffer("queueFault") \/ Suffer("dbFault") \/ UNCHANGED mishaps
    BY <1>1 DEF CheckFailed, SaveHistory, RefuseReason, ResetExecution, Requeue, ReplayFault, storeVars
  <2>2. "queueFault" \in Mishaps /\ "dbFault" \in Mishaps
    BY DEF Mishaps
  <2> QED
    BY <1>0, <2>1, <2>2, SufferTypes DEF StoreTypeOK
<1>7. StoreTypeOK'
  BY <1>0, <1>2, <1>4, <1>5, <1>6 DEF StoreTypeOK, adminVars
<1>8. ReplayTypeOK' /\ ReplayRefs(p)' /\ \A o \in Replays : o # p => replay'[o] = replay[o]
  <2>1. ASSUME NEW x \in DOMAIN executions, CheckFailed(p, x)
        PROVE  <1>8!:
    <3>1. PICK pc \in {"checked", "rejected"} :
             replay' = [replay EXCEPT ![p] = [pc |-> pc, exec |-> x]]
      BY <2>1 DEF CheckFailed
    <3>2. x \in Nat /\ x \in DOMAIN executions'
      BY <1>4, Indices DEF ExecutionsGrow
    <3> QED
      BY <1>0, <3>1, <3>2 DEF ReplayTypeOK, ReplayPc, ReplayRefs
  <2>2. ASSUME NEW pc \in ReplayPc, Replaying(p), Advance(p, pc)
        PROVE  <1>8!:
    <3>1. replay' = [replay EXCEPT ![p] = [replay[p] EXCEPT !.pc = pc]]
      BY <2>2 DEF Advance
    <3>2. replay'[p].exec \in DOMAIN executions'
      BY <1>0, <1>3, <1>4, <2>2, <3>1 DEF ReplayTypeOK, ExecutionsGrow
    <3> QED
      BY <1>0, <3>1, <3>2 DEF ReplayTypeOK, ReplayRefs
  <2>3. \/ \E x \in DOMAIN executions : CheckFailed(p, x)
        \/ \E pc \in ReplayPc : Replaying(p) /\ Advance(p, pc)
    BY <1>1 DEF SaveHistory, RefuseReason, ResetExecution, Requeue, ReplayFault, ReplayPc, Replaying
  <2> QED
    BY <2>1, <2>2, <2>3
<1>9. \A o \in Replays : ReplayRefs(o)'
  BY <1>4, <1>8, ReplayRefsKept
<1>10. IngestionTypeOK' /\ ListenerTypeOK'
  BY <1>0, <1>2, <1>5 DEF IngestionTypeOK, ListenerTypeOK, ingestionVars, listenerVars, JobsGrow
<1> QED
  BY <1>2, <1>4, <1>5, <1>7, <1>8, <1>9, <1>10, OutsideStep

\* The listener.
LEMMA ListenTypes == TypeInv /\ Listen => TypeInv'
<1> SUFFICES ASSUME TypeInv, Listen
             PROVE  TypeInv'
  OBVIOUS
<1>0. /\ StoreTypeOK /\ IngestionTypeOK /\ ReplayTypeOK /\ ListenerTypeOK
      /\ failedStream \in SUBSET DOMAIN jobs /\ executions \in Seq(Execution)
  BY DEF TypeInv, TypeOK, StoreTypeOK
<1>1. PICK j \in DOMAIN jobs :
         FailEvent(j) \/ FailExecutions(j) \/ LoseNotice(j) \/ ListenerFault(j)
  BY DEF Listen, ListenerNext, ListenerStep
<1>2. UNCHANGED <<ingestionVars, processorVars, replayVars, adminVars, jobs>>
  BY <1>1 DEF Listen, FailEvent, FailExecutions, LoseNotice, ListenerFault, queueVars
<1>3. failedStream' \in SUBSET DOMAIN jobs' /\ recovering' \in SUBSET DOMAIN jobs'
  BY <1>0, <1>1, <1>2 DEF ListenerTypeOK, FailEvent, FailExecutions, LoseNotice,
              ListenerFault, Deliver, queueVars
<1>4. executions' \in Seq(Execution) /\ ExecutionsGrow
  BY <1>0, <1>1, Unchanged, FailActiveExecutionsEffect
     DEF FailEvent, FailExecutions, LoseNotice, ListenerFault
<1>5. events' \in [Events -> EventStatus]
  BY <1>0, <1>1 DEF StoreTypeOK, EventStatus, FailEvent, FailExecutions, LoseNotice, ListenerFault
<1>6. mishaps' \in [Mishaps -> Nat]
  <2>1. Suffer("noticeLost") \/ Suffer("dbFault") \/ UNCHANGED mishaps
    BY <1>1 DEF FailEvent, FailExecutions, LoseNotice, ListenerFault
  <2>2. "noticeLost" \in Mishaps /\ "dbFault" \in Mishaps
    BY DEF Mishaps
  <2> QED
    BY <1>0, <2>1, <2>2, SufferTypes DEF StoreTypeOK
<1>7. StoreTypeOK' /\ ListenerTypeOK'
  BY <1>0, <1>2, <1>3, <1>4, <1>5, <1>6 DEF StoreTypeOK, ListenerTypeOK, adminVars
<1>8. IngestionTypeOK' /\ ReplayTypeOK' /\ \A p \in Replays : ReplayRefs(p)'
  BY <1>0, <1>2, <1>4, ReplayRefsKept
     DEF IngestionTypeOK, ReplayTypeOK, ingestionVars, replayVars
<1> QED
  BY <1>2, <1>4, <1>7, <1>8, Unchanged, OutsideStep

\* Administration.
LEMMA AdministerTypes == TypeInv /\ Administer => TypeInv'
<1> SUFFICES ASSUME TypeInv, Administer
             PROVE  TypeInv'
  OBVIOUS
<1>0. StoreTypeOK /\ IngestionTypeOK /\ ReplayTypeOK /\ ListenerTypeOK
  BY DEF TypeInv, TypeOK
<1>1. /\ UNCHANGED <<ingestionVars, processorVars, replayVars, listenerVars>>
      /\ UNCHANGED <<events, executions, queueVars>>
  BY DEF Administer, SuspendTenant, EditRule
<1>2. tenantActive' \in BOOLEAN /\ activeRules' \in SUBSET Rules
  BY <1>0 DEF StoreTypeOK, Administer, SuspendTenant, EditRule
<1>3. mishaps' \in [Mishaps -> Nat]
  BY SufferTypes DEF Administer, SuspendTenant, EditRule, Mishaps
<1>4. StoreTypeOK'
  BY <1>0, <1>1, <1>2, <1>3 DEF StoreTypeOK, queueVars
<1>5. ExecutionsGrow /\ JobsGrow
  BY <1>1, Unchanged DEF queueVars
<1>6. IngestionTypeOK' /\ ReplayTypeOK' /\ ListenerTypeOK' /\ \A p \in Replays : ReplayRefs(p)'
  BY <1>0, <1>1, <1>5, ReplayRefsKept
     DEF IngestionTypeOK, ReplayTypeOK, ListenerTypeOK, ingestionVars, replayVars,
         listenerVars, queueVars
<1> QED
  BY <1>1, <1>4, <1>5, <1>6, OutsideStep

\* BullMQ's stalled check, and a lock that expires.
LEMMA ManageTypes == TypeInv /\ Manage => TypeInv'
<1> SUFFICES ASSUME TypeInv, Manage
             PROVE  TypeInv'
  OBVIOUS
<1>0. /\ StoreTypeOK /\ IngestionTypeOK /\ ReplayTypeOK /\ ListenerTypeOK
      /\ jobs \in Seq(Job) /\ failedStream \in SUBSET DOMAIN jobs
  BY DEF TypeInv, TypeOK, StoreTypeOK
<1>1. /\ UNCHANGED <<ingestionVars, processorVars, replayVars, listenerVars>>
      /\ UNCHANGED <<adminVars, events, executions>>
  BY DEF Manage, StallJob, LoseLock
<1>2. /\ jobs' \in Seq(Job) /\ JobsMove /\ failedStream' \in SUBSET DOMAIN jobs'
      /\ mishaps' \in [Mishaps -> Nat]
  <2>1. ASSUME NEW j \in DOMAIN jobs, StallJob(j)
        PROVE  <1>2!:
    BY <1>0, <2>1, StallJobEffect DEF StoreTypeOK, StallJob
  <2>2. ASSUME NEW w \in Workers, NEW j \in DOMAIN jobs, LoseLock(w, j)
        PROVE  <1>2!:
    <3>1. /\ jobs' = [jobs EXCEPT ![j] = [jobs[j] EXCEPT !.owner = None]]
          /\ failedStream' = failedStream
      BY <2>2 DEF LoseLock
    <3>2. /\ jobs' = [i \in DOMAIN jobs |-> jobs'[i]]
          /\ \A i \in DOMAIN jobs : jobs'[i] \in {jobs[i], [jobs[i] EXCEPT !.owner = None]}
      BY <3>1
    <3>3. jobs' \in Seq(Job) /\ JobsMove /\ failedStream' \in SUBSET DOMAIN jobs'
      BY <1>0, <3>1, <3>2, DisownEffect
    <3> QED
      BY <2>2, <3>3, SufferTypes DEF LoseLock, Mishaps
  <2> QED
    BY <2>1, <2>2 DEF Manage
<1>3. StoreTypeOK' /\ ExecutionsGrow /\ JobsGrow
  BY <1>0, <1>1, <1>2, Unchanged DEF StoreTypeOK, adminVars
<1>4. IngestionTypeOK' /\ ReplayTypeOK' /\ ListenerTypeOK' /\ \A p \in Replays : ReplayRefs(p)'
  BY <1>0, <1>1, <1>2, <1>3, ReplayRefsKept
     DEF IngestionTypeOK, ReplayTypeOK, ListenerTypeOK, ingestionVars, replayVars,
         listenerVars, JobsMove
<1> QED
  BY <1>1, <1>3, <1>4, OutsideStep

\* A crash: calls, requests and replays are gone; the collections are kept.
LEMMA CrashTypes == TypeInv /\ Crash => TypeInv'
<1> SUFFICES ASSUME TypeInv, Crash
             PROVE  TypeInv'
  OBVIOUS
<1>0. /\ StoreTypeOK /\ IngestionTypeOK /\ ProcessorTypeOK /\ ReplayTypeOK
      /\ jobs \in Seq(Job) /\ failedStream \in SUBSET DOMAIN jobs
  BY DEF TypeInv, TypeOK, StoreTypeOK
<1>1. jobs' \in Seq(Job) /\ failedStream' \in SUBSET DOMAIN jobs'
  <2>1. \A i \in DOMAIN jobs : jobs'[i] \in {jobs[i], [jobs[i] EXCEPT !.owner = None]}
    BY DEF Crash
  <2>2. jobs' = [i \in DOMAIN jobs |-> jobs'[i]] /\ failedStream' \in SUBSET failedStream
    BY DEF Crash
  <2> QED
    BY <1>0, <2>1, <2>2, DisownEffect
<1>2. mishaps' \in [Mishaps -> Nat]
  BY SufferTypes DEF Crash, Mishaps
<1>3. StoreTypeOK'
  BY <1>0, <1>1, <1>2 DEF StoreTypeOK, Crash, adminVars
<1>4. IngestionTypeOK' /\ ListenerTypeOK'
  BY <1>0 DEF IngestionTypeOK, ListenerTypeOK, RequestState, Crash
<1>5. ProcessorTypeOK' /\ \A w \in Workers : SlotRefs(w)'
  BY <1>0 DEF ProcessorTypeOK, Crash, SlotRefs, IdleFrame, InRule, InActions, Frame,
              ProcessorPc, ErrorKind
<1>6. ReplayTypeOK' /\ \A p \in Replays : ReplayRefs(p)'
  <2>1. ASSUME NEW p \in Replays
        PROVE  /\ replay'[p] \in [pc : ReplayPc, exec : Nat]
               /\ replay'[p].pc \notin {"checked", "logged", "reset"}
    <3>1. CASE Replaying(p)
      <4>1. replay'[p] = [replay[p] EXCEPT !.pc = "lost"]
        BY <3>1 DEF Crash
      <4> QED
        BY <1>0, <4>1 DEF ReplayTypeOK, ReplayPc
    <3>2. CASE ~Replaying(p)
      BY <1>0, <3>2 DEF Crash, ReplayTypeOK, Replaying
    <3> QED
      BY <3>1, <3>2
  <2>2. replay' = [p \in Replays |-> replay'[p]]
    BY DEF Crash
  <2> QED
    BY <2>1, <2>2 DEF ReplayTypeOK, ReplayRefs, Replaying
<1> QED
  BY <1>3, <1>4, <1>5, <1>6 DEF TypeInv, TypeOK

\* Every step of the engine.
LEMMA NextTypes == TypeInv /\ [Next]_vars => TypeInv'
<1> SUFFICES ASSUME TypeInv, UNCHANGED vars
             PROVE  TypeInv'
  BY IngestTypes, WorkTypes, ReplayTypes, ListenTypes, AdministerTypes, ManageTypes,
     CrashTypes DEF Next
<1>1. UNCHANGED <<storeVars, ingestionVars, processorVars, replayVars, listenerVars>>
  BY DEF vars
<1>2. /\ StoreTypeOK' /\ IngestionTypeOK' /\ ReplayTypeOK' /\ ListenerTypeOK'
      /\ executions' = executions /\ jobs' = jobs
  BY <1>1 DEF TypeInv, TypeOK, StoreTypeOK, IngestionTypeOK, ReplayTypeOK, ListenerTypeOK,
              storeVars, ingestionVars, replayVars, listenerVars
<1>3. \A p \in Replays : ReplayRefs(p)'
  BY <1>1, <1>2, Unchanged, ReplayRefsKept DEF replayVars
<1> QED
  BY <1>1, <1>2, <1>3, Unchanged, OutsideStep

\* Calls, replays and the listener only ever refer to documents and jobs that
\* exist, and to an action their rule has.
THEOREM ReferencesExist == Spec => []TypeInv
BY InitTypes, NextTypes, PTL DEF Spec

\* Every state is typed: in particular no execution or event gets a status that
\* its schema does not list.
THEOREM TypeCorrect == Spec => []TypeOK
<1>1. TypeInv => TypeOK
  BY DEF TypeInv
<1> QED
  BY <1>1, ReferencesExist, PTL

-----------------------------------------------------------------------------
(* Who writes what *)

\* The steps that write the executions collection.
LEMMA ExecutionWrites ==
    ASSUME [Next]_vars
    PROVE  \/ executions' = executions
           \/ \E w \in Workers : \/ StartNew(w) \/ Resume(w) \/ LogSuccess(w)
                                 \/ FinishExecution(w) \/ MarkExecution(w)
           \/ \E p \in Replays : ResetExecution(p)
           \/ \E j \in DOMAIN jobs : FailExecutions(j)
<1>1. CASE Ingest
  BY <1>1 DEF Ingest, IngestionNext, Admit, Refuse, RejectDelivery, SaveEvent, SaveDuplicate, ReturnExisting,
              Enqueue, EnqueueFault, SaveFault, storeVars
<1>2. CASE Work
  BY <1>2 DEF Work, ProcessorNext, ProcessorStep, PickUp, DbFault, LockEvent, SkipEvent,
              CheckTenant, LoadRules, FindExecution, SkipAction, PerformAction, FailAction,
              LogFailure, CompleteEvent, RevertEvent, Settle, storeVars
<1>3. CASE Replay
  BY <1>3 DEF Replay, ReplayNext, CheckFailed, SaveHistory, RefuseReason, Requeue,
              ReplayFault, storeVars
<1>4. CASE Listen
  BY <1>4 DEF Listen, ListenerNext, ListenerStep, FailEvent, LoseNotice, ListenerFault
<1>5. CASE Administer \/ Manage \/ Crash \/ UNCHANGED vars
  BY <1>5 DEF Administer, SuspendTenant, EditRule, Manage, StallJob, LoseLock, Crash,
              vars, storeVars
<1> QED
  BY <1>1, <1>2, <1>3, <1>4, <1>5 DEF Next

\* The steps that write the queue.
LEMMA JobWrites ==
    ASSUME [Next]_vars
    PROVE  \/ jobs' = jobs
           \/ \E q \in Requests : Enqueue(q) /\ Ingest
           \/ \E q \in Requests : EnqueueFault(q) /\ Ingest /\ AddJob(EventOf[q], "ingest")
           \/ \E p \in Replays : /\ Requeue(p) \/ ReplayFault(p)
                                 /\ Replaying(p) /\ Replay /\ AddJob(ReplayedEvent(p), "replay")
           \/ \E w \in Workers, j \in DOMAIN jobs : PickUp(w, j)
           \/ \E w \in Workers : \/ CompleteJob(frame[w].job) /\ Settle(w)
                                 \/ FailJob(frame[w].job, frame[w].discarded) /\ Settle(w)
           \/ \E j \in DOMAIN jobs : StallJob(j)
           \/ \E w \in Workers, j \in DOMAIN jobs : LoseLock(w, j)
           \/ Crash
<1>1. CASE Ingest
  BY <1>1 DEF Ingest, IngestionNext, Admit, Refuse, RejectDelivery, SaveEvent, SaveDuplicate, ReturnExisting,
              EnqueueFault, SaveFault, storeVars, queueVars
<1>2. CASE Work
  BY <1>2 DEF Work, ProcessorNext, ProcessorStep, DbFault, LockEvent, SkipEvent,
              CheckTenant, LoadRules, FindExecution, StartNew, Resume, SkipAction,
              PerformAction, FailAction, LogSuccess, LogFailure, FinishExecution,
              MarkExecution, CompleteEvent, RevertEvent, Settle, storeVars, queueVars
<1>3. CASE Replay
  BY <1>3 DEF Replay, ReplayNext, CheckFailed, SaveHistory, RefuseReason, ResetExecution,
              Requeue, ReplayFault, Replaying, storeVars, queueVars
<1>4. CASE Listen
  BY <1>4 DEF Listen, ListenerNext, ListenerStep, FailEvent, FailExecutions, LoseNotice,
              ListenerFault, queueVars
<1>5. CASE Administer \/ Manage \/ Crash \/ UNCHANGED vars
  BY <1>5 DEF Administer, SuspendTenant, EditRule, Manage, vars, storeVars, queueVars
<1> QED
  BY <1>1, <1>2, <1>3, <1>4, <1>5 DEF Next

\* A slot moves by a step of its own call, or dies in a crash.
LEMMA SlotMoves ==
    ASSUME TypeInv, [Next]_vars, NEW w \in Workers
    PROVE  \/ frame'[w] = frame[w]
           \/ ProcessorStep(w) \/ DbFault(w) \/ \E j \in DOMAIN jobs : PickUp(w, j)
           \/ Crash
<1>1. frame \in [Workers -> Frame]
  BY DEF TypeInv, TypeOK, ProcessorTypeOK
<1>2. ASSUME NEW v \in Workers, v # w,
             ProcessorStep(v) \/ DbFault(v) \/ \E j \in DOMAIN jobs : PickUp(v, j)
      PROVE  frame'[w] = frame[w]
  BY <1>1, <1>2 DEF ProcessorStep, DbFault, PickUp, LockEvent, SkipEvent, CheckTenant,
         LoadRules, FindExecution, StartNew, Resume, EnterActions, SkipAction, PerformAction,
         FailAction, LogSuccess, LogFailure, FinishExecution, MarkExecution, CompleteEvent,
         RevertEvent, Settle, Goto, Throw
<1>3. CASE Work
  BY <1>2, <1>3 DEF Work, ProcessorNext
<1>4. CASE ~Work
  BY <1>4 DEF Next, Ingest, Replay, Listen, Administer, Manage, processorVars, vars
<1> QED
  BY <1>3, <1>4

\* The only step with an effect outside is PerformAction.
LEMMA PerformedWrites ==
    ASSUME [Next]_vars
    PROVE  performed' = performed \/ \E w \in Workers : PerformAction(w)
<1>1. CASE Work
  BY <1>1 DEF Work, ProcessorNext, ProcessorStep, PickUp, DbFault, LockEvent, SkipEvent,
              CheckTenant, LoadRules, FindExecution, StartNew, Resume, SkipAction,
              FailAction, LogSuccess, LogFailure, FinishExecution, MarkExecution,
              CompleteEvent, RevertEvent, Settle
<1>2. CASE ~Work
  BY <1>2 DEF Next, Ingest, Replay, Listen, Administer, Manage, Crash, processorVars, vars
<1> QED
  BY <1>1, <1>2

-----------------------------------------------------------------------------
(* What only grows *)

\* A request that adds a job adds an ingest job of its event.
LEMMA IngestAdds ==
    ASSUME TypeInv, NEW q \in Requests, AddJob(EventOf[q], "ingest")
    PROVE  /\ JobsGrow
           /\ DOMAIN jobs' = DOMAIN jobs \cup {Len(jobs) + 1}
           /\ jobs'[Len(jobs) + 1].event = EventOf[q]
           /\ jobs'[Len(jobs) + 1].origin = "ingest"
<1>1. /\ EventOf[q] \in Events
      /\ jobs \in Seq(Job) /\ failedStream \in SUBSET DOMAIN jobs
  BY IngestionAssumption DEF TypeInv, TypeOK, StoreTypeOK
<1> QED
  BY <1>1, AddJobEffect

\* A replay adds a replay job.
LEMMA ReplayAdds ==
    ASSUME TypeInv, NEW p \in Replays, Replaying(p), AddJob(ReplayedEvent(p), "replay")
    PROVE  /\ JobsGrow
           /\ DOMAIN jobs' = DOMAIN jobs \cup {Len(jobs) + 1}
           /\ jobs'[Len(jobs) + 1].origin = "replay"
<1>1. ReplayedEvent(p) \in Events
  BY Indices DEF TypeInv, ReplayRefs, ReplayedEvent
<1> QED
  BY <1>1, AddJobEffect DEF TypeInv, TypeOK, StoreTypeOK

\* The other steps of the queue add no job.
LEMMA OtherJobWrites ==
    ASSUME TypeInv,
           \/ \E w \in Workers, j \in DOMAIN jobs : PickUp(w, j)
           \/ \E w \in Workers : \/ CompleteJob(frame[w].job) /\ Settle(w)
                                 \/ FailJob(frame[w].job, frame[w].discarded) /\ Settle(w)
           \/ \E j \in DOMAIN jobs : StallJob(j)
           \/ \E w \in Workers, j \in DOMAIN jobs : LoseLock(w, j)
           \/ Crash
    PROVE  JobsMove
<1>0. jobs \in Seq(Job) /\ failedStream \in SUBSET DOMAIN jobs
  BY DEF TypeInv, TypeOK, StoreTypeOK
<1>1. ASSUME NEW w \in Workers, NEW j \in DOMAIN jobs, PickUp(w, j)
      PROVE  JobsMove
  BY <1>0, <1>1, TakeJobEffect DEF PickUp
<1>2. ASSUME NEW w \in Workers, Settle(w),
             CompleteJob(frame[w].job) \/ FailJob(frame[w].job, frame[w].discarded)
      PROVE  JobsMove
  <2>1. frame[w].job \in DOMAIN jobs
    BY <1>2, SlotFacts DEF Settle
  <2> QED
    BY <1>0, <1>2, <2>1, CompleteJobEffect, FailJobEffect
<1>3. ASSUME NEW j \in DOMAIN jobs, StallJob(j)
      PROVE  JobsMove
  BY <1>0, <1>3, StallJobEffect
<1>4. ASSUME NEW w \in Workers, NEW j \in DOMAIN jobs, LoseLock(w, j)
      PROVE  JobsMove
  <2>1. /\ jobs' = [i \in DOMAIN jobs |-> jobs'[i]] /\ failedStream' \in SUBSET failedStream
        /\ \A i \in DOMAIN jobs : jobs'[i] \in {jobs[i], [jobs[i] EXCEPT !.owner = None]}
    BY <1>4 DEF LoseLock
  <2> QED
    BY <1>0, <2>1, DisownEffect
<1>5. CASE Crash
  <2>1. /\ jobs' = [i \in DOMAIN jobs |-> jobs'[i]] /\ failedStream' \in SUBSET failedStream
        /\ \A i \in DOMAIN jobs : jobs'[i] \in {jobs[i], [jobs[i] EXCEPT !.owner = None]}
    BY <1>5 DEF Crash
  <2> QED
    BY <1>0, <2>1, DisownEffect
<1> QED
  BY <1>1, <1>2, <1>3, <1>4, <1>5

\* Jobs, executions and effects only ever grow.
LEMMA NextGrows ==
    ASSUME TypeInv, [Next]_vars
    PROVE  /\ JobsGrow
           /\ ExecutionsGrow
           /\ \A s \in Sites : performed'[s] >= performed[s]
<1>1. JobsGrow
  BY JobWrites, IngestAdds, ReplayAdds, OtherJobWrites, Unchanged DEF Enqueue
<1>2. ExecutionsGrow
  <2>0. executions \in Seq(Execution)
    BY DEF TypeInv, TypeOK, StoreTypeOK
  <2>1. ASSUME NEW w \in Workers, StartNew(w)
        PROVE  ExecutionsGrow
    <3>1. EventAt(w) \in Events /\ frame[w].rule \in Rules
      BY <2>1, SlotFacts DEF StartNew, SlotRefs, InRule
    <3>2. "processing" \in ExecutionStatus
      BY DEF ExecutionStatus
    <3> QED
      BY <2>0, <2>1, <3>1, <3>2, StartExecutionEffect DEF StartNew
  <2>2. ASSUME NEW w \in Workers,
               Resume(w) \/ LogSuccess(w) \/ FinishExecution(w) \/ MarkExecution(w)
        PROVE  ExecutionsGrow
    <3>1. frame[w].exec \in DOMAIN executions
      BY <2>2, SlotFacts DEF Resume, LogSuccess, FinishExecution, MarkExecution, SlotRefs, InActions
    <3>2. CASE LogSuccess(w)
      BY <2>0, <3>1, <3>2, ActionFacts, AddSuccessStepEffect DEF LogSuccess
    <3>3. CASE Resume(w)
      <4>1. frame[w].rule \in Rules /\ ResumeExecution(frame[w].exec, frame[w].rule)
        BY <3>3, SlotFacts DEF Resume, SlotRefs, InRule
      <4> QED
        BY <2>0, <3>1, <4>1, ResumeExecutionEffect
    <3>4. CASE FinishExecution(w) \/ MarkExecution(w)
      <4>1. PICK status \in {"completed", "retrying", "failed"} :
               CompleteExecution(frame[w].exec, status)
        BY <3>4 DEF FinishExecution, MarkExecution
      <4>2. status \in ExecutionStatus
        BY DEF ExecutionStatus
      <4> QED
        BY <2>0, <3>1, <4>1, <4>2, CompleteExecutionEffect
    <3> QED
      BY <2>2, <3>2, <3>3, <3>4
  <2>3. ASSUME NEW p \in Replays, ResetExecution(p)
        PROVE  ExecutionsGrow
    <3>1. replay[p].exec \in DOMAIN executions /\ "queued" \in ExecutionStatus
      BY <2>3 DEF TypeInv, ReplayRefs, Replaying, ResetExecution, ExecutionStatus
    <3> QED
      BY <2>0, <2>3, <3>1, CompleteExecutionEffect DEF ResetExecution
  <2>4. ASSUME NEW j \in DOMAIN jobs, FailExecutions(j)
        PROVE  ExecutionsGrow
    BY <2>0, <2>4, FailActiveExecutionsEffect DEF FailExecutions
  <2> QED
    BY <2>1, <2>2, <2>3, <2>4, ExecutionWrites, Unchanged
<1>3. \A s \in Sites : performed'[s] >= performed[s]
  <2>0. performed \in [Sites -> Nat]
    BY DEF TypeInv, TypeOK, ProcessorTypeOK
  <2>1. CASE performed' = performed
    BY <2>0, <2>1
  <2>2. ASSUME NEW w \in Workers, PerformAction(w)
        PROVE  \A s \in Sites : performed'[s] >= performed[s]
    <3>1. PICK site : performed' = [performed EXCEPT ![site] = performed[site] + 1]
      BY <2>2 DEF PerformAction
    <3> QED
      BY <2>0, <3>1
  <2> QED
    BY <2>1, <2>2, PerformedWrites
<1> QED
  BY <1>1, <1>2, <1>3

\* An execution that was not there is one a call has just started.
LEMMA Started ==
    ASSUME TypeInv, [Next]_vars, NEW x \in DOMAIN executions', x \notin DOMAIN executions
    PROVE  \E w \in Workers :
              /\ StartNew(w)
              /\ executions'[x] = [event |-> EventAt(w), rule |-> RuleId[frame[w].rule],
                                   status |-> "processing", ok |-> {}, ranAs |-> {frame[w].rule}]
<1>1. PICK w \in Workers : StartNew(w)
  BY ExecutionWrites DEF Resume, ResumeExecution, LogSuccess, FinishExecution, MarkExecution,
     ResetExecution, FailExecutions, CompleteExecution, AddSuccessStep, FailActiveExecutions
<1>2. /\ EventAt(w) \in Events /\ frame[w].rule \in Rules
      /\ "processing" \in ExecutionStatus
  BY <1>1, SlotFacts DEF StartNew, SlotRefs, InRule, ExecutionStatus
<1>3. executions \in Seq(Execution)
  BY DEF TypeInv, TypeOK, StoreTypeOK
<1> DEFINE n == Len(executions) + 1
<1>4. /\ DOMAIN executions' = DOMAIN executions \cup {n}
      /\ executions'[n] = [event |-> EventAt(w), rule |-> RuleId[frame[w].rule],
                           status |-> "processing", ok |-> {}, ranAs |-> {frame[w].rule}]
  BY <1>1, <1>2, <1>3, StartExecutionEffect DEF StartNew
<1>5. x = n
  BY <1>4
<1> QED
  BY <1>1, <1>4, <1>5

\* What an execution was run from changes when a call resumes it, and by the
\* document the call has at hand.
LEMMA Resumed ==
    ASSUME TypeInv, [Next]_vars, NEW x \in DOMAIN executions
    PROVE  \/ executions'[x].ranAs = executions[x].ranAs
           \/ \E w \in Workers :
                 /\ Resume(w) /\ frame[w].exec = x
                 /\ executions'[x].ranAs = executions[x].ranAs \cup {frame[w].rule}
<1>0. executions \in Seq(Execution)
  BY DEF TypeInv, TypeOK, StoreTypeOK
<1>1. ASSUME NEW w \in Workers, StartNew(w)
      PROVE  executions'[x].ranAs = executions[x].ranAs
  <2>1. EventAt(w) \in Events /\ frame[w].rule \in Rules /\ "processing" \in ExecutionStatus
    BY <1>1, SlotFacts DEF StartNew, SlotRefs, InRule, ExecutionStatus
  <2> QED
    BY <1>0, <1>1, <2>1, StartExecutionEffect DEF StartNew
<1>2. ASSUME NEW w \in Workers, Resume(w)
      PROVE  \/ executions'[x].ranAs = executions[x].ranAs
             \/ /\ frame[w].exec = x
                /\ executions'[x].ranAs = executions[x].ranAs \cup {frame[w].rule}
  <2>1. frame[w].exec \in DOMAIN executions /\ frame[w].rule \in Rules
    BY <1>2, SlotFacts DEF Resume, SlotRefs, InRule
  <2> QED
    BY <1>0, <1>2, <2>1, ResumeExecutionEffect DEF Resume
<1>3. ASSUME NEW w \in Workers, LogSuccess(w)
      PROVE  executions'[x].ranAs = executions[x].ranAs
  <2>1. frame[w].exec \in DOMAIN executions /\ OrderAt(w) \in Nat
    BY <1>3, SlotFacts, ActionFacts DEF LogSuccess, SlotRefs, InActions
  <2> QED
    BY <1>0, <1>3, <2>1, AddSuccessStepEffect DEF LogSuccess
<1>4. ASSUME NEW y \in DOMAIN executions, NEW status \in ExecutionStatus,
             CompleteExecution(y, status)
      PROVE  executions'[x].ranAs = executions[x].ranAs
  BY <1>0, <1>4, CompleteExecutionEffect
<1>5. ASSUME NEW w \in Workers, FinishExecution(w) \/ MarkExecution(w)
      PROVE  executions'[x].ranAs = executions[x].ranAs
  <2>1. PICK status \in {"completed", "retrying", "failed"} :
           CompleteExecution(frame[w].exec, status)
    BY <1>5 DEF FinishExecution, MarkExecution
  <2>2. frame[w].exec \in DOMAIN executions /\ status \in ExecutionStatus
    BY <1>5, SlotFacts DEF FinishExecution, MarkExecution, SlotRefs, InActions, ExecutionStatus
  <2> QED
    BY <1>4, <2>1, <2>2
<1>6. ASSUME NEW p \in Replays, ResetExecution(p)
      PROVE  executions'[x].ranAs = executions[x].ranAs
  <2>1. replay[p].exec \in DOMAIN executions /\ "queued" \in ExecutionStatus
    BY <1>6 DEF TypeInv, ReplayRefs, Replaying, ResetExecution, ExecutionStatus
  <2> QED
    BY <1>4, <1>6, <2>1 DEF ResetExecution
<1>7. ASSUME NEW j \in DOMAIN jobs, FailExecutions(j)
      PROVE  executions'[x].ranAs = executions[x].ranAs
  BY <1>0, <1>7, FailActiveExecutionsEffect DEF FailExecutions
<1> QED
  BY <1>1, <1>2, <1>3, <1>5, <1>6, <1>7, ExecutionWrites

\* Mishaps are counted, and the counters do not go back.
LEMMA MishapsCount ==
    ASSUME TypeInv, [Next]_vars
    PROVE  /\ \A m \in Mishaps : mishaps[m] \in Nat /\ mishaps'[m] >= mishaps[m]
           /\ (\E w \in Workers, j \in DOMAIN jobs : LoseLock(w, j)) => mishaps'["lockLost"] > 0
           /\ Crash => mishaps'["crash"] > 0
           /\ (\E q \in Requests : EnqueueFault(q)) => mishaps'["queueFault"] > 0
<1>0. /\ mishaps \in [Mishaps -> Nat]
      /\ "lockLost" \in Mishaps /\ "crash" \in Mishaps /\ "queueFault" \in Mishaps
  BY DEF TypeInv, TypeOK, StoreTypeOK, Mishaps
<1>1. ASSUME NEW k \in Mishaps, Suffer(k)
      PROVE  \A m \in Mishaps : mishaps'[m] >= mishaps[m]
  BY <1>0, <1>1 DEF Suffer
<1>2. mishaps' = mishaps \/ \E k \in Mishaps : Suffer(k)
  <2>1. CASE Ingest
    BY <2>1 DEF Ingest, IngestionNext, Admit, Refuse, RejectDelivery, SaveEvent, SaveDuplicate,
       ReturnExisting, Enqueue, EnqueueFault, SaveFault, storeVars, Mishaps
  <2>2. CASE Work
    BY <2>2 DEF Work, ProcessorNext, ProcessorStep, PickUp, DbFault, LockEvent, SkipEvent,
       CheckTenant, LoadRules, FindExecution, StartNew, Resume, SkipAction, PerformAction,
       FailAction, LogSuccess, LogFailure, FinishExecution, MarkExecution, CompleteEvent,
       RevertEvent, Settle, storeVars, Mishaps
  <2>3. CASE Replay
    BY <2>3 DEF Replay, ReplayNext, CheckFailed, SaveHistory, RefuseReason, ResetExecution,
       Requeue, ReplayFault, storeVars, Mishaps
  <2>4. CASE Listen
    BY <2>4 DEF Listen, ListenerNext, ListenerStep, FailEvent, FailExecutions, LoseNotice,
       ListenerFault, Mishaps
  <2>5. CASE Administer \/ Manage \/ Crash \/ UNCHANGED vars
    BY <2>5 DEF Administer, SuspendTenant, EditRule, Manage, StallJob, LoseLock, Crash,
       vars, storeVars, Mishaps
  <2> QED
    BY <2>1, <2>2, <2>3, <2>4, <2>5 DEF Next
<1>3. \A m \in Mishaps : mishaps[m] \in Nat /\ mishaps'[m] >= mishaps[m]
  BY <1>0, <1>1, <1>2
<1>4. (\E w \in Workers, j \in DOMAIN jobs : LoseLock(w, j)) => mishaps'["lockLost"] > 0
  BY <1>0 DEF LoseLock, Suffer
<1>5. /\ Crash => mishaps'["crash"] > 0
      /\ (\E q \in Requests : EnqueueFault(q)) => mishaps'["queueFault"] > 0
  BY <1>0 DEF Crash, EnqueueFault, Suffer
<1> QED
  BY <1>3, <1>4, <1>5

=============================================================================
