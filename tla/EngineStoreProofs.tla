-------------------------- MODULE EngineStoreProofs --------------------------
(***************************************************************************)
(* What the operations on the shared collections and on the queue keep,    *)
(* add and leave alone.  The proofs about the engine cite these lemmas     *)
(* instead of the operations' definitions.                                 *)
(***************************************************************************)
EXTENDS EngineStore, SequenceTheorems, TLAPS

\* Execution documents are only ever created or updated: they keep their event
\* and rule, a successful step stays logged, and what a call ran them from noted.
ExecutionsGrow ==
    \A x \in DOMAIN executions :
        /\ x \in DOMAIN executions'
        /\ executions'[x].event = executions[x].event
        /\ executions'[x].rule = executions[x].rule
        /\ executions[x].ok \subseteq executions'[x].ok
        /\ executions[x].ranAs \subseteq executions'[x].ranAs

\* Jobs are only ever added or moved on: they keep their event and origin.
JobsGrow ==
    \A j \in DOMAIN jobs :
        /\ j \in DOMAIN jobs'
        /\ jobs'[j].event = jobs[j].event
        /\ jobs'[j].origin = jobs[j].origin

JobsMove == JobsGrow /\ DOMAIN jobs' = DOMAIN jobs

-----------------------------------------------------------------------------
(* Sequences *)

\* An update of a sequence in place, with values in S, is a sequence over S.
LEMMA Retyped ==
    ASSUME NEW S, NEW s \in Seq(S), NEW t,
           t = [i \in DOMAIN s |-> t[i]],
           \A i \in DOMAIN s : t[i] \in S
    PROVE  t \in Seq(S) /\ DOMAIN t = DOMAIN s
<1>1. Len(s) \in Nat /\ DOMAIN s = 1..Len(s)
  BY LenProperties
<1>2. t \in [1..Len(s) -> S]
  BY <1>1
<1> QED
  BY <1>1, <1>2, IsASeq

\* Append adds one index and keeps the others.
LEMMA Appended ==
    ASSUME NEW S, NEW s \in Seq(S), NEW new \in S
    PROVE  /\ Append(s, new) \in Seq(S)
           /\ DOMAIN Append(s, new) = DOMAIN s \cup {Len(s) + 1}
           /\ Len(s) + 1 \in Nat \ {0}
           /\ Len(s) + 1 \notin DOMAIN s
           /\ \A i \in DOMAIN s : Append(s, new)[i] = s[i]
           /\ Append(s, new)[Len(s) + 1] = new
<1>1. Len(s) \in Nat /\ DOMAIN s = 1..Len(s)
  BY LenProperties
<1>2. /\ Append(s, new) \in Seq(S)
      /\ Len(Append(s, new)) = Len(s) + 1
      /\ \A i \in 1..Len(s) : Append(s, new)[i] = s[i]
      /\ Append(s, new)[Len(s) + 1] = new
  BY AppendProperties
<1>3. DOMAIN Append(s, new) = 1..(Len(s) + 1)
  BY <1>2, LenProperties
<1> QED
  BY <1>1, <1>2, <1>3

-----------------------------------------------------------------------------
(* ExecutionsService *)

\* startExecution appends one document and touches no other.
LEMMA StartExecutionEffect ==
    ASSUME executions \in Seq(Execution), NEW e \in Events, NEW r \in Rules,
           NEW status \in ExecutionStatus, StartExecution(e, r, status)
    PROVE  LET n == Len(executions) + 1
           IN /\ executions' \in Seq(Execution)
              /\ ExecutionsGrow
              /\ DOMAIN executions' = DOMAIN executions \cup {n}
              /\ n \in Nat \ {0}
              /\ n \notin DOMAIN executions
              /\ \A x \in DOMAIN executions : executions'[x] = executions[x]
              /\ executions'[n] = [event |-> e, rule |-> RuleId[r], status |-> status,
                                   ok |-> {}, ranAs |-> {r}]
<1> DEFINE new == [event |-> e, rule |-> RuleId[r], status |-> status, ok |-> {}, ranAs |-> {r}]
<1>1. new \in Execution
  BY DEF Execution, RuleIds
<1>2. executions' = Append(executions, new)
  BY DEF StartExecution
<1> HIDE DEF new
<1>3. /\ executions' \in Seq(Execution)
      /\ DOMAIN executions' = DOMAIN executions \cup {Len(executions) + 1}
      /\ Len(executions) + 1 \in Nat \ {0}
      /\ Len(executions) + 1 \notin DOMAIN executions
      /\ \A x \in DOMAIN executions : executions'[x] = executions[x]
      /\ executions'[Len(executions) + 1] = new
  BY <1>1, <1>2, Appended
<1>4. ExecutionsGrow
  BY <1>3 DEF ExecutionsGrow
<1> QED
  BY <1>3, <1>4 DEF new

\* completeExecution changes the status of one document, and nothing else.
LEMMA CompleteExecutionEffect ==
    ASSUME executions \in Seq(Execution), NEW x \in DOMAIN executions,
           NEW status \in ExecutionStatus, CompleteExecution(x, status)
    PROVE  /\ executions' \in Seq(Execution)
           /\ ExecutionsGrow
           /\ DOMAIN executions' = DOMAIN executions
           /\ executions'[x].status = status
           /\ \A y \in DOMAIN executions :
                 /\ executions'[y].ok = executions[y].ok
                 /\ executions'[y].ranAs = executions[y].ranAs
                 /\ y # x => executions'[y] = executions[y]
<1>1. \A y \in DOMAIN executions : executions[y] \in Execution
  BY ElementOfSeq, LenProperties
<1>2. executions' = [executions EXCEPT ![x].status = status]
  BY DEF CompleteExecution
<1>3. executions' = [y \in DOMAIN executions |-> executions'[y]]
  BY <1>2
<1>4. executions'[x] = [executions[x] EXCEPT !.status = status]
  BY <1>2
<1>5. \A y \in DOMAIN executions : y # x => executions'[y] = executions[y]
  BY <1>2
<1>6. executions'[x] \in Execution /\ executions'[x].status = status
      /\ executions'[x].event = executions[x].event
      /\ executions'[x].rule = executions[x].rule
      /\ executions'[x].ok = executions[x].ok
      /\ executions'[x].ranAs = executions[x].ranAs
  BY <1>1, <1>4 DEF Execution
<1>7. executions' \in Seq(Execution) /\ DOMAIN executions' = DOMAIN executions
  BY <1>1, <1>3, <1>5, <1>6, Retyped
<1> QED
  BY <1>5, <1>6, <1>7 DEF ExecutionsGrow

\* A resumed execution is in processing, run once more, from what its rule holds.
LEMMA ResumeExecutionEffect ==
    ASSUME executions \in Seq(Execution), NEW x \in DOMAIN executions,
           NEW r \in Rules, ResumeExecution(x, r)
    PROVE  /\ executions' \in Seq(Execution)
           /\ ExecutionsGrow
           /\ DOMAIN executions' = DOMAIN executions
           /\ executions'[x].status = "processing"
           /\ executions'[x].ranAs = executions[x].ranAs \cup {r}
           /\ \A y \in DOMAIN executions :
                 /\ executions'[y].ok = executions[y].ok
                 /\ y # x => executions'[y] = executions[y]
<1>1. \A y \in DOMAIN executions : executions[y] \in Execution
  BY ElementOfSeq, LenProperties
<1> DEFINE ran == executions[x].ranAs \cup {r}
<1>2. executions' = [executions EXCEPT ![x] = [executions[x] EXCEPT !.status = "processing",
                                                                   !.ranAs = ran]]
  BY DEF ResumeExecution
<1>3. executions' = [y \in DOMAIN executions |-> executions'[y]]
  BY <1>2
<1>4. executions'[x] = [executions[x] EXCEPT !.status = "processing", !.ranAs = ran]
  BY <1>2
<1>5. \A y \in DOMAIN executions : y # x => executions'[y] = executions[y]
  BY <1>2
<1>6. ran \in SUBSET Rules
  BY <1>1 DEF Execution
<1> HIDE DEF ran
<1>7. executions'[x] \in Execution /\ executions'[x].status = "processing"
      /\ executions'[x].event = executions[x].event
      /\ executions'[x].rule = executions[x].rule
      /\ executions'[x].ok = executions[x].ok
      /\ executions'[x].ranAs = ran
  BY <1>1, <1>4, <1>6 DEF Execution, ExecutionStatus
<1>8. executions' \in Seq(Execution) /\ DOMAIN executions' = DOMAIN executions
  BY <1>1, <1>3, <1>5, <1>7, Retyped
<1> QED
  BY <1>5, <1>7, <1>8 DEF ExecutionsGrow, ran

\* addStep adds one successful step to one document.
LEMMA AddSuccessStepEffect ==
    ASSUME executions \in Seq(Execution), NEW x \in DOMAIN executions,
           NEW order \in Nat, AddSuccessStep(x, order)
    PROVE  /\ executions' \in Seq(Execution)
           /\ ExecutionsGrow
           /\ DOMAIN executions' = DOMAIN executions
           /\ executions'[x].ok = executions[x].ok \cup {order}
           /\ \A y \in DOMAIN executions :
                 /\ executions'[y].status = executions[y].status
                 /\ executions'[y].ranAs = executions[y].ranAs
                 /\ y # x => executions'[y] = executions[y]
<1>1. \A y \in DOMAIN executions : executions[y] \in Execution
  BY ElementOfSeq, LenProperties
<1>2. executions' = [executions EXCEPT ![x].ok = executions[x].ok \cup {order}]
  BY DEF AddSuccessStep
<1>3. executions' = [y \in DOMAIN executions |-> executions'[y]]
  BY <1>2
<1>4. executions'[x] = [executions[x] EXCEPT !.ok = executions[x].ok \cup {order}]
  BY <1>2
<1>5. \A y \in DOMAIN executions : y # x => executions'[y] = executions[y]
  BY <1>2
<1>6. executions'[x] \in Execution
      /\ executions'[x].ok = executions[x].ok \cup {order}
      /\ executions'[x].event = executions[x].event
      /\ executions'[x].rule = executions[x].rule
      /\ executions'[x].status = executions[x].status
      /\ executions'[x].ranAs = executions[x].ranAs
  BY <1>1, <1>4 DEF Execution
<1>7. executions' \in Seq(Execution) /\ DOMAIN executions' = DOMAIN executions
  BY <1>1, <1>3, <1>5, <1>6, Retyped
<1> QED
  BY <1>5, <1>6, <1>7 DEF ExecutionsGrow

\* failActiveExecutions changes statuses, and to failed alone.
LEMMA FailActiveExecutionsEffect ==
    ASSUME executions \in Seq(Execution), NEW e, FailActiveExecutions(e)
    PROVE  /\ executions' \in Seq(Execution)
           /\ ExecutionsGrow
           /\ DOMAIN executions' = DOMAIN executions
           /\ \A y \in DOMAIN executions :
                 /\ executions'[y].ok = executions[y].ok
                 /\ executions'[y].ranAs = executions[y].ranAs
                 /\ executions'[y].status \in {executions[y].status, "failed"}
                 /\ executions[y].event # e \/ executions[y].status \notin {"queued", "processing"}
                       => executions'[y] = executions[y]
<1>1. \A y \in DOMAIN executions : executions[y] \in Execution
  BY ElementOfSeq, LenProperties
<1>2. executions' = [y \in DOMAIN executions |-> executions'[y]]
  BY DEF FailActiveExecutions
<1>3. \A y \in DOMAIN executions :
         executions'[y] \in {executions[y], [executions[y] EXCEPT !.status = "failed"]}
  BY DEF FailActiveExecutions
<1>4. \A y \in DOMAIN executions :
         /\ executions'[y] \in Execution
         /\ executions'[y].event = executions[y].event
         /\ executions'[y].rule = executions[y].rule
         /\ executions'[y].ok = executions[y].ok
         /\ executions'[y].ranAs = executions[y].ranAs
         /\ executions'[y].status \in {executions[y].status, "failed"}
  <2> TAKE y \in DOMAIN executions
  <2>1. executions[y] \in Execution
    BY <1>1
  <2>2. CASE executions'[y] = executions[y]
    BY <2>1, <2>2
  <2>3. CASE executions'[y] = [executions[y] EXCEPT !.status = "failed"]
    BY <2>1, <2>3 DEF Execution, ExecutionStatus
  <2> QED
    BY <1>3, <2>2, <2>3
<1>5. executions' \in Seq(Execution) /\ DOMAIN executions' = DOMAIN executions
  BY <1>2, <1>4, Retyped
<1>6. \A y \in DOMAIN executions :
         executions[y].event # e \/ executions[y].status \notin {"queued", "processing"}
            => executions'[y] = executions[y]
  BY DEF FailActiveExecutions
<1> QED
  BY <1>4, <1>5, <1>6 DEF ExecutionsGrow

-----------------------------------------------------------------------------
(* BullMQ *)

\* Writing jobs one by one, each keeping its event and origin, moves them.
LEMMA JobsMoved ==
    ASSUME jobs \in Seq(Job),
           jobs' = [j \in DOMAIN jobs |-> jobs'[j]],
           \A j \in DOMAIN jobs : /\ jobs'[j] \in Job
                                  /\ jobs'[j].event = jobs[j].event
                                  /\ jobs'[j].origin = jobs[j].origin
    PROVE  jobs' \in Seq(Job) /\ JobsMove
<1>1. jobs' \in Seq(Job) /\ DOMAIN jobs' = DOMAIN jobs
  BY Retyped
<1> QED
  BY <1>1 DEF JobsMove, JobsGrow

\* Queue.add appends a waiting job and touches no other.
LEMMA AddJobEffect ==
    ASSUME jobs \in Seq(Job), failedStream \in SUBSET DOMAIN jobs,
           NEW e \in Events, NEW origin \in {"ingest", "replay"}, AddJob(e, origin)
    PROVE  LET n == Len(jobs) + 1
           IN /\ jobs' \in Seq(Job)
              /\ failedStream' \in SUBSET DOMAIN jobs'
              /\ JobsGrow
              /\ DOMAIN jobs' = DOMAIN jobs \cup {n}
              /\ n \notin DOMAIN jobs
              /\ \A j \in DOMAIN jobs : jobs'[j] = jobs[j]
              /\ jobs'[n].event = e
              /\ jobs'[n].origin = origin
              /\ jobs'[n].state = "waiting"
              /\ failedStream' = failedStream
<1> DEFINE new == [event |-> e, origin |-> origin, state |-> "waiting",
                   made |-> 0, stalls |-> 0, owner |-> None]
<1>1. new \in Job
  BY DEF Job
<1>2. jobs' = Append(jobs, new) /\ failedStream' = failedStream
  BY DEF AddJob
<1>3. new.event = e /\ new.origin = origin /\ new.state = "waiting"
  OBVIOUS
<1> HIDE DEF new
<1>4. /\ jobs' \in Seq(Job)
      /\ DOMAIN jobs' = DOMAIN jobs \cup {Len(jobs) + 1}
      /\ Len(jobs) + 1 \notin DOMAIN jobs
      /\ \A j \in DOMAIN jobs : jobs'[j] = jobs[j]
      /\ jobs'[Len(jobs) + 1] = new
  BY <1>1, <1>2, Appended
<1> QED
  BY <1>2, <1>3, <1>4 DEF JobsGrow

\* A job taken by a free slot is active under the slot's lock.
LEMMA TakeJobEffect ==
    ASSUME jobs \in Seq(Job), NEW j \in DOMAIN jobs, NEW w \in Workers, TakeJob(j, w)
    PROVE  /\ jobs' \in Seq(Job)
           /\ JobsMove
           /\ failedStream' = failedStream
           /\ jobs[j].state = "waiting"
           /\ jobs'[j].state = "active" /\ jobs'[j].owner = w
           /\ \A k \in DOMAIN jobs : k # j => jobs'[k] = jobs[k]
<1>1. \A k \in DOMAIN jobs : jobs[k] \in Job
  BY ElementOfSeq, LenProperties
<1>2. jobs' = [jobs EXCEPT ![j] = [jobs[j] EXCEPT !.state = "active", !.owner = w]]
  BY DEF TakeJob
<1>3. jobs' = [k \in DOMAIN jobs |-> jobs'[k]]
  BY <1>2
<1>4. jobs'[j] = [jobs[j] EXCEPT !.state = "active", !.owner = w]
  BY <1>2
<1>5. \A k \in DOMAIN jobs : k # j => jobs'[k] = jobs[k]
  BY <1>2
<1>6. /\ jobs'[j] \in Job
      /\ jobs'[j].event = jobs[j].event /\ jobs'[j].origin = jobs[j].origin
      /\ jobs'[j].state = "active" /\ jobs'[j].owner = w
  BY <1>1, <1>4 DEF Job
<1>7. \A k \in DOMAIN jobs : /\ jobs'[k] \in Job
                             /\ jobs'[k].event = jobs[k].event
                             /\ jobs'[k].origin = jobs[k].origin
  BY <1>1, <1>5, <1>6
<1> QED
  BY <1>3, <1>5, <1>6, <1>7, JobsMoved DEF TakeJob

\* A job completes.
LEMMA CompleteJobEffect ==
    ASSUME jobs \in Seq(Job), NEW j \in DOMAIN jobs, CompleteJob(j)
    PROVE  /\ jobs' \in Seq(Job)
           /\ JobsMove
           /\ failedStream' = failedStream
           /\ jobs'[j].state = "completed"
           /\ \A k \in DOMAIN jobs : k # j => jobs'[k] = jobs[k]
<1>1. \A k \in DOMAIN jobs : jobs[k] \in Job
  BY ElementOfSeq, LenProperties
<1>2. jobs' = [jobs EXCEPT ![j] = [jobs[j] EXCEPT !.state = "completed", !.owner = None]]
  BY DEF CompleteJob
<1>3. jobs' = [k \in DOMAIN jobs |-> jobs'[k]]
  BY <1>2
<1>4. jobs'[j] = [jobs[j] EXCEPT !.state = "completed", !.owner = None]
  BY <1>2
<1>5. \A k \in DOMAIN jobs : k # j => jobs'[k] = jobs[k]
  BY <1>2
<1>6. /\ jobs'[j] \in Job /\ jobs'[j].state = "completed"
      /\ jobs'[j].event = jobs[j].event /\ jobs'[j].origin = jobs[j].origin
  BY <1>1, <1>4 DEF Job
<1>7. \A k \in DOMAIN jobs : /\ jobs'[k] \in Job
                             /\ jobs'[k].event = jobs[k].event
                             /\ jobs'[k].origin = jobs[k].origin
  BY <1>1, <1>5, <1>6
<1> QED
  BY <1>3, <1>5, <1>6, <1>7, JobsMoved DEF CompleteJob

\* A job's attempt fails: it waits again or it is failed and that is published.
LEMMA FailJobEffect ==
    ASSUME jobs \in Seq(Job), failedStream \in SUBSET DOMAIN jobs,
           NEW j \in DOMAIN jobs, NEW discarded, FailJob(j, discarded)
    PROVE  /\ jobs' \in Seq(Job)
           /\ JobsMove
           /\ failedStream' \in SUBSET DOMAIN jobs'
           /\ jobs'[j].state \in {"waiting", "failed"}
           /\ discarded => jobs'[j].state = "failed"
           /\ failedStream' \subseteq failedStream \cup {j}
           /\ jobs'[j].state = "failed" \/ failedStream' = failedStream
           /\ \A k \in DOMAIN jobs : k # j => jobs'[k] = jobs[k]
<1>1. \A k \in DOMAIN jobs : jobs[k] \in Job
  BY ElementOfSeq, LenProperties
<1>2. PICK state \in {"waiting", "failed"} :
         /\ jobs' = [jobs EXCEPT ![j] = [jobs[j] EXCEPT !.state = state,
                                         !.made = jobs[j].made + 1, !.owner = None]]
         /\ discarded => state = "failed"
         /\ state = "failed" \/ failedStream' = failedStream
  BY DEF FailJob
<1>3. failedStream' \in {failedStream, failedStream \cup {j}}
  BY DEF FailJob
<1>4. jobs' = [k \in DOMAIN jobs |-> jobs'[k]]
  BY <1>2
<1>5. jobs'[j] = [jobs[j] EXCEPT !.state = state, !.made = jobs[j].made + 1, !.owner = None]
  BY <1>2
<1>6. \A k \in DOMAIN jobs : k # j => jobs'[k] = jobs[k]
  BY <1>2
<1>7. /\ jobs'[j] \in Job /\ jobs'[j].state = state
      /\ jobs'[j].event = jobs[j].event /\ jobs'[j].origin = jobs[j].origin
  <2>1. PICK n \in Nat : jobs'[j] = [jobs[j] EXCEPT !.state = state, !.made = n, !.owner = None]
    <3>1. jobs[j].made \in Nat
      BY <1>1 DEF Job
    <3>2. jobs[j].made + 1 \in Nat
      BY <3>1
    <3> QED
      BY <1>5, <3>2
  <2> QED
    BY <1>1, <2>1 DEF Job
<1>8. \A k \in DOMAIN jobs : /\ jobs'[k] \in Job
                             /\ jobs'[k].event = jobs[k].event
                             /\ jobs'[k].origin = jobs[k].origin
  BY <1>1, <1>6, <1>7
<1>9. jobs' \in Seq(Job) /\ JobsMove
  BY <1>4, <1>8, JobsMoved
<1> QED
  BY <1>2, <1>3, <1>6, <1>7, <1>9 DEF JobsMove

\* The stalled check touches a job without an owner, and leaves it without one.
LEMMA StallJobEffect ==
    ASSUME jobs \in Seq(Job), failedStream \in SUBSET DOMAIN jobs,
           NEW j \in DOMAIN jobs, StallJob(j)
    PROVE  /\ jobs' \in Seq(Job)
           /\ JobsMove
           /\ failedStream' \in SUBSET DOMAIN jobs'
           /\ jobs[j].state = "active" /\ jobs[j].owner = None
           /\ jobs'[j].state \in {"waiting", "failed"}
           /\ failedStream' \subseteq failedStream \cup {j}
           /\ jobs'[j].state = "failed" \/ failedStream' = failedStream
           /\ \A k \in DOMAIN jobs : k # j => jobs'[k] = jobs[k]
<1>1. \A k \in DOMAIN jobs : jobs[k] \in Job
  BY ElementOfSeq, LenProperties
<1>2. PICK state \in {"waiting", "failed"} :
         /\ jobs' = [jobs EXCEPT ![j] = [jobs[j] EXCEPT !.state = state,
                                         !.stalls = jobs[j].stalls + 1]]
         /\ state = "failed" \/ failedStream' = failedStream
  BY DEF StallJob
<1>3. /\ failedStream' \in {failedStream, failedStream \cup {j}}
      /\ jobs[j].state = "active" /\ jobs[j].owner = None
  BY DEF StallJob
<1>4. jobs' = [k \in DOMAIN jobs |-> jobs'[k]]
  BY <1>2
<1>5. jobs'[j] = [jobs[j] EXCEPT !.state = state, !.stalls = jobs[j].stalls + 1]
  BY <1>2
<1>6. \A k \in DOMAIN jobs : k # j => jobs'[k] = jobs[k]
  BY <1>2
<1>7. /\ jobs'[j] \in Job /\ jobs'[j].state = state
      /\ jobs'[j].event = jobs[j].event /\ jobs'[j].origin = jobs[j].origin
  <2>1. PICK n \in Nat : jobs'[j] = [jobs[j] EXCEPT !.state = state, !.stalls = n]
    <3>1. jobs[j].stalls \in Nat
      BY <1>1 DEF Job
    <3>2. jobs[j].stalls + 1 \in Nat
      BY <3>1
    <3> QED
      BY <1>5, <3>2
  <2> QED
    BY <1>1, <2>1 DEF Job
<1>8. \A k \in DOMAIN jobs : /\ jobs'[k] \in Job
                             /\ jobs'[k].event = jobs[k].event
                             /\ jobs'[k].origin = jobs[k].origin
  BY <1>1, <1>6, <1>7
<1>9. jobs' \in Seq(Job) /\ JobsMove
  BY <1>4, <1>8, JobsMoved
<1> QED
  BY <1>2, <1>3, <1>6, <1>7, <1>9 DEF JobsMove

\* Jobs that lose their locks lose nothing else.
LEMMA DisownEffect ==
    ASSUME jobs \in Seq(Job), failedStream \in SUBSET DOMAIN jobs,
           jobs' = [j \in DOMAIN jobs |-> jobs'[j]],
           \A j \in DOMAIN jobs :
               jobs'[j] \in {jobs[j], [jobs[j] EXCEPT !.owner = None]},
           failedStream' \in SUBSET failedStream
    PROVE  /\ jobs' \in Seq(Job)
           /\ JobsMove
           /\ failedStream' \in SUBSET DOMAIN jobs'
           /\ \A j \in DOMAIN jobs : jobs'[j].state = jobs[j].state
<1>1. \A j \in DOMAIN jobs : jobs[j] \in Job
  BY ElementOfSeq, LenProperties
<1>2. \A j \in DOMAIN jobs : /\ jobs'[j] \in Job
                             /\ jobs'[j].event = jobs[j].event
                             /\ jobs'[j].origin = jobs[j].origin
                             /\ jobs'[j].state = jobs[j].state
  <2> TAKE j \in DOMAIN jobs
  <2>1. jobs[j] \in Job
    BY <1>1
  <2>2. CASE jobs'[j] = jobs[j]
    BY <2>1, <2>2
  <2>3. CASE jobs'[j] = [jobs[j] EXCEPT !.owner = None]
    BY <2>1, <2>3 DEF Job
  <2> QED
    BY <2>2, <2>3
<1>3. jobs' \in Seq(Job) /\ JobsMove
  BY <1>2, JobsMoved
<1> QED
  BY <1>2, <1>3 DEF JobsMove

=============================================================================
