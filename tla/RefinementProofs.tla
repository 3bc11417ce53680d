--------------------------- MODULE RefinementProofs ---------------------------
(***************************************************************************)
(* WebhookEngine implements ActionLedger, for all values of the constants: *)
(* each step is a step of the ledger under the mapping of                  *)
(* EngineRefinement, or changes nothing the ledger sees.                   *)
(***************************************************************************)
EXTENDS EngineRefinement, ProcessingProofs

-----------------------------------------------------------------------------
(* The mapping *)

EntrySet == [event: Events, rule: RuleIds, ranAs: SUBSET Rules,
             verdict: {"open", "failed", "completed"}]

LEMMA EntriesTyped ==
    ASSUME TypeInv
    PROVE  /\ Entries \in Seq(EntrySet)
           /\ DOMAIN Entries = DOMAIN executions
           /\ Len(Entries) = Len(executions)
<1>1. \A x \in DOMAIN executions : executions[x] \in Execution
  BY Indices
<1>2. executions \in Seq(Execution) /\ DOMAIN executions = 1..Len(executions)
      /\ Len(executions) \in Nat
  BY LenProperties DEF TypeInv, TypeOK, StoreTypeOK
<1>3. \A x \in DOMAIN executions : EntryOf(x) \in EntrySet
  BY <1>1 DEF EntryOf, EntrySet, Execution, VerdictOf
<1>4. DOMAIN Entries = 1..Len(executions) /\ Entries = [x \in 1..Len(executions) |-> Entries[x]]
      /\ \A x \in 1..Len(executions) : Entries[x] \in EntrySet
  BY <1>2, <1>3 DEF Entries
<1>5. Entries \in [1..Len(executions) -> EntrySet]
  BY <1>4
<1>6. Entries \in Seq(EntrySet)
  BY <1>2, <1>5, SeqDef
<1> QED
  BY <1>2, <1>4, <1>6, LenProperties

\* Updating the status of one execution judges its entry.
LEMMA CompleteJudges ==
    ASSUME TypeInv, NEW x \in DOMAIN executions, NEW status \in ExecutionStatus,
           CompleteExecution(x, status)
    PROVE  Entries' = [Entries EXCEPT ![x].verdict = VerdictOf(status)]
<1>1. /\ executions' = [executions EXCEPT ![x] = [executions[x] EXCEPT !.status = status]]
      /\ executions[x] \in Execution
  BY Indices DEF CompleteExecution
<1>2. /\ DOMAIN executions' = DOMAIN executions
      /\ \A y \in DOMAIN executions : y # x => executions'[y] = executions[y]
      /\ executions'[x].event = executions[x].event
      /\ executions'[x].rule = executions[x].rule
      /\ executions'[x].ranAs = executions[x].ranAs
      /\ executions'[x].status = status
  BY <1>1 DEF Execution
<1>3. \A y \in DOMAIN executions : y # x => EntryOf(y)' = EntryOf(y)
  BY <1>2 DEF EntryOf
<1>4. EntryOf(x)' = [EntryOf(x) EXCEPT !.verdict = VerdictOf(status)]
  BY <1>2 DEF EntryOf
<1> QED
  BY <1>2, <1>3, <1>4 DEF Entries

\* A call that resumes an execution reopens its entry with the document it has.
LEMMA ResumeReopens ==
    ASSUME TypeInv, NEW x \in DOMAIN executions, NEW r \in Rules, ResumeExecution(x, r)
    PROVE  Entries' = [Entries EXCEPT ![x] =
                         [event |-> @.event, rule |-> @.rule, ranAs |-> @.ranAs \cup {r},
                          verdict |-> "open"]]
<1>1. executions[x] \in Execution
  BY Indices
<1>2. executions \in Seq(Execution)
  BY DEF TypeInv, TypeOK, StoreTypeOK
<1>3. /\ DOMAIN executions' = DOMAIN executions
      /\ \A y \in DOMAIN executions : y # x => executions'[y] = executions[y]
      /\ executions'[x].event = executions[x].event
      /\ executions'[x].rule = executions[x].rule
      /\ executions'[x].ranAs = executions[x].ranAs \cup {r}
      /\ executions'[x].status = "processing"
  BY <1>2, ResumeExecutionEffect DEF ExecutionsGrow
<1>4. \A y \in DOMAIN executions : y # x => EntryOf(y)' = EntryOf(y)
  BY <1>3 DEF EntryOf
<1>5. EntryOf(x)' = [event |-> EntryOf(x).event, rule |-> EntryOf(x).rule,
                     ranAs |-> EntryOf(x).ranAs \cup {r}, verdict |-> "open"]
  BY <1>3 DEF EntryOf, VerdictOf
<1> QED
  BY <1>3, <1>4, <1>5 DEF Entries

\* What has happened for an event and a rule, order by order.
LEMMA EffectsAre ==
    ASSUME NEW e \in Events, NEW i \in RuleIds, NEW o
    PROVE  o \in Effects[<<e, i>>] <=>
              \E r \in Rules : /\ RuleId[r] = i
                               /\ \E k \in 1..Len(Orders[r]) :
                                     Orders[r][k] = o /\ performed[<<e, r, k>>] > 0
<1>1. Effects[<<e, i>>] = UNION {EffectsOf(e, r) : r \in {d \in Rules : RuleId[d] = i}}
  BY DEF Effects
<1>2. \A r : o \in EffectsOf(e, r) <=>
                \E k \in 1..Len(Orders[r]) : Orders[r][k] = o /\ performed[<<e, r, k>>] > 0
  BY DEF EffectsOf
<1> QED
  BY <1>1, <1>2

-----------------------------------------------------------------------------
(* Steps *)

\* An action that succeeds is performed in the ledger.
LEMMA PerformImplements ==
    ASSUME TypeInv, NEW w \in Workers, PerformAction(w)
    PROVE  Ledger!Next
<1> DEFINE x == frame[w].exec
           o == OrderAt(w)
           site == <<EventAt(w), frame[w].rule, frame[w].at>>
<1>1. /\ x \in DOMAIN executions /\ executions[x].event = EventAt(w)
      /\ executions[x].rule = RuleId[frame[w].rule] /\ frame[w].rule \in executions[x].ranAs
      /\ EventAt(w) \in Events /\ frame[w].rule \in Rules /\ RuleId[frame[w].rule] \in RuleIds
      /\ frame[w].at \in 1..Len(Orders[frame[w].rule]) /\ site \in Sites
      /\ performed \in [Sites -> Nat]
  BY SlotFacts, ActionFacts
     DEF PerformAction, SlotRefs, InActions, InRule, TypeInv, TypeOK, ProcessorTypeOK, RuleIds
<1>2. performed' = [performed EXCEPT ![site] = @ + 1] /\ UNCHANGED storeVars
  BY DEF PerformAction
<1>3. Stores' = Stores /\ Entries' = Entries
  BY <1>2 DEF Stores, Entries, EntryOf, storeVars
<1>4. /\ x \in DOMAIN Entries /\ Ledger!Account(x) = <<EventAt(w), RuleId[frame[w].rule]>>
      /\ frame[w].rule \in Entries[x].ranAs
  BY <1>1 DEF Entries, EntryOf, Ledger!Account
<1>5. o \in Ledger!Owed(frame[w].rule)
  BY <1>1 DEF Ledger!Owed, OrderAt
<1>6. Effects' = [Effects EXCEPT ![<<EventAt(w), RuleId[frame[w].rule]>>] = @ \cup {o}]
  <2>1. ASSUME NEW e \in Events, NEW r \in Rules, NEW n \in 1..Len(Orders[r])
        PROVE  performed'[<<e, r, n>>] > 0 <=> performed[<<e, r, n>>] > 0 \/ <<e, r, n>> = site
    <3>1. <<e, r, n>> \in Sites
      BY SiteOf
    <3> QED
      BY <1>1, <1>2, <3>1
  <2>2. ASSUME NEW e \in Events, NEW i \in RuleIds, NEW a
        PROVE  a \in Effects'[<<e, i>>] <=>
                  \/ a \in Effects[<<e, i>>]
                  \/ a = o /\ e = EventAt(w) /\ i = RuleId[frame[w].rule]
    <3>1. a \in Effects'[<<e, i>>] <=>
             \E r \in Rules : /\ RuleId[r] = i
                              /\ \E k \in 1..Len(Orders[r]) :
                                    Orders[r][k] = a /\ performed'[<<e, r, k>>] > 0
      <4>1. Effects'[<<e, i>>] = UNION {EffectsOf(e, r)' : r \in {d \in Rules : RuleId[d] = i}}
        BY DEF Effects
      <4>2. \A r : a \in EffectsOf(e, r)' <=>
                      \E k \in 1..Len(Orders[r]) : Orders[r][k] = a /\ performed'[<<e, r, k>>] > 0
        BY DEF EffectsOf
      <4> QED
        BY <4>1, <4>2
    <3>2. (\E r \in Rules : /\ RuleId[r] = i
                            /\ \E k \in 1..Len(Orders[r]) :
                                  Orders[r][k] = a /\ <<e, r, k>> = site)
          <=> a = o /\ e = EventAt(w) /\ i = RuleId[frame[w].rule]
      BY <1>1 DEF OrderAt
    <3> QED
      BY <2>1, <3>1, <3>2, EffectsAre
  <2>3. /\ Effects = [s \in Events \X RuleIds |-> Effects[s]]
        /\ Effects' = [s \in Events \X RuleIds |-> Effects'[s]]
    BY DEF Effects
  <2> HIDE DEF o, site
  <2>4. \A s \in Events \X RuleIds : \E e \in Events, i \in RuleIds : s = <<e, i>>
    OBVIOUS
  <2>5. ASSUME NEW e \in Events, NEW i \in RuleIds
        PROVE  Effects'[<<e, i>>] = IF <<e, i>> = <<EventAt(w), RuleId[frame[w].rule]>>
                                    THEN Effects[<<e, i>>] \cup {o} ELSE Effects[<<e, i>>]
    <3>1. CASE <<e, i>> = <<EventAt(w), RuleId[frame[w].rule]>>
      BY <2>2, <3>1
    <3>2. CASE <<e, i>> # <<EventAt(w), RuleId[frame[w].rule]>>
      BY <2>2, <3>2
    <3> QED
      BY <3>1, <3>2
  <2>6. \A s \in Events \X RuleIds :
           Effects'[s] = IF s = <<EventAt(w), RuleId[frame[w].rule]>>
                         THEN Effects[s] \cup {o} ELSE Effects[s]
    BY <2>4, <2>5
  <2> QED
    BY <2>3, <2>6
<1>7. Ledger!Perform(x, o)
  BY <1>3, <1>4, <1>5, <1>6 DEF Ledger!Perform
<1> QED
  BY <1>1, <1>4, <1>5, <1>7 DEF Ledger!Next

\* A webhook that is stored is accepted.
LEMMA SaveImplements ==
    ASSUME TypeInv, NEW q \in Requests, SaveEvent(q), performed' = performed
    PROVE  Ledger!Next
<1>1. EventOf[q] \in Events /\ events \in [Events -> EventStatus]
  BY IngestionAssumption DEF TypeInv, TypeOK, StoreTypeOK
<1>2. EventOf[q] \notin Stores /\ Stores' = Stores \cup {EventOf[q]}
  BY <1>1 DEF SaveEvent, Stores
<1>3. Entries' = Entries /\ Effects' = Effects
  BY DEF SaveEvent, Entries, EntryOf, Effects, EffectsOf
<1> QED
  BY <1>1, <1>2, <1>3 DEF Ledger!Next, Ledger!Accept

\* A new execution opens an entry, for an accepted webhook and a matching rule.
LEMMA StartImplements ==
    ASSUME TypeInv, MatchInv, AcknowledgedInv, NEW w \in Workers, StartNew(w),
           Stores' = Stores, Effects' = Effects
    PROVE  Ledger!Next
<1> DEFINE e == EventAt(w)
           r == frame[w].rule
           new == [event |-> e, rule |-> RuleId[r], ranAs |-> {r}, verdict |-> "open"]
<1>1. /\ e \in Events /\ r \in Rules /\ frame[w].job \in DOMAIN jobs
      /\ "processing" \in ExecutionStatus /\ r \in Matches[e]
  BY SlotFacts DEF StartNew, SlotRefs, InRule, ExecutionStatus, MatchInv
<1>2. e \in Stores
  BY <1>1 DEF AcknowledgedInv, Stores, EventAt
<1>3. executions \in Seq(Execution) /\ Entries \in Seq(EntrySet) /\ new \in EntrySet
      /\ DOMAIN Entries = DOMAIN executions /\ Len(Entries) = Len(executions)
  BY <1>1, EntriesTyped DEF TypeInv, TypeOK, StoreTypeOK, EntrySet, RuleIds
<1>4. PICK n : n = Len(executions) + 1
  OBVIOUS
<1>5. /\ DOMAIN executions' = DOMAIN executions \cup {n}
      /\ n \notin DOMAIN executions
      /\ \A x \in DOMAIN executions : executions'[x] = executions[x]
      /\ executions'[n] = [event |-> e, rule |-> RuleId[r], status |-> "processing", ok |-> {},
                           ranAs |-> {r}]
  BY <1>1, <1>3, <1>4, StartExecutionEffect DEF StartNew
<1>6. /\ DOMAIN Entries' = DOMAIN Entries \cup {n}
      /\ \A x \in DOMAIN Entries : Entries'[x] = Entries[x]
      /\ Entries'[n] = new
  <2>1. EntryOf(n)' = new
    BY <1>5 DEF EntryOf, VerdictOf
  <2>2. \A x \in DOMAIN executions : EntryOf(x)' = EntryOf(x)
    BY <1>5 DEF EntryOf
  <2> HIDE DEF new, e, r
  <2> QED
    BY <1>3, <1>5, <2>1, <2>2 DEF Entries
<1>7. /\ Append(Entries, new) \in Seq(EntrySet)
      /\ DOMAIN Append(Entries, new) = DOMAIN Entries \cup {n}
      /\ \A x \in DOMAIN Entries : Append(Entries, new)[x] = Entries[x]
      /\ Append(Entries, new)[n] = new
  BY <1>3, <1>4, Appended
<1>8. Entries' = [x \in DOMAIN Entries' |-> Entries'[x]]
  BY DEF Entries
<1>9. Append(Entries, new) = [x \in DOMAIN Append(Entries, new) |-> Append(Entries, new)[x]]
  <2>1. \A s \in Seq(EntrySet) : s = [x \in DOMAIN s |-> s[x]]
    BY SeqDef
  <2> QED
    BY <1>7, <2>1
<1>10. Entries' = Append(Entries, new)
  <2> HIDE DEF new, e, r
  <2> QED
    BY <1>6, <1>7, <1>8, <1>9
<1> QED
  BY <1>1, <1>2, <1>10 DEF Ledger!Next, Ledger!Open

\* Every other update of a status judges an entry; "completed" comes last.
LEMMA JudgeImplements ==
    ASSUME TypeInv, NEW x \in DOMAIN executions, NEW status \in ExecutionStatus,
           CompleteExecution(x, status), Stores' = Stores, Effects' = Effects,
           status = "completed" =>
              \E r \in executions[x].ranAs :
                 Ledger!Owed(r) \subseteq Effects[<<executions[x].event, executions[x].rule>>]
    PROVE  Ledger!Next
<1>1. /\ x \in DOMAIN Entries /\ Entries[x].ranAs = executions[x].ranAs
      /\ Ledger!Account(x) = <<executions[x].event, executions[x].rule>>
  BY DEF Entries, EntryOf, Ledger!Account
<1>2. VerdictOf(status) \in {"open", "failed", "completed"}
      /\ (VerdictOf(status) = "completed" => status = "completed")
  BY DEF VerdictOf
<1>3. Ledger!Judge(x, VerdictOf(status))
  BY <1>1, <1>2, CompleteJudges DEF Ledger!Judge
<1> QED
  BY <1>1, <1>2, <1>3 DEF Ledger!Next

\* A call that resumes an execution reopens its entry.
LEMMA ResumeImplements ==
    ASSUME TypeInv, MatchInv, NEW w \in Workers, Resume(w), Stores' = Stores, Effects' = Effects
    PROVE  Ledger!Next
<1> DEFINE x == frame[w].exec
           r == frame[w].rule
<1>1. /\ x \in DOMAIN executions /\ r \in Rules /\ ResumeExecution(x, r)
      /\ RuleId[r] = executions[x].rule /\ r \in Matches[executions[x].event]
  BY SlotFacts DEF Resume, SlotRefs, InRule, MatchInv
<1>2. /\ x \in DOMAIN Entries /\ Entries[x].rule = executions[x].rule
      /\ Entries[x].event = executions[x].event
  BY <1>1 DEF Entries, EntryOf
<1>3. Ledger!Reopen(x, r)
  BY <1>1, <1>2, ResumeReopens DEF Ledger!Reopen
<1> QED
  BY <1>1, <1>2, <1>3 DEF Ledger!Next

\* A call past its last action owes nothing.
LEMMA NothingOwed ==
    ASSUME TypeInv, MatchInv, PerformedInv, NEW w \in Workers, FinishExecution(w)
    PROVE  LET x == frame[w].exec
           IN \E r \in executions[x].ranAs :
                 Ledger!Owed(r) \subseteq Effects[<<executions[x].event, executions[x].rule>>]
<1> DEFINE x == frame[w].exec
           e == executions[x].event
           i == executions[x].rule
           r == frame[w].rule
<1>1. /\ x \in DOMAIN executions /\ r \in executions[x].ranAs /\ r \in Rules
      /\ e \in Events /\ i \in RuleIds
      /\ frame[w].at \in Nat /\ frame[w].at > Len(Orders[r]) /\ Len(Orders[r]) \in Nat
      /\ \A k \in 1..(frame[w].at - 1) : Orders[r][k] \in executions[x].ok
  BY SlotFacts, Indices, StoreAssumption, LenProperties
     DEF FinishExecution, SlotRefs, InRule, InActions, AtLastAction, PerformedInv, SlotProgress, Frame,
         Execution
<1>2. ASSUME NEW k \in 1..Len(Orders[r])
      PROVE  Orders[r][k] \in Effects[<<e, i>>]
  <2>1. Orders[r][k] \in executions[x].ok
    BY <1>1, <1>2
  <2>2. PICK q \in executions[x].ranAs : \E l \in 1..Len(Orders[q]) :
           Orders[q][l] = Orders[r][k] /\ performed[<<e, q, l>>] > 0
    BY <1>1, <2>1 DEF PerformedInv, StepPerformed
  <2>3. q \in Rules /\ RuleId[q] = i
    BY <1>1, Indices DEF MatchInv, RunsOfRule, Execution
  <2> HIDE DEF e, i, r
  <2> QED
    BY <1>1, <2>2, <2>3, EffectsAre
<1> QED
  BY <1>1, <1>2 DEF Ledger!Owed

\* The recovery abandons the entries it fails.
LEMMA FailImplements ==
    ASSUME TypeInv, NEW j \in DOMAIN jobs, FailExecutions(j),
           Stores' = Stores, Effects' = Effects
    PROVE  Ledger!Next
<1> DEFINE e == jobs[j].event
           entries == {x \in DOMAIN executions :
                          /\ executions[x].event = e
                          /\ executions[x].status \in {"queued", "processing"}}
<1>1. e \in Events /\ \A x \in DOMAIN executions : executions[x] \in Execution
  BY Indices
<1>2. /\ DOMAIN executions' = DOMAIN executions
      /\ \A x \in DOMAIN executions :
            executions'[x] = IF x \in entries THEN [executions[x] EXCEPT !.status = "failed"]
                             ELSE executions[x]
  BY DEF FailExecutions, FailActiveExecutions
<1>3. \A x \in DOMAIN executions :
         EntryOf(x)' = IF x \in entries THEN [EntryOf(x) EXCEPT !.verdict = "failed"]
                       ELSE EntryOf(x)
  <2> TAKE x \in DOMAIN executions
  <2>1. CASE x \in entries
    <3>1. executions'[x].event = executions[x].event /\ executions'[x].rule = executions[x].rule
          /\ executions'[x].ranAs = executions[x].ranAs /\ executions'[x].status = "failed"
      BY <1>1, <1>2, <2>1 DEF Execution
    <3> QED
      BY <2>1, <3>1 DEF EntryOf, VerdictOf
  <2>2. CASE x \notin entries
    BY <1>2, <2>2 DEF EntryOf
  <2> QED
    BY <2>1, <2>2
<1>4. /\ DOMAIN Entries = DOMAIN executions
      /\ \A x \in DOMAIN executions : Entries[x] = EntryOf(x)
      /\ Entries' = [x \in DOMAIN executions' |-> EntryOf(x)']
  BY DEF Entries
<1>5. \A x \in entries : Entries[x].event = e /\ Entries[x].verdict = "open"
  BY <1>4 DEF EntryOf, VerdictOf
<1>6. entries \in SUBSET DOMAIN Entries
  BY <1>4
<1> HIDE DEF e, entries
<1>7. Entries' = [x \in DOMAIN Entries |->
                    IF x \in entries THEN [Entries[x] EXCEPT !.verdict = "failed"]
                    ELSE Entries[x]]
  BY <1>2, <1>3, <1>4
<1>8. Ledger!Abandon(e, entries)
  BY <1>5, <1>7 DEF Ledger!Abandon
<1> QED
  BY <1>1, <1>6, <1>8 DEF Ledger!Next

\* Only save() adds to the stored webhooks, and nothing removes one.
LEMMA StoresMove ==
    ASSUME TypeInv, AcknowledgedInv, [Next]_vars, ~\E q \in Requests : SaveEvent(q)
    PROVE  Stores' = Stores
BY EventsStay, EventsAppear DEF Stores

\* A step of the engine is one of the ledger or changes nothing it sees.
LEMMA StepImplements ==
    ASSUME TypeInv, MatchInv, AcknowledgedInv, PerformedInv, [Next]_vars
    PROVE  [Ledger!Next]_(Ledger!vars)
<1>1. ASSUME NEW w \in Workers, PerformAction(w)
      PROVE  Ledger!Next
  BY <1>1, PerformImplements
<1>2. CASE performed' = performed
  <2>1. ASSUME NEW q \in Requests, SaveEvent(q)
        PROVE  Ledger!Next
    BY <1>2, <2>1, SaveImplements
  <2>2. CASE ~\E q \in Requests : SaveEvent(q)
    <3>1. Stores' = Stores /\ Effects' = Effects
      BY <1>2, <2>2, StoresMove DEF Effects, EffectsOf
    <3>2. ASSUME NEW w \in Workers, StartNew(w)
          PROVE  Ledger!Next
      BY <3>1, <3>2, StartImplements
    <3>3. ASSUME NEW w \in Workers, MarkExecution(w)
          PROVE  Ledger!Next
      <4>1. PICK status \in {"retrying", "failed"} : CompleteExecution(frame[w].exec, status)
        BY <3>3 DEF MarkExecution
      <4>2. frame[w].exec \in DOMAIN executions /\ status \in ExecutionStatus
        BY <3>3, SlotFacts DEF MarkExecution, SlotRefs, InActions, ExecutionStatus
      <4> QED
        BY <3>1, <4>1, <4>2, JudgeImplements
    <3>11. ASSUME NEW w \in Workers, Resume(w)
           PROVE  Ledger!Next
      BY <3>1, <3>11, ResumeImplements
    <3>4. ASSUME NEW w \in Workers, LogSuccess(w)
          PROVE  Entries' = Entries
      <4>1. /\ frame[w].exec \in DOMAIN executions /\ OrderAt(w) \in Nat
            /\ executions \in Seq(Execution)
        BY <3>4, SlotFacts, ActionFacts
           DEF LogSuccess, SlotRefs, InActions, TypeInv, TypeOK, StoreTypeOK
      <4>2. /\ DOMAIN executions' = DOMAIN executions
            /\ \A x \in DOMAIN executions : executions'[x].status = executions[x].status
        BY <3>4, <4>1, AddSuccessStepEffect DEF LogSuccess
      <4>3. \A x \in DOMAIN executions : executions'[x].ranAs = executions[x].ranAs
        BY <3>4, <4>1, AddSuccessStepEffect DEF LogSuccess
      <4>4. \A x \in DOMAIN executions : EntryOf(x)' = EntryOf(x)
        BY <4>2, <4>3, NextGrows DEF EntryOf, ExecutionsGrow
      <4> QED
        BY <4>2, <4>4 DEF Entries
    <3>5. ASSUME NEW w \in Workers, FinishExecution(w)
          PROVE  Ledger!Next
      <4>1. /\ frame[w].exec \in DOMAIN executions /\ "completed" \in ExecutionStatus
            /\ CompleteExecution(frame[w].exec, "completed")
        BY <3>5, SlotFacts DEF FinishExecution, SlotRefs, InActions, ExecutionStatus
      <4> QED
        BY <3>1, <3>5, <4>1, NothingOwed, JudgeImplements
    <3>6. ASSUME NEW p \in Replays, ResetExecution(p)
          PROVE  Ledger!Next
      <4>1. /\ replay[p].exec \in DOMAIN executions /\ "queued" \in ExecutionStatus
            /\ CompleteExecution(replay[p].exec, "queued")
        BY <3>6 DEF TypeInv, ReplayRefs, Replaying, ResetExecution, ExecutionStatus
      <4> QED
        BY <3>1, <4>1, JudgeImplements
    <3>7. ASSUME NEW j \in DOMAIN jobs, FailExecutions(j)
          PROVE  Ledger!Next
      BY <3>1, <3>7, FailImplements
    <3>8. executions' = executions => Entries' = Entries
      BY DEF Entries, EntryOf
    <3>9. Entries' = Entries => UNCHANGED Ledger!vars
      BY <3>1 DEF Ledger!vars
    <3>10. Ledger!Next \/ Entries' = Entries
      BY <3>2, <3>3, <3>4, <3>5, <3>6, <3>7, <3>8, <3>11, ExecutionWrites
    <3> QED
      BY <3>9, <3>10
  <2> QED
    BY <2>1, <2>2
<1> QED
  BY <1>1, <1>2, PerformedWrites

\* Whatever overlaps, fails or is repeated, the engine keeps the ledger's
\* promise: actions only for a stored webhook and a rule that matches it as the
\* rule was when a call ran it, and no execution completed before an action has
\* happened at each order of such a document of its rule.
THEOREM LedgerImplemented == Spec => ImplementsLedger
<1>1. Init => Ledger!Init
  <2> SUFFICES ASSUME Init
               PROVE  Ledger!Init
    OBVIOUS
  <2>1. Stores = {} /\ Entries = <<>>
    BY DEF Init, StoreInit, Stores, Entries
  <2>2. ASSUME NEW e \in Events, NEW i \in RuleIds
        PROVE  Effects[<<e, i>>] = {}
    <3>1. ASSUME NEW r \in Rules, NEW n \in 1..Len(Orders[r])
          PROVE  ~(performed[<<e, r, n>>] > 0)
      BY SiteOf DEF Init, ProcessorInit
    <3> QED
      BY <3>1, EffectsAre
  <2>3. Effects = [s \in Events \X RuleIds |-> {}]
    <3>1. \A s \in Events \X RuleIds : Effects[s] = {}
      BY <2>2
    <3>2. Effects = [s \in Events \X RuleIds |-> Effects[s]]
      BY DEF Effects
    <3> QED
      BY <3>1, <3>2
  <2> QED
    BY <2>1, <2>3 DEF Ledger!Init, RuleIds
<1> QED
  BY <1>1, StepImplements, MatchHolds, AcknowledgedHolds, PerformedHolds, ReferencesExist, PTL
     DEF Spec, ImplementsLedger, Ledger!Spec

=============================================================================
