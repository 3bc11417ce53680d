------------------------------ MODULE ContentProofs ------------------------------
(***************************************************************************)
(* Which webhooks a rule runs for: the rules engine meets what a rule's    *)
(* author means by its conditions, and the processor runs a rule where     *)
(* they are met and nowhere else.                                          *)
(***************************************************************************)
EXTENDS EngineContent, SingleFileProofs

-----------------------------------------------------------------------------
(* Conditions *)

\* Where no payload has a field 'payload' of its own, the path a condition is
\* read at is the field its author means.
LEMMA FieldIsMeant ==
    ASSUME NEW payload, NEW field \in Seq(STRING),
           \A path \in DOMAIN payload : path \in Seq(STRING) \ {<<>>} /\ path[1] # "payload"
    PROVE  GetValueByPath(payload, FieldPath(field)) = Meant(field, payload)
<1> DEFINE named == {path \in DOMAIN payload : field \in {path, <<"payload">> \o path}}
<1>1. ASSUME NEW path \in DOMAIN payload
      PROVE  field \in {path, <<"payload">> \o path} <=> path = FieldPath(field)
  <2>1. path \in Seq(STRING) /\ path # <<>> /\ path[1] # "payload" /\ Len(path) > 0
    BY EmptySeq, LenProperties
  <2>2. CASE Len(field) > 1 /\ field[1] = "payload"
    <3>1. path # field
      BY <2>1, <2>2
    <3>2. /\ Len(Tail(field)) = Len(field) - 1
          /\ \A i \in 1..Len(Tail(field)) : Tail(field)[i] = field[i + 1]
      BY <2>2
    <3>3. ASSUME field = <<"payload">> \o path
          PROVE  path = Tail(field)
      BY <2>1, <3>3
    <3>4. ASSUME path = Tail(field)
          PROVE  field = <<"payload">> \o path
      BY <2>2, <3>4
    <3> QED
      BY <2>2, <3>1, <3>3, <3>4 DEF FieldPath
  <2>3. CASE ~(Len(field) > 1 /\ field[1] = "payload")
    <3>1. field # <<"payload">> \o path
      BY <2>1, <2>3
    <3> QED
      BY <2>3, <3>1 DEF FieldPath
  <2> QED
    BY <2>2, <2>3
<1>2. named = {path \in DOMAIN payload : path = FieldPath(field)}
  BY <1>1
<1>3. CASE FieldPath(field) \in DOMAIN payload
  <2>1. named = {FieldPath(field)}
    BY <1>2, <1>3
  <2> QED
    BY <1>3, <2>1 DEF Meant, GetValueByPath
<1>4. CASE FieldPath(field) \notin DOMAIN payload
  BY <1>2, <1>4 DEF Meant, GetValueByPath
<1> QED
  BY <1>3, <1>4

\* A condition holds of a webhook the engine reads as it is written exactly if
\* it says so of the field that is meant, provided its operator is implemented.
LEMMA ConditionIsMeant ==
    ASSUME NEW e \in Events, NEW r \in Rules, ReadAsWritten(e, r),
           NEW i \in DOMAIN RuleDoc[r].conditions
    PROVE  LET cond == RuleDoc[r].conditions[i]
               payload == EventDoc[e].payload
           IN /\ Holds(cond, payload) => Says(cond, Meant(cond.field, payload))
              /\ cond.operator \in Implemented /\ Says(cond, Meant(cond.field, payload))
                    => Holds(cond, payload)
<1> DEFINE cond == RuleDoc[r].conditions[i]
           payload == EventDoc[e].payload
<1>1. PICK v : v = GetValueByPath(payload, FieldPath(cond.field))
  OBVIOUS
<1>2. v = Meant(cond.field, payload)
  BY <1>1, FieldIsMeant, ContentAssumption DEF ReadAsWritten
<1>3. /\ cond.value.number \in Int \cup {NaN}
      /\ cond.operator = "equals" => cond.value.text \notin {m.text : m \in Missing}
      /\ cond.operator = "greaterThan" /\ cond.value.number # NaN => cond.value.number >= 0
  BY ContentAssumption DEF ReadAsWritten, Value
<1> HIDE DEF cond, payload
<1>4. Holds(cond, payload) <=>
         \/ cond.operator = "equals" /\ v.text = cond.value.text
         \/ /\ cond.operator = "greaterThan"
            /\ NaN \notin {v.number, cond.value.number}
            /\ v.number > cond.value.number
         \/ /\ cond.operator = "contains"
            /\ v.type = "string"
            /\ <<Lower[cond.value.text], Lower[v.text]>> \in Within
  BY <1>1 DEF Holds
<1>5. CASE cond.operator = "equals"
  <2>1. v \notin Missing => (Holds(cond, payload) <=> Says(cond, v))
    BY <1>4, <1>5 DEF Says
  <2>2. v \in Missing => ~Holds(cond, payload) /\ ~Says(cond, v)
    BY <1>3, <1>4, <1>5 DEF Says
  <2> QED
    BY <1>2, <2>1, <2>2 DEF cond, payload
<1>6. CASE cond.operator = "greaterThan"
  <2>1. v \in Missing => v.number = NaN \/ v.number = 0
    BY DEF Missing, Undefined, Null
  <2>2. v \in Missing => ~Holds(cond, payload)
    BY <1>3, <1>4, <1>6, <2>1
  <2>3. v \notin Missing => (Holds(cond, payload) <=> Says(cond, v))
    BY <1>4, <1>6 DEF Says
  <2>4. Says(cond, v) => v \notin Missing
    BY DEF Says
  <2> QED
    BY <1>2, <2>2, <2>3, <2>4 DEF cond, payload
<1>7. CASE cond.operator = "contains"
  <2>1. v \in Missing => v.type # "string"
    BY DEF Missing, Undefined, Null
  <2> QED
    BY <1>2, <1>4, <1>7, <2>1 DEF Says, cond, payload
<1>8. CASE cond.operator \notin Implemented
  BY <1>4, <1>8 DEF Implemented, cond, payload
<1> QED
  BY <1>2, <1>5, <1>6, <1>7, <1>8 DEF Implemented, cond, payload

\* So it is with all conditions of a rule.
LEMMA MatchedAsWritten ==
    ASSUME NEW e \in Events, NEW r \in Rules, ReadAsWritten(e, r)
    PROVE  /\ r \in Matched[e] => MeetsRule(e, r)
           /\ /\ MeetsRule(e, r)
              /\ \A i \in DOMAIN RuleDoc[r].conditions :
                    RuleDoc[r].conditions[i].operator \in Implemented
              => r \in Matched[e]
BY ConditionIsMeant DEF Matched, EvaluateRule, MeetsRule

-----------------------------------------------------------------------------
(* Executions *)

\* An execution once found is there for good.
LEMMA StillCovered ==
    ASSUME TypeInv, [Next]_vars, NEW e, NEW r, ExecutionsOf(e, r) # {}
    PROVE  ExecutionsOf(e, r)' # {}
BY NextGrows DEF ExecutionsGrow, ExecutionsOf

\* A call takes a rule off its list when it has found or finished its execution.
LEMMA CoveredStep ==
    ASSUME TypeInv, RulesKept, CoveredInv, [Next]_vars, Calm({"ruleEdit"})', NEW w \in Workers,
           frame'[w].pc \in InRule \cup {"loop"}, NEW e \in Events, EventAt(w) = e,
           NEW r \in Matches[e] \cap activeRules, r \notin frame'[w].todo
    PROVE  ExecutionsOf(e, r)' # {}
<1>0. /\ Calm({"ruleEdit"}) /\ r \in Rules
      /\ frame[w].pc \in InRule \cup {"loop"} /\ r \notin frame[w].todo => ExecutionsOf(e, r) # {}
  BY CalmBefore, StoreAssumption DEF RulesKept, CoveredInv, Mishaps
<1>1. CASE frame[w].pc \in InRule \cup {"loop"} /\ frame'[w].todo = frame[w].todo
  BY <1>0, <1>1, StillCovered
<1>2. CASE LoadRules(w)
  BY <1>0, <1>2, CallSteps
<1>3. ASSUME NEW q \in Rules, FindExecution(w, q), frame'[w].todo # frame[w].todo
      PROVE  ExecutionsOf(e, r)' # {}
  <2>1. /\ ExecutionsOf(e, q) # {} /\ frame[w].pc = "loop"
        /\ frame'[w].todo = frame[w].todo \ {q}
    BY <1>3, RuleSteps
  <2> QED
    BY <1>0, <2>1, StillCovered
<1>4. CASE FinishExecution(w)
  <2>1. /\ frame[w].pc = "act" /\ frame'[w].todo = frame[w].todo \ {frame[w].rule}
        /\ frame[w].exec \in ExecutionsOf(e, frame[w].rule)
    BY <1>4, RuleSteps, SlotFacts DEF SlotRefs, InActions, InRule, ExecutionsOf
  <2> QED
    BY <1>0, <2>1, StillCovered DEF InRule
<1>5. \/ StartNew(w) \/ Resume(w) \/ SkipAction(w) \/ LogSuccess(w) \/ PerformAction(w) =>
            frame[w].pc \in InRule /\ frame'[w].todo = frame[w].todo
  BY RuleSteps, ActionSteps DEF SameProgress, SameRule, SameCall, InRule
<1>6. ASSUME NEW q \in Rules, FindExecution(w, q)
      PROVE  frame[w].pc = "loop"
  BY <1>6 DEF FindExecution
<1>7. CASE frame'[w] # frame[w]
  BY <1>1, <1>2, <1>3, <1>4, <1>5, <1>6, <1>7, Arrivals DEF InRule, InActions, SameRule, SameCall
<1> QED
  BY <1>1, <1>7

\* An event is completed by a call at the end of its list.
LEMMA CoveredHolds == Spec => []CoveredInv
<1>1. Init => RulesKept /\ CoveredInv
  <2> SUFFICES ASSUME Init
               PROVE  RulesKept /\ CoveredInv
    OBVIOUS
  <2>1. \A e \in Events : events[e] = "absent"
    BY DEF Init, StoreInit
  <2>2. \A w \in Workers : frame[w].pc = "idle"
    BY DEF Init, ProcessorInit, IdleFrame
  <2> QED
    BY <2>1, <2>2, RulesKeptAtFirst DEF CoveredInv, InRule
<1>2. TypeInv /\ RulesKept /\ CoveredInv /\ [Next]_vars => CoveredInv'
  <2> SUFFICES ASSUME TypeInv, RulesKept, CoveredInv, [Next]_vars, Calm({"ruleEdit"})'
               PROVE  CoveredInv'
    BY DEF CoveredInv
  <2>0. Calm({"ruleEdit"}) /\ activeRules' = activeRules
    BY CalmBefore, CalmExcludes, RuleWrites DEF Mishaps
  <2>1. ASSUME NEW w \in Workers, frame'[w].pc \in InRule \cup {"loop"},
               NEW r \in (Matches[EventAt(w)'] \cap activeRules) \ frame'[w].todo
        PROVE  ExecutionsOf(EventAt(w), r)' # {}
    <3>1. frame'[w].job = frame[w].job /\ frame[w].pc # "idle"
      BY <2>1, Arrivals DEF InRule
    <3>2. PICK e \in Events : e = EventAt(w) /\ e = EventAt(w)'
      BY <3>1, NextGrows, SlotFacts DEF EventAt, JobsGrow
    <3>3. ExecutionsOf(e, r)' # {}
      BY <2>1, <3>2, CoveredStep
    <3> QED
      BY <3>2, <3>3 DEF ExecutionsOf
  <2>2. ASSUME NEW e \in Events, events'[e] = "completed",
               NEW r \in Matches[e] \cap activeRules
        PROVE  ExecutionsOf(e, r)' # {}
    <3>1. CASE events[e] = "completed"
      BY <2>0, <2>2, <3>1, StillCovered DEF CoveredInv
    <3>2. CASE events[e] # "completed"
      <4>1. PICK w \in Workers : CompleteEvent(w) /\ EventAt(w) = e
        BY <2>2, <3>2, EventCompletions
      <4>2. frame[w].pc = "loop" /\ frame[w].todo = {}
        BY <4>1 DEF CompleteEvent
      <4>3. ExecutionsOf(e, r) # {}
        BY <2>0, <2>2, <4>1, <4>2 DEF CoveredInv
      <4> QED
        BY <4>3, StillCovered
    <3> QED
      BY <3>1, <3>2
  <2> QED
    BY <2>0, <2>1, <2>2 DEF CoveredInv
<1> QED
  BY <1>1, <1>2, RulesKeptStep, ReferencesExist, PTL DEF Spec

\* Where the engine is given the rules that match by its own rules engine, a
\* rule runs for the webhooks its author means, and completes none without.
THEOREM RulesAreRunAsWritten ==
    ASSUME Matches = Matched
    PROVE  Spec => []RulesRunAsWritten
<1>1. TypeInv /\ MatchInv /\ CoveredInv => RulesRunAsWritten
  <2> SUFFICES ASSUME TypeInv, MatchInv, CoveredInv
               PROVE  RulesRunAsWritten
    OBVIOUS
  <2>1. ASSUME NEW x \in DOMAIN executions, NEW r \in executions[x].ranAs,
               ReadAsWritten(executions[x].event, r)
        PROVE  MeetsRule(executions[x].event, r)
    <3>1. /\ executions[x].event \in Events /\ r \in Rules
          /\ r \in Matched[executions[x].event]
      BY Indices DEF Execution, MatchInv, RunsOfRule
    <3> QED
      BY <2>1, <3>1, MatchedAsWritten
  <2>2. ASSUME Calm({"ruleEdit"}), NEW e \in Events, NEW r \in activeRules,
               events[e] = "completed", MeetsRule(e, r), ReadAsWritten(e, r),
               \A i \in DOMAIN RuleDoc[r].conditions :
                   RuleDoc[r].conditions[i].operator \in Implemented
        PROVE  ExecutionsOf(e, r) # {}
    <3>1. r \in Matched[e]
      BY <2>2, MatchedAsWritten DEF TypeInv, TypeOK, StoreTypeOK
    <3> QED
      BY <2>2, <3>1 DEF CoveredInv
  <2> QED
    BY <2>1, <2>2 DEF RulesRunAsWritten
<1> QED
  BY <1>1, MatchHolds, CoveredHolds, ReferencesExist, PTL

=============================================================================
